-------------------------- MODULE MCRequirementVerdicts -------------------------
(* Plugins, prompts and drafts for RequirementVerdicts. *)
EXTENDS RequirementVerdicts

SomePluginFiles ==
  {<<[name |-> "constraint_verifier", kinds |-> <<"required_content", "test_command">>]>>,
   <<[name |-> "house_rules", kinds |-> <<"security">>],
     [name |-> "test_command_verifier", kinds |-> <<"robustness">>]>>}

Include(term) == [kind |-> "required_content", verifier |-> "constraint_verifier", value |-> term]
Never(term) == [kind |-> "forbidden_content", verifier |-> "constraint_verifier", value |-> term]
Within == [kind |-> "allowed_files", verifier |-> "git_diff_verifier", value |-> ""]
Run(command) == [kind |-> "test_command", verifier |-> "test_command_verifier", value |-> command]

SomeRequirementLists ==
  {<<>>, <<Include("a"), Never("b")>>, <<Include("a"), Include("b"), Within>>, <<Never("b"), Run("pytest")>>,
   <<Include("a"), Run("run tests")>>}

Candidate(terms, diff, strays, sound) ==
  [terms |-> terms, diff |-> diff, strays |-> strays, parses |-> TRUE, guarded |-> sound]
SomeCandidates ==
  {Candidate({"a"}, FALSE, FALSE, TRUE), Candidate({"a", "b"}, TRUE, FALSE, TRUE),
   Candidate({"a", "b"}, TRUE, TRUE, FALSE),
   [Candidate({}, FALSE, FALSE, TRUE) EXCEPT !.parses = FALSE]}
\* Pairs whose second candidate complies with some of the lists.
SomeCandidateLists ==
  {<<>>} \cup {<<c, d>> : c \in SomeCandidates,
               d \in {Candidate({"a"}, FALSE, FALSE, TRUE), Candidate({"a", "b"}, TRUE, FALSE, TRUE)}}
=============================================================================
