-------------------------- MODULE RequirementVerdicts --------------------------
(***************************************************************************)
(* The verifier registry of the plugin SDK (GLOBAL_VERIFIER_REGISTRY) and  *)
(* what is decided with it: the receipt for a draft, the champion among    *)
(* candidates, and the verdict on a simulated agent. Plugins are loaded    *)
(* from files at any time; the built-in verifiers when one is first asked  *)
(* for. The process has one thread.                                        *)
(***************************************************************************)
EXTENDS Naturals, FiniteSets, SequencesExt

CONSTANTS
  PluginFiles,       \* what a file may hold: sequences of [name, kinds]
  RequirementLists,  \* what a prompt compiles to
  Candidates,        \* drafts
  CandidateLists

\* Kinds of requirements, and the names of the built-in verifiers for them.
Builtins == <<
  [name |-> "constraint_verifier",
   kinds |-> <<"required_content", "forbidden_content", "word_limit", "output_format">>],
  [name |-> "python_syntax_verifier", kinds |-> <<"compatibility", "output_format">>],
  [name |-> "test_command_verifier", kinds |-> <<"test_command">>],
  [name |-> "git_diff_verifier", kinds |-> <<"allowed_files", "forbidden_files">>],
  [name |-> "evidence_completeness_verifier", kinds |-> <<"security", "compatibility">>],
  [name |-> "cegis_property_verifier", kinds |-> <<"security", "compatibility", "robustness">>],
  [name |-> "type_invariant_verifier", kinds |-> <<"compatibility", "output_format">>]>>

RequirementKinds == UNION {ToSet(Builtins[i].kinds) : i \in DOMAIN Builtins}

\* ContractCompiler.compile: each of its four patterns names a verifier. The command
\* of a test requirement is the matched text itself: "pytest", "run tests", ...
CompiledRequirements ==
  [kind : {"required_content", "forbidden_content"}, verifier : {"constraint_verifier"}, value : STRING]
  \cup [kind : {"allowed_files"}, verifier : {"git_diff_verifier"}, value : {""}]
  \cup [kind : {"test_command"}, verifier : {"test_command_verifier"},
        value : {"pytest", "run pytest", "run tests", "npm test"}]

\* A draft: the terms in it, whether it is a diff, leaves the allowed files, parses,
\* and never takes the first item of what may be empty.
Draft == [terms : SUBSET STRING, diff : BOOLEAN, strays : BOOLEAN, parses : BOOLEAN, guarded : BOOLEAN]

ASSUME ListsAssumption ==
  /\ \A f \in PluginFiles : f \in Seq([name : STRING, kinds : Seq(STRING)])
  /\ \A l \in RequirementLists : l \in Seq(CompiledRequirements)
  /\ \A l \in CandidateLists : l \in Seq(Candidates)
  /\ Candidates \subseteq Draft

VARIABLES
  verifiers,       \* _verifiers: name |-> "builtin" or "plugin"
  kind_mapping,    \* _kind_mapping: kind |-> name
  builtins_loaded,
  card             \* the last receipt, simulation or ranking

verdictVars == <<verifiers, kind_mapping, builtins_loaded, card>>

NoCard == [what |-> "none"]
Registry(vs, ks) == [verifiers |-> vs, kinds |-> ks]

-----------------------------------------------------------------------------
(* VerifierRegistry                                                        *)

\* The classes that register: their names are not taken, nor by an earlier one.
Registrable(r, classes) ==
  {i \in DOMAIN classes : /\ classes[i].name \notin DOMAIN r.verifiers
                          /\ \A j \in 1..(i - 1) : classes[j].name # classes[i].name}

\* setdefault: the first verifier registered for a kind keeps it.
RegisterAll(r, classes, those, origin) ==
  LET names == {classes[i].name : i \in those}
      for(k) == {i \in those : k \in ToSet(classes[i].kinds)}
      free == (UNION {ToSet(classes[i].kinds) : i \in those}) \ DOMAIN r.kinds
  IN Registry([n \in DOMAIN r.verifiers \cup names |-> IF n \in names THEN origin ELSE r.verifiers[n]],
              [k \in DOMAIN r.kinds \cup free |-> IF k \in free THEN classes[Min(for(k))].name ELSE r.kinds[k]])

\* Slip, for mutation: a name that is taken is taken over.
RegisterPluginsAnyway(r, file) == RegisterAll(r, file, DOMAIN file, "plugin")

\* register: a taken name is a ValueError, which load_plugin_from_file logs.
RegisterPlugins(r, file) == RegisterAll(r, file, Registrable(r, file), "plugin")

\* _ensure_builtins: allow_replace=True; the kinds a plugin has stay with its name.
LoadBuiltins(r) == RegisterAll(r, Builtins, DOMAIN Builtins, "builtin")

EnsureBuiltins ==
  LET now == Registry(verifiers, kind_mapping)
      ready == IF builtins_loaded THEN now ELSE LoadBuiltins(now)
  IN /\ builtins_loaded' = TRUE
     /\ verifiers' = ready.verifiers /\ kind_mapping' = ready.kinds

-----------------------------------------------------------------------------
(* The verifiers; a plugin may answer anything, or raise, which is UNKNOWN. *)

VerifierStatuses == {"PASS", "FAIL", "UNKNOWN", "NOT_CHECKED"}
Outcome(ok) == IF ok THEN {"PASS"} ELSE {"FAIL"}

ConstraintVerifier(req, d) ==
  Outcome(IF req.kind = "required_content" THEN req.value \in d.terms ELSE req.value \notin d.terms)

\* Text that is neither a diff nor a list of files is not checked.
GitDiffScopeVerifier(d) == IF d.diff THEN Outcome(~d.strays) ELSE {"NOT_CHECKED"}

\* The program of a command line: argv[0] of shlex.split.
Executable(command) ==
  CASE command = "pytest" -> "pytest" [] command = "npm test" -> "npm" [] OTHER -> "run"
AllowlistedExecutables == {"pytest", "python", "python3", "uv", "ruff"}

\* The program ends with exit code 0 or another, does not end in time, or is not there.
RunOutcomes == [zero |-> "PASS", nonzero |-> "FAIL", timeout |-> "UNKNOWN", no_launch |-> "UNKNOWN"]
TestCommandVerifier(req) ==
  IF req.value = "" THEN {"UNKNOWN"}
  ELSE IF Executable(req.value) \notin AllowlistedExecutables THEN {"FAIL"}
  ELSE {RunOutcomes[run] : run \in DOMAIN RunOutcomes}

\* verify_requirement, after the builtins are there.
VerifyRequirement(vs, req, d) ==
  CASE vs[req.verifier] = "plugin" -> VerifierStatuses
    [] req.verifier = "constraint_verifier" -> ConstraintVerifier(req, d)
    [] req.verifier = "git_diff_verifier" -> GitDiffScopeVerifier(d)
    [] OTHER -> TestCommandVerifier(req)

\* The verdicts a list of requirements may get, in order.
Verdicts(vs, reqs, d) ==
  {v \in [DOMAIN reqs -> VerifierStatuses] : \A i \in DOMAIN reqs : v[i] \in VerifyRequirement(vs, reqs[i], d)}
Count(verdict, status) == Cardinality({i \in DOMAIN verdict : verdict[i] = status})

-----------------------------------------------------------------------------
VerdictInit ==
  /\ verifiers = <<>> /\ kind_mapping = <<>> /\ builtins_loaded = FALSE
  /\ card = NoCard

\* load_plugin_from_file: the classes of the file one by one.
LoadPlugin(file) ==
  LET r == RegisterPlugins(Registry(verifiers, kind_mapping), file)
  IN /\ verifiers' = r.verifiers /\ kind_mapping' = r.kinds
     /\ UNCHANGED <<builtins_loaded, card>>

\* format_verification_receipt: acceptable if nothing failed and something passed.
Receipt(reqs, d) ==
  /\ EnsureBuiltins
  /\ \E v \in Verdicts(verifiers', reqs, d) :
       card' = [what |-> "receipt", reqs |-> reqs, draft |-> d,
                accepted |-> Count(v, "FAIL") = 0 /\ Count(v, "PASS") > 0]

\* run_simulation of the step-locked agent: syntax and boundary checks, then every
\* requirement; only FAIL counts against it. The other agents are never safe.
Simulate(reqs, d) ==
  /\ reqs # <<>> /\ EnsureBuiltins
  /\ \E v \in Verdicts(verifiers', reqs, d) :
       card' = [what |-> "simulation", reqs |-> reqs, draft |-> d,
                accepted |-> d.parses /\ d.guarded /\ Count(v, "FAIL") = 0]

Branch(d, v) == [draft |-> d, passed |-> Count(v, "PASS"), failed |-> Count(v, "FAIL")]

\* The key of max: the share of requirements passed, then the fewest failures.
Beats(b, c) == b.passed > c.passed \/ (b.passed = c.passed /\ b.failed < c.failed)

\* max keeps the first of the best.
Champion(branches) ==
  branches[Min({i \in DOMAIN branches : \A j \in DOMAIN branches : ~Beats(branches[j], branches[i])})]

\* prune_candidate_branches: champion among all, the pruned ones included.
Prune(reqs, drafts) ==
  /\ drafts # <<>> /\ EnsureBuiltins
  /\ \E vs \in [DOMAIN drafts -> UNION {Verdicts(verifiers', reqs, drafts[i]) : i \in DOMAIN drafts}] :
       /\ \A i \in DOMAIN drafts : vs[i] \in Verdicts(verifiers', reqs, drafts[i])
       /\ LET branches == [i \in DOMAIN drafts |-> Branch(drafts[i], vs[i])]
          IN card' = [what |-> "ranking", reqs |-> reqs, branches |-> branches,
                      champion |-> Champion(branches)]

VerdictNext ==
  \/ \E file \in PluginFiles : LoadPlugin(file)
  \/ \E reqs \in RequirementLists :
       \/ \E d \in Candidates : Receipt(reqs, d) \/ Simulate(reqs, d)
       \/ \E drafts \in CandidateLists : Prune(reqs, drafts)

VerdictSpec == VerdictInit /\ [][VerdictNext]_verdictVars
-----------------------------------------------------------------------------
\* Every kind is mapped to a name that is registered.
VerdictTypeOK ==
  /\ \A n \in DOMAIN verifiers : verifiers[n] \in {"builtin", "plugin"}
  /\ \A k \in DOMAIN kind_mapping : kind_mapping[k] \in DOMAIN verifiers
  /\ builtins_loaded => RequirementKinds \subseteq DOMAIN kind_mapping
  /\ builtins_loaded \in BOOLEAN /\ card.what \in {"none", "receipt", "simulation", "ranking"}

Complies(d, reqs) ==
  \A i \in DOMAIN reqs :
    CASE reqs[i].kind = "required_content" -> reqs[i].value \in d.terms
      [] reqs[i].kind = "forbidden_content" -> reqs[i].value \notin d.terms
      [] reqs[i].kind = "allowed_files" -> d.diff => ~d.strays
      [] OTHER -> reqs[i].value = "pytest"

\* Whatever plugins were loaded before and under whatever names, a draft is called
\* acceptable or safe only if the built-in checks hold of it: every required term,
\* no forbidden one, no file outside the scope, and, for an agent called safe, code
\* that parses and guards its boundaries; and where some candidate passes every
\* requirement, so does the champion, and it complies likewise. Otherwise the
\* champion may be a pruned branch although others survived (_ensure_builtins,
\* format_verification_receipt, run_simulation, prune_candidate_branches).
AcceptedDraftsComply ==
  /\ card.what \in {"receipt", "simulation"} /\ card.accepted => Complies(card.draft, card.reqs)
  /\ card.what = "simulation" /\ card.accepted => card.draft.parses /\ card.draft.guarded
  /\ card.what = "ranking" /\ (\E i \in DOMAIN card.branches : card.branches[i].passed = Len(card.reqs)) =>
       card.champion.passed = Len(card.reqs) /\ Complies(card.champion.draft, card.reqs)
=============================================================================
