--------------------------- MODULE MCEvidenceGate ---------------------------
(* Instances of EvidenceGate and CompliantHost for TLC. *)
EXTENDS CompliantHost, TLC

CONSTANTS
  good, broken,  \* a tree that passes its tests, one that fails them
  s1, s2         \* sessions

Request(check, root) ==
  [check |-> check, root |-> root, valid |-> TRUE, policy |-> "contract",
   missing |-> {}]

\* What a host that follows the directive asks for.
CompliantRequests == {Request(c, TRUE) : c \in Checks}

\* And what a sloppy one does: it leaves out the project_root, widens the
\* allowed files, or drafts an answer without the test log.
SloppyRequests ==
  CompliantRequests \cup
  {Request("syntax", FALSE),
   Request("outcomes", FALSE),
   [Request("diff", TRUE) EXCEPT !.policy = "other"],
   [Request("outcomes", TRUE) EXCEPT !.missing = {"run_tests"}]}

FullContract == [kinds |-> {"run_tests", "scope_files"}, code_deliverable |-> TRUE]
TestsContract == [kinds |-> {"run_tests"}, code_deliverable |-> TRUE]
PatchContract == [kinds |-> {}, code_deliverable |-> TRUE]
ProseContract == [kinds |-> {}, code_deliverable |-> FALSE]

FullOnly == {FullContract}
TestsOnly == {TestsContract}
PatchOnly == {PatchContract}
FullOrPatch == {FullContract, PatchContract}
AnyContract == {FullContract, TestsContract, PatchContract, ProseContract}

OneRowEach == [c \in Checks |-> 1]
TwoRowsEach == [c \in Checks |-> 2]
ManyRows == [c \in Checks |-> 6]

SessionSymmetry == Permutations(Sessions)
=============================================================================
