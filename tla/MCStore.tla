------------------------------- MODULE MCStore -------------------------------
(***************************************************************************)
(* The store side by side: its opening and migration, its recordings, its  *)
(* memory items, the steps of a run, and its synchronisation with the hub. *)
(* They share no variable of the models (a recording needs an opened       *)
(* store; items, records and steps are different tables), so `part` says   *)
(* which of them moves; the others stay in an initial state.               *)
(***************************************************************************)
EXTENDS StoreOpening, StoreWrites, QuarantinedMemory, WorkflowSteps, TeamSync, LearningLoop,
        MistakeRecall, TLC

CONSTANTS
  p1, p2,          \* processes
  m1, m2, d1, r1,  \* two mistakes that are near-duplicates, a decision, a workflow run
  a, b, r,         \* two local items of the same words, one pulled from the hub
  b1,              \* the brain of both processes
  x1, x2, x3,      \* mistakes; the first and the last have one root cause
  ok1, poor        \* contents: one that the hub's heuristics let pass, one they do not

KindDef == (m1 :> "mistake") @@ (m2 :> "mistake") @@ (d1 :> "decision") @@ (r1 :> "run")
TwinsDef == {{m1, m2}}

SameWordsDef == {{a, b}}
SomeGrade(low, unsure, sensitive) == [low |-> low, unsure |-> unsure, sensitive |-> sensitive]
GradesDef == {SomeGrade(FALSE, FALSE, FALSE), SomeGrade(FALSE, TRUE, FALSE), SomeGrade(FALSE, FALSE, TRUE)}

AllTools == {"elite_verify", "workflow_update_step"}
SomeStatuses == {"passed", "failed"}

SameBrain == [w \in Windows |-> b1]
SomeDirections == {"push", "bidirectional"}

SomePastScores == {<<9, 9, 1>>}
SomePastPrompts ==
  {<<"loop", "substantive", "substantive", "gap", "loop">>,
   <<"loop", "gap", "depth", "loop", "substantive", "substantive", "substantive">>}

SomeMistakeWords == (x1 :> {"a", "b"}) @@ (x2 :> {"a"}) @@ (x3 :> {"a", "b"})
SomeCauses == (x1 :> 1) @@ (x2 :> 2) @@ (x3 :> 1)
SomeWeights == {<<15, 7>>, <<10, 10>>, <<7, 15>>}
SomePastEvents == {<<>>, [i \in 1 .. 3 |-> [shown |-> {x1}, outcome |-> "unknown"]]}

VARIABLE part

StoreInit ==
  /\ part \in {"opening", "writes", "memory", "steps", "sync", "loop", "recall"}
  /\ part # "opening" => files = <<>> /\ path = 0
  /\ OpenInit /\ WriteInit /\ MemInit /\ StepsInit /\ SyncInit
  /\ part # "loop" => prompts = CHOOSE s \in PastPrompts : TRUE
  /\ LoopInit
  /\ part # "recall" => events = <<>>
  /\ RecallInit

StoreNext ==
  \/ part = "opening" /\ OpenNext /\ UNCHANGED <<part, writeVars, memVars, stepsVars, syncVars, loopVars, recallVars>>
  \/ part = "writes" /\ WriteNext /\ UNCHANGED <<part, openVars, memVars, stepsVars, syncVars, loopVars, recallVars>>
  \/ part = "memory" /\ MemNext /\ UNCHANGED <<part, openVars, writeVars, stepsVars, syncVars, loopVars, recallVars>>
  \/ part = "steps" /\ StepsNext /\ UNCHANGED <<part, openVars, writeVars, memVars, syncVars, loopVars, recallVars>>
  \/ part = "sync" /\ SyncNext /\ UNCHANGED <<part, openVars, writeVars, memVars, stepsVars, loopVars, recallVars>>
  \/ part = "loop" /\ LoopNext /\ UNCHANGED <<part, openVars, writeVars, memVars, stepsVars, syncVars, recallVars>>
  \/ part = "recall" /\ RecallNext /\ UNCHANGED <<part, openVars, writeVars, memVars, stepsVars, syncVars, loopVars>>

storeVars == <<part, openVars, writeVars, memVars, stepsVars, syncVars, loopVars, recallVars>>
StoreSpec == StoreInit /\ [][StoreNext]_storeVars

\* Every variable of the part that moves keeps its type; the others keep their value.
StoreTypeOK ==
  CASE part = "opening" -> OpenTypeOK [] part = "writes" -> WriteTypeOK
    [] part = "memory" -> MemTypeOK [] part = "steps" -> StepsTypeOK
    [] part = "sync" -> SyncTypeOK [] part = "loop" -> LoopTypeOK
    [] part = "recall" -> RecallTypeOK

ProcessSymmetry == Permutations({p1, p2})
=============================================================================
