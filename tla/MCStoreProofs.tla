----------------------------- MODULE MCStoreProofs -----------------------------
(***************************************************************************)
(* The parts of the store side by side. Whatever part of MCStore moves, it *)
(* moves as its module says, so that each theorem about the module is one  *)
(* about the product, and the types are right in all of it.                *)
(***************************************************************************)
EXTENDS MCStore, StoreProofs, TeamSyncProofs, LearningProofs, JudgementsProofs

\* Every behaviour of the store is one of the module that models the part that
\* moves (persistent_store.py, database.py, sync_server.py: tables of their own).
THEOREM StorePartsBehave ==
  StoreSpec =>
    \/ [](part = "opening") /\ OpenSpec
    \/ [](part = "writes") /\ WriteSpec
    \/ [](part = "memory") /\ MemSpec
    \/ [](part = "steps") /\ StepsSpec
    \/ [](part = "sync") /\ SyncSpec
    \/ [](part = "loop") /\ LoopSpec
    \/ [](part = "recall") /\ RecallSpec
<1>1. StoreInit =>
        \/ part = "opening" /\ OpenInit
        \/ part = "writes" /\ WriteInit
        \/ part = "memory" /\ MemInit
        \/ part = "steps" /\ StepsInit
        \/ part = "sync" /\ SyncInit
        \/ part = "loop" /\ LoopInit
        \/ part = "recall" /\ RecallInit
  BY DEF StoreInit
<1>2. part = "opening" /\ [StoreNext]_storeVars => [OpenNext]_openVars /\ (part = "opening")'
  BY DEF StoreNext, storeVars
<1>3. part = "writes" /\ [StoreNext]_storeVars => [WriteNext]_writeVars /\ (part = "writes")'
  BY DEF StoreNext, storeVars
<1>4. part = "memory" /\ [StoreNext]_storeVars => [MemNext]_memVars /\ (part = "memory")'
  BY DEF StoreNext, storeVars
<1>5. part = "steps" /\ [StoreNext]_storeVars => [StepsNext]_stepsVars /\ (part = "steps")'
  BY DEF StoreNext, storeVars
<1>6. part = "sync" /\ [StoreNext]_storeVars => [SyncNext]_syncVars /\ (part = "sync")'
  BY DEF StoreNext, storeVars
<1>7. part = "loop" /\ [StoreNext]_storeVars => [LoopNext]_loopVars /\ (part = "loop")'
  BY DEF StoreNext, storeVars
<1>8. part = "recall" /\ [StoreNext]_storeVars => [RecallNext]_recallVars /\ (part = "recall")'
  BY DEF StoreNext, storeVars
<1> QED
  BY <1>1, <1>2, <1>3, <1>4, <1>5, <1>6, <1>7, <1>8, PTL
     DEF StoreSpec, OpenSpec, WriteSpec, MemSpec, StepsSpec, SyncSpec, LoopSpec, RecallSpec

\* Whatever part of the store moves, its variables keep their types
\* (persistent_store.py, database.py, sync_server.py).
THEOREM StoreTypeCorrect == StoreSpec => []StoreTypeOK
<1>1. part = "opening" /\ OpenTypeOK => StoreTypeOK
  BY DEF StoreTypeOK
<1>2. part = "writes" /\ WriteTypeOK => StoreTypeOK
  BY DEF StoreTypeOK
<1>3. part = "memory" /\ MemTypeOK => StoreTypeOK
  BY DEF StoreTypeOK
<1>4. part = "steps" /\ StepsTypeOK => StoreTypeOK
  BY DEF StoreTypeOK
<1>5. part = "sync" /\ SyncTypeOK => StoreTypeOK
  BY DEF StoreTypeOK
<1>6. part = "loop" /\ LoopTypeOK => StoreTypeOK
  BY DEF StoreTypeOK
<1>7. part = "recall" /\ RecallTypeOK => StoreTypeOK
  BY DEF StoreTypeOK
<1> QED
  BY <1>1, <1>2, <1>3, <1>4, <1>5, <1>6, <1>7, StorePartsBehave, OpenTypeCorrect,
     WritesTypeCorrect, MemoryTypeCorrect, StepsTypeCorrect, SyncTypeCorrect, LoopTypeCorrect,
     RecallTypeCorrect, PTL
================================================================================
