----------------------------- MODULE StoreWrites -----------------------------
(***************************************************************************)
(* Writes that touch several tables of the store, by threads or processes  *)
(* that share it. record_mistake and record_workflow_run are transactions  *)
(* of ThreadLocalPool; record_decision writes its row and its graph node   *)
(* one after the other; a prospective failure is resolved by rewriting the *)
(* properties of its node from what was read before.                       *)
(*                                                                         *)
(* BEGIN IMMEDIATE takes SQLite's one write lock. A statement outside a    *)
(* transaction waits until it is free and commits by itself.               *)
(***************************************************************************)
EXTENDS Naturals, Sequences

CONSTANTS
  Writers,   \* threads of server processes, one connection each
  Records,   \* what is recorded, each once
  Kind,      \* mistake, run or decision
  Twins,     \* pairs of mistakes with embeddings closer than 0.15
  NoWriter,  \* nobody has the write lock
  MaxWrites  \* bound: calls made

ASSUME KindAssumption == Kind \in [Records -> {"mistake", "run", "decision"}]
ASSUME TwinsAssumption == \A r, s \in Records : {r, s} \in Twins => Kind[r] = "mistake"
ASSUME NoWriterAssumption == NoWriter \notin Writers
ASSUME MaxWritesAssumption == MaxWrites \in Nat

VARIABLES
  tables,    \* committed parts, <<record, part>>
  lock,      \* who is in a transaction
  work,      \* the recording each writer is at
  node,      \* a Prospective_Failure node: its state, and whose evidence it has
  judge,     \* the resolution each writer is at
  writes,    \* how many calls were made
  orphaned,  \* history: decisions whose recording was cut short
  unchecked  \* history: mistakes whose duplicate look raised the last time

writeVars == <<tables, lock, work, node, judge, writes, orphaned, unchecked>>

Parts == [mistake |-> <<"row", "vec", "node">>, run |-> <<"row", "steps">>,
          decision |-> <<"row", "vec", "node">>]
Transactional == {r \in Records : Kind[r] # "decision"}
Committed(r, part) == <<r, part>> \in tables
Similar(r) == {s \in Records : {r, s} \in Twins}

NoWork == [at |-> "idle", record |-> {}, todo |-> <<>>, buffer |-> {}]
NoVerdict == [at |-> "idle", occurred |-> FALSE, why |-> FALSE, seen |-> {}]

-----------------------------------------------------------------------------
WriteInit ==
  /\ tables = {} /\ lock = NoWriter
  /\ work = [w \in Writers |-> NoWork]
  /\ node = [state |-> "UNRESOLVED", evidence |-> NoWriter]
  /\ judge = [w \in Writers |-> NoVerdict]
  /\ writes = 0 /\ orphaned = {} /\ unchecked = {}

Idle(w) == work[w].at = "idle" /\ judge[w].at \in {"idle", "done"}
Called == writes < MaxWrites /\ writes' = writes + 1

\* No record of it is stored, and nobody is about to store one.
Unrecorded(r) == ~Committed(r, "row") /\ \A w \in Writers : work[w].record # {r}

\* Slip, for mutation: the look comes before BEGIN IMMEDIATE.
BeginRecordLate(w, r) ==
  \/ /\ Idle(w) /\ Called /\ Unrecorded(r) /\ Kind[r] # "decision"
     /\ work' = [work EXCEPT ![w] = [at |-> IF Kind[r] = "mistake" THEN "look" ELSE "write",
                                     record |-> {r}, todo |-> Parts[Kind[r]], buffer |-> {}]]
     /\ UNCHANGED <<tables, lock, node, judge, orphaned, unchecked>>
  \/ /\ work[w].at = "write" /\ lock = NoWriter /\ work[w].record = {r}
     /\ lock' = w
     /\ UNCHANGED <<tables, work, node, judge, writes, orphaned, unchecked>>

\* BEGIN IMMEDIATE, then a look for a near-identical mistake.
BeginRecord(w, r) ==
  /\ Idle(w) /\ Called /\ Unrecorded(r)
  /\ Kind[r] # "decision"
  /\ lock = NoWriter /\ lock' = w
  /\ work' = [work EXCEPT ![w] = [at |-> IF Kind[r] = "mistake" THEN "look" ELSE "write",
                                  record |-> {r}, todo |-> Parts[Kind[r]], buffer |-> {}]]
  /\ UNCHANGED <<tables, node, judge, orphaned, unchecked>>

\* The nearest neighbour by embedding; if it is close the call returns its
\* identifier. A look that raises is passed over, like one without an embedding.
Look(w) ==
  /\ work[w].at = "look"
  /\ \/ /\ \E r \in work[w].record :
             work' = [work EXCEPT ![w].at =
                        IF \E s \in Similar(r) : Committed(s, "vec") THEN "commit" ELSE "write"]
        /\ unchecked' = unchecked \ work[w].record
     \/ /\ work' = [work EXCEPT ![w].at = "write"]
        /\ unchecked' = unchecked \cup work[w].record
  /\ UNCHANGED <<tables, lock, node, judge, writes, orphaned>>

\* The next statement is done or, for an embedding, fails unnoticed.
Written(w, buffer) ==
  /\ \/ buffer = work[w].buffer \cup {<<r, Head(work[w].todo)>> : r \in work[w].record}
     \/ Head(work[w].todo) = "vec" /\ buffer = work[w].buffer
  /\ work' = [work EXCEPT ![w].buffer = buffer, ![w].todo = Tail(@),
                          ![w].at = IF Len(work[w].todo) = 1 THEN "commit" ELSE "write"]
  /\ UNCHANGED <<node, judge, writes, orphaned, unchecked>>

Buffers(w) == SUBSET (work[w].record \X {"row", "vec", "node", "steps"})

\* Slip, for mutation: add_node commits the connection it shares.
WriteRecordNodeCommits(w) ==
  /\ work[w].at = "write" /\ lock = w
  /\ \E buffer \in Buffers(w) :
       /\ Written(w, buffer)
       /\ tables' = IF Head(work[w].todo) = "row" THEN tables \cup buffer ELSE tables
  /\ UNCHANGED lock

\* A statement of a transaction; add_node is on the connection of the store and
\* leaves the commit to it.
WriteRecord(w) ==
  /\ work[w].at = "write" /\ lock = w
  /\ \E buffer \in Buffers(w) : Written(w, buffer)
  /\ UNCHANGED <<tables, lock>>

CommitRecord(w) ==
  /\ work[w].at = "commit" /\ lock = w
  /\ tables' = tables \cup work[w].buffer /\ lock' = NoWriter
  /\ work' = [work EXCEPT ![w] = NoWork]
  /\ UNCHANGED <<node, judge, writes, orphaned, unchecked>>

\* An exception in the body rolls back, and so does SQLite after a crash.
Rollback(w) ==
  /\ lock = w
  /\ lock' = NoWriter /\ work' = [work EXCEPT ![w] = NoWork]
  /\ UNCHANGED <<tables, node, judge, writes, orphaned, unchecked>>

-----------------------------------------------------------------------------
(* record_decision: the row, its embedding and its node, each committed.   *)

BeginDecision(w, r) ==
  /\ Idle(w) /\ Called /\ Unrecorded(r)
  /\ Kind[r] = "decision"
  /\ work' = [work EXCEPT ![w] = [at |-> "decide", record |-> {r},
                                  todo |-> Parts["decision"], buffer |-> {}]]
  /\ UNCHANGED <<tables, lock, node, judge, orphaned, unchecked>>

\* Slip, for mutation: the node is written first.
WriteDecisionNodeFirst(w) ==
  /\ work[w].at = "decide" /\ lock = NoWriter
  /\ LET part == [row |-> "node", vec |-> "vec", node |-> "row"][Head(work[w].todo)]
     IN tables' = tables \cup (work[w].record \X {part})
  /\ work' = [work EXCEPT ![w] = IF Len(work[w].todo) = 1 THEN NoWork
                                 ELSE [work[w] EXCEPT !.todo = Tail(@)]]
  /\ UNCHANGED <<lock, node, judge, writes, orphaned, unchecked>>

WriteDecision(w) ==
  /\ work[w].at = "decide" /\ lock = NoWriter
  /\ \/ tables' = tables \cup (work[w].record \X {Head(work[w].todo)})
     \/ Head(work[w].todo) = "vec" /\ UNCHANGED tables
  /\ work' = [work EXCEPT ![w] = IF Len(work[w].todo) = 1 THEN NoWork
                                 ELSE [work[w] EXCEPT !.todo = Tail(@)]]
  /\ UNCHANGED <<lock, node, judge, writes, orphaned, unchecked>>

\* A statement raises (the lock is held too long, the disk is full), or the
\* process ends.
CutDecision(w) ==
  /\ work[w].at = "decide"
  /\ orphaned' = orphaned \cup work[w].record
  /\ work' = [work EXCEPT ![w] = NoWork]
  /\ UNCHANGED <<tables, lock, node, judge, writes, unchecked>>

-----------------------------------------------------------------------------
(* resolve_prospective_failure: resolve_prediction reads and writes the    *)
(* node; if there is evidence, the tool reads it again and adds that.      *)

Judging(v) == judge[v].at \in {"state", "reread", "evidence"}

BeginVerdict(w, occurred, why) ==
  /\ Idle(w) /\ Called
  /\ judge' = [judge EXCEPT ![w] = [at |-> "state", occurred |-> occurred, why |-> why, seen |-> {node}]]
  /\ UNCHANGED <<tables, lock, work, node, orphaned, unchecked>>

WriteState(w) ==
  /\ judge[w].at = "state" /\ lock = NoWriter
  /\ \E seen \in judge[w].seen :
       node' = [seen EXCEPT !.state = IF judge[w].occurred THEN "TRUE" ELSE "FALSE"]
  /\ judge' = [judge EXCEPT ![w].at = IF judge[w].why THEN "reread" ELSE "done"]
  /\ UNCHANGED <<tables, lock, work, writes, orphaned, unchecked>>

\* Slip, for mutation: the properties read at first are used once more.
RereadNothing(w) ==
  /\ judge[w].at = "reread"
  /\ judge' = [judge EXCEPT ![w].at = "evidence"]
  /\ UNCHANGED <<tables, lock, work, node, writes, orphaned, unchecked>>

Reread(w) ==
  /\ judge[w].at = "reread"
  /\ judge' = [judge EXCEPT ![w].at = "evidence", ![w].seen = {node}]
  /\ UNCHANGED <<tables, lock, work, node, writes, orphaned, unchecked>>

WriteEvidence(w) ==
  /\ judge[w].at = "evidence" /\ lock = NoWriter
  /\ \E seen \in judge[w].seen : node' = [seen EXCEPT !.evidence = w]
  /\ judge' = [judge EXCEPT ![w].at = "done"]
  /\ UNCHANGED <<tables, lock, work, writes, orphaned, unchecked>>

CutVerdict(w) ==
  /\ Judging(w)
  /\ judge' = [judge EXCEPT ![w] = NoVerdict]
  /\ UNCHANGED <<tables, lock, work, node, writes, orphaned, unchecked>>

WriteNext ==
  \E w \in Writers :
    \/ \E r \in Records : BeginRecord(w, r) \/ BeginDecision(w, r)
    \/ Look(w) \/ WriteRecord(w) \/ CommitRecord(w) \/ Rollback(w)
    \/ WriteDecision(w) \/ CutDecision(w)
    \/ \E occurred, why \in BOOLEAN : BeginVerdict(w, occurred, why)
    \/ WriteState(w) \/ Reread(w) \/ WriteEvidence(w) \/ CutVerdict(w)

WriteSpec == WriteInit /\ [][WriteNext]_writeVars

-----------------------------------------------------------------------------
WriteTypeOK ==
  /\ tables \subseteq Records \X {"row", "vec", "node", "steps"}
  /\ lock \in Writers \cup {NoWriter}
  /\ work \in [Writers ->
       [at : {"idle", "look", "write", "commit", "decide"}, record : SUBSET Records,
        todo : Seq({"row", "vec", "node", "steps"}),
        buffer : SUBSET (Records \X {"row", "vec", "node", "steps"})]]
  /\ node \in [state : {"UNRESOLVED", "TRUE", "FALSE"}, evidence : Writers \cup {NoWriter}]
  /\ judge \in [Writers ->
       [at : {"idle", "state", "reread", "evidence", "done"}, occurred : BOOLEAN, why : BOOLEAN,
        seen : SUBSET [state : {"UNRESOLVED", "TRUE", "FALSE"}, evidence : Writers \cup {NoWriter}]]]
  /\ writes \in 0..MaxWrites /\ orphaned \subseteq Records /\ unchecked \subseteq Records

\* The parts a record of each kind consists of; a mistake may lack its embedding.
Shape(kind) ==
  IF kind = "run" THEN {{"row", "steps"}} ELSE {{"row", "node"}, {"row", "vec", "node"}}
Whole == INSTANCE AtomicRecords WITH
           Entries <- Transactional,
           Shapes <- [r \in Records |-> Shape(Kind[r])],
           visible <- {x \in tables : x[1] \in Transactional}

\* record_mistake and record_workflow_run (with _pool.transaction) show a
\* record whole or not at all, whatever fails or dies in the middle.
RecordsAreWhole == Whole!AtomicSpec

\* Two mistakes that the duplicate check would call one are both stored with their
\* embeddings only if the look of one of them raised, however many writers record
\* them at once (record_mistake).
NoTwins ==
  \A r, s \in Records :
    {r, s} \in Twins /\ r # s /\ Committed(r, "vec") /\ Committed(s, "vec") =>
      r \in unchecked \/ s \in unchecked

\* A decision has its row before its node, and is without the node only while
\* its recording goes on or when it was cut short (record_decision).
DecisionNodeFollows ==
  \A r \in Records \ Transactional :
    /\ Committed(r, "node") => Committed(r, "row")
    /\ Committed(r, "row") /\ ~Committed(r, "node") =>
         r \in orphaned \/ \E w \in Writers : work[w].record = {r}

\* A resolved prediction does not become unresolved again, although each
\* resolution writes properties it has read earlier (resolve_prediction).
StaysResolved ==
  [][node.state # "UNRESOLVED" => node'.state # "UNRESOLVED"]_node
=============================================================================
