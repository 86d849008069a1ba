------------------------------- MODULE TeamSync -------------------------------
(***************************************************************************)
(* Team memory: brains (the local stores of the users) exchange records    *)
(* with one sync hub. sync_team_memory pulls the hub's new rows into the   *)
(* quarantine of the brain, pushes the brain's new rows to the hub, and    *)
(* advances a cursor file with second precision. The hub drops content it  *)
(* has seen, and asks a quality gate about the rest.                       *)
(*                                                                         *)
(* Windows are server processes; several may serve one brain. A call is    *)
(* split at its HTTP requests and at its writes; the hub's push handler at *)
(* every item and, when an external judge is asked, at the await. A client *)
(* that gives up does not stop the handler it started.                     *)
(***************************************************************************)
EXTENDS Naturals, Sequences, FiniteSets, SequencesExt

CONSTANTS
  Brains,        \* local stores
  Windows,       \* server processes
  Brain,         \* the brain each window serves
  Contents,         \* contents of records: equal content hash, equal item
  Good,          \* items that the heuristics of the quality gate let pass
  Directions,    \* directions users ask for
  Events,        \* which of "judge", "abort", "give_up" happen
  Delay,         \* seconds between the stamp of a row and its commit
  PayloadLimit,  \* max_length=50 of a push payload
  QueryLimit,    \* limit=200 of the row queries
  MaxTime,       \* bound: seconds
  MaxPushes      \* bound: push requests that reach the hub's handler

ASSUME BrainAssumption == Brain \in [Windows -> Brains]
ASSUME GoodAssumption == Good \subseteq Contents
ASSUME LimitsAssumption ==
  /\ PayloadLimit \in Nat /\ QueryLimit \in Nat /\ PayloadLimit < QueryLimit
  /\ Delay \in Nat /\ MaxTime \in Nat \ {0} /\ MaxPushes \in Nat
ASSUME DirectionsAssumption == Directions \subseteq {"pull", "push", "bidirectional"}

VARIABLES
  clock,       \* the second it is, for brains and hub alike
  local,       \* rows each brain has recorded itself
  quarantine,  \* hub rows each brain keeps as unreviewed memory items
  cursor,      \* sync_cursor.json of each brain; 0 stands for None
  syncCall,        \* the sync_team_memory call of each window
  hub,         \* rows of the hub, oldest first
  push_hashes, \* contents the hub remembers
  handlers,    \* push requests the hub has received
  raced        \* history: items judged twice at once, or stored without hash

store == <<local, quarantine, cursor>>
server == <<hub, push_hashes, handlers, raced>>
syncVars == <<clock, store, syncCall, server>>

Time == 0..MaxTime
HubRow == [item : Contents, at : Time]
Cursor == [pulled : Time, pushed : Time]
Pulls(direction) == direction \in {"pull", "bidirectional"}
Pushes(direction) == direction \in {"push", "bidirectional"}

\* The hub holds the item. Two users' copies differ in the contributor tag
\* only, which is not part of the content hash.
InHub(i) == \E n \in DOMAIN hub : hub[n].item = i

\* WHERE created_at > since ORDER BY created_at DESC LIMIT QueryLimit, as a
\* set; rows of one second come in any order.
NewestSince(rows, since) ==
  LET recent == {r \in rows : r.at > since}
  IN IF Cardinality(recent) <= QueryLimit THEN {recent}
     ELSE {T \in SUBSET recent :
             /\ Cardinality(T) = QueryLimit
             /\ \A r \in T, o \in recent \ T : r.at >= o.at}

\* A row is stamped when its INSERT is prepared and seen when it is committed;
\* the stamp of a row committed now, prepared since the given second.
Stamps(since) == {t \in Time \ {0} : since <= t /\ t <= clock /\ clock <= t + Delay}

NoSyncCall == [pc |-> "idle", direction |-> "pull", read |-> [pulled |-> 0, pushed |-> 0],
           next |-> [pulled |-> 0, pushed |-> 0], op |-> 0, rows |-> {}, handler |-> 0]

\* A push request: items not yet treated, whether one was rejected, the item
\* whose verdict is awaited, the second since which the handler works on the
\* next item, and whether it still runs.
ClosedRequest == [left |-> {}, rejected |-> FALSE, judging |-> {}, since |-> 0, open |-> FALSE]

Received(items) ==
  [left |-> items, rejected |-> FALSE, judging |-> {}, since |-> clock, open |-> TRUE]

-----------------------------------------------------------------------------
SyncInit ==
  /\ clock = 1
  /\ local = [b \in Brains |-> {}]
  /\ quarantine = [b \in Brains |-> {}]
  /\ cursor = [b \in Brains |-> [pulled |-> 0, pushed |-> 0]]
  /\ syncCall = [w \in Windows |-> NoSyncCall]
  /\ hub = <<>> /\ push_hashes = {} /\ handlers = <<>> /\ raced = {}

Tick ==
  /\ clock < MaxTime /\ clock' = clock + 1
  /\ UNCHANGED <<store, syncCall, server>>

\* record_mistake or record_decision in some window of the brain; here a brain
\* records each content once.
RecordLocal(b, i) ==
  /\ \A r \in local[b] : r.item # i
  /\ \E t \in Stamps(0) : local' = [local EXCEPT ![b] = @ \cup {[item |-> i, at |-> t]}]
  /\ UNCHANGED <<clock, quarantine, cursor, syncCall, server>>

-----------------------------------------------------------------------------
(* sync_team_memory.                                                       *)

SyncGoto(w, label) == syncCall' = [syncCall EXCEPT ![w].pc = label]

\* Slip, for mutation: the cursor is the time of the operation, no overlap.
StartWithoutOverlap(w, direction) ==
  /\ syncCall[w].pc = "idle"
  /\ syncCall' = [syncCall EXCEPT ![w] =
       [NoSyncCall EXCEPT !.pc = IF Pulls(direction) THEN "pull" ELSE "push",
                      !.direction = direction, !.op = clock,
                      !.read = cursor[Brain[w]], !.next = cursor[Brain[w]]]]
  /\ UNCHANGED <<clock, store, server>>

\* The cursor file is read, and the time noted before the first request,
\* one second early.
Start(w, direction) ==
  /\ syncCall[w].pc = "idle"
  /\ syncCall' = [syncCall EXCEPT ![w] =
       [NoSyncCall EXCEPT !.pc = IF Pulls(direction) THEN "pull" ELSE "push",
                      !.direction = direction, !.op = clock - 1,
                      !.read = cursor[Brain[w]], !.next = cursor[Brain[w]]]]
  /\ UNCHANGED <<clock, store, server>>

\* The hub answers GET /api/sync/pull from a thread of its own.
PullSync(w) ==
  /\ syncCall[w].pc = "pull"
  /\ \E rows \in NewestSince(ToSet(hub), syncCall[w].read.pulled) :
       syncCall' = [syncCall EXCEPT ![w].rows = rows, ![w].pc = "quarantine"]
  /\ UNCHANGED <<clock, store, server>>

\* One received row becomes a memory item; one already kept is updated.
Quarantine(w) ==
  /\ syncCall[w].pc = "quarantine"
  /\ \E r \in syncCall[w].rows :
       /\ quarantine' = [quarantine EXCEPT ![Brain[w]] = @ \cup {r}]
       /\ syncCall' = [syncCall EXCEPT ![w].rows = @ \ {r}]
  /\ UNCHANGED <<clock, local, cursor, server>>

PullDone(w) ==
  /\ syncCall[w].pc = "quarantine" /\ syncCall[w].rows = {}
  /\ syncCall' = [syncCall EXCEPT ![w].next.pulled = syncCall[w].op,
                          ![w].pc = IF Pushes(syncCall[w].direction) THEN "push" ELSE "write"]
  /\ UNCHANGED <<clock, store, server>>

\* POST /api/sync/push. A payload over the limit is refused (422) before the
\* handler runs; the call ends and the cursor stays.
PushSend(w) ==
  /\ syncCall[w].pc = "push" /\ Len(handlers) < MaxPushes
  /\ \E rows \in NewestSince(local[Brain[w]], syncCall[w].read.pushed) :
       IF Cardinality(rows) > PayloadLimit
       THEN syncCall' = [syncCall EXCEPT ![w] = NoSyncCall] /\ UNCHANGED handlers
       ELSE /\ handlers' = Append(handlers, Received({r.item : r \in rows}))
            /\ syncCall' = [syncCall EXCEPT ![w].handler = Len(handlers) + 1, ![w].pc = "wait"]
  /\ UNCHANGED <<clock, store, hub, push_hashes, raced>>

HubAnswered(w) ==
  LET h == handlers[syncCall[w].handler] IN h.open /\ h.left = {} /\ h.judging = {}

\* Slip, for mutation: the push cursor moves after a partial rejection too.
PushDoneAnyway(w) ==
  /\ syncCall[w].pc = "wait" /\ HubAnswered(w)
  /\ syncCall' = [syncCall EXCEPT ![w].next.pushed = syncCall[w].op, ![w].pc = "write"]
  /\ handlers' = [handlers EXCEPT ![syncCall[w].handler] = ClosedRequest]
  /\ UNCHANGED <<clock, store, hub, push_hashes, raced>>

\* The hub's answer: the push cursor moves only if nothing was rejected.
PushDone(w) ==
  /\ syncCall[w].pc = "wait" /\ HubAnswered(w)
  /\ syncCall' = [syncCall EXCEPT
       ![w].next.pushed = IF handlers[syncCall[w].handler].rejected THEN @ ELSE syncCall[w].op,
       ![w].pc = "write"]
  /\ handlers' = [handlers EXCEPT ![syncCall[w].handler] = ClosedRequest]
  /\ UNCHANGED <<clock, store, hub, push_hashes, raced>>

\* The cursor file is replaced by one rename.
WriteCursor(w) ==
  /\ syncCall[w].pc = "write"
  /\ cursor' = [cursor EXCEPT ![Brain[w]] = syncCall[w].next]
  /\ syncCall' = [syncCall EXCEPT ![w] = NoSyncCall]
  /\ UNCHANGED <<clock, local, quarantine, server>>

\* A request fails or times out, or the window is closed: nothing is undone,
\* the cursor stays, and the hub's handler goes on without a reader.
GiveUp(w) ==
  /\ syncCall[w].pc # "idle"
  /\ \/ "give_up" \in Events
     \/ syncCall[w].pc = "wait" /\ ~handlers[syncCall[w].handler].open
  /\ syncCall' = [syncCall EXCEPT ![w] = NoSyncCall]
  /\ UNCHANGED <<clock, store, server>>

-----------------------------------------------------------------------------
(* push_sync at the hub. Handlers run on one event loop and let each other *)
(* in only where they await the judge.                                     *)

\* The judge may turn down, or fail on, anything the heuristics let pass.
Accepts(i) == i \in Good
Rejects(i) == i \notin Good \/ "judge" \in Events

Store(h, i) ==
  \E t \in Stamps(handlers[h].since) : hub' = Append(hub, [item |-> i, at |-> t])

\* The handler turns to its next item.
Treated(h, i, rejected) ==
  handlers' = [handlers EXCEPT ![h].left = @ \ {i}, ![h].judging = {},
                               ![h].rejected = @ \/ rejected, ![h].since = clock]

\* What the handler does with an item after its verdict.
Decide(h, i) ==
  \/ /\ Accepts(i)
     /\ Store(h, i) /\ push_hashes' = push_hashes \cup {i}
     /\ Treated(h, i, FALSE)
  \/ /\ Rejects(i)
     /\ Treated(h, i, TRUE)
     /\ UNCHANGED <<hub, push_hashes>>

Open(h) == handlers[h].open /\ handlers[h].judging = {}

\* Content the hub has seen is skipped before the gate.
Deduplicate(h) ==
  /\ Open(h)
  /\ \E i \in handlers[h].left \cap push_hashes : Treated(h, i, FALSE)
  /\ UNCHANGED <<clock, store, syncCall, hub, push_hashes, raced>>

\* Slip, for mutation: the judge's verdict is the only gate.
EvaluateAll(h) ==
  /\ Open(h)
  /\ \E i \in handlers[h].left :
       IF "judge" \in Events /\ i \in Good
       THEN /\ handlers' = [handlers EXCEPT ![h].judging = {i}]
            /\ raced' = IF \E g \in DOMAIN handlers : i \in handlers[g].judging
                        THEN raced \cup {i} ELSE raced
            /\ UNCHANGED <<hub, push_hashes>>
       ELSE Decide(h, i) /\ UNCHANGED raced
  /\ UNCHANGED <<clock, store, syncCall>>

\* Anything else goes to the gate; only the external judge is awaited.
Evaluate(h) ==
  /\ Open(h)
  /\ \E i \in handlers[h].left \ push_hashes :
       IF "judge" \in Events /\ i \in Good
       THEN /\ handlers' = [handlers EXCEPT ![h].judging = {i}]
            /\ raced' = IF \E g \in DOMAIN handlers : i \in handlers[g].judging
                        THEN raced \cup {i} ELSE raced
            /\ UNCHANGED <<hub, push_hashes>>
       ELSE Decide(h, i) /\ UNCHANGED raced
  /\ UNCHANGED <<clock, store, syncCall>>

VerdictArrives(h) ==
  /\ handlers[h].open
  /\ \E i \in handlers[h].judging : Decide(h, i)
  /\ UNCHANGED <<clock, store, syncCall, raced>>

\* Slip, for mutation: the hash is recorded before the row.
AbortAfterHash(h) ==
  /\ "abort" \in Events /\ handlers[h].open
  /\ \E i \in handlers[h].left \ push_hashes : push_hashes' = push_hashes \cup {i}
  /\ handlers' = [handlers EXCEPT ![h] = ClosedRequest]
  /\ UNCHANGED <<clock, store, syncCall, hub, raced>>

\* The hub dies or a statement fails (500): what is stored stays. The row is
\* in the store's database and the hash in the hub's own, so the end may come
\* between the two.
Abort(h) ==
  /\ "abort" \in Events /\ handlers[h].open
  /\ \/ UNCHANGED <<hub, raced>>
     \/ \E i \in handlers[h].left :
          /\ IF handlers[h].judging = {} THEN i \notin push_hashes /\ "judge" \notin Events
             ELSE i \in handlers[h].judging
          /\ Accepts(i) /\ Store(h, i)
          /\ raced' = raced \cup {i}
  /\ handlers' = [handlers EXCEPT ![h] = ClosedRequest]
  /\ UNCHANGED <<clock, store, syncCall, push_hashes>>

-----------------------------------------------------------------------------
Sync(w) ==
  \/ \E direction \in Directions : Start(w, direction)
  \/ PullSync(w) \/ Quarantine(w) \/ PullDone(w)
  \/ PushSend(w) \/ PushDone(w) \/ WriteCursor(w) \/ GiveUp(w)

Push(h) == Deduplicate(h) \/ Evaluate(h) \/ VerdictArrives(h) \/ Abort(h)

SyncNext ==
  \/ Tick
  \/ \E b \in Brains, i \in Contents : RecordLocal(b, i)
  \/ \E w \in Windows : Sync(w)
  \/ \E h \in DOMAIN handlers : Push(h)

SyncSpec == SyncInit /\ [][SyncNext]_syncVars

-----------------------------------------------------------------------------
(* Properties. That the hub holds no two rows of one content, as comments  *)
(* say, is false in the two ways OneCopyUnlessRaced names.                 *)

Handler == [left : SUBSET Contents, rejected : BOOLEAN, judging : SUBSET Contents,
            since : Time, open : BOOLEAN]

SyncCall == [pc : {"idle", "pull", "quarantine", "push", "wait", "write"},
         direction : {"pull", "push", "bidirectional"}, read : Cursor, next : Cursor,
         op : Time, rows : SUBSET HubRow, handler : Nat]

\* Every variable has its type.
SyncTypeOK ==
  /\ clock \in Time
  /\ local \in [Brains -> SUBSET HubRow] /\ quarantine \in [Brains -> SUBSET HubRow]
  /\ cursor \in [Brains -> Cursor]
  /\ syncCall \in [Windows -> SyncCall]
  /\ hub \in Seq(HubRow) /\ push_hashes \subseteq Contents
  /\ handlers \in Seq(Handler)
  /\ raced \subseteq Contents

\* Content is skipped as a duplicate only if the hub holds it: wherever a push
\* ends, a retry is never turned away from a record that was not stored
\* (sync_server.py push_sync).
HashMeansStored == \A i \in push_hashes : InHub(i)

\* A record behind the push cursor is at the hub: whatever was rejected,
\* truncated by a query limit, timed out or repeated, and whichever window
\* wrote the cursor last, the user's records are not skipped (planning.py
\* sync_team_memory; true while no commit is delayed past a second).
PushSkipsNothing ==
  \A b \in Brains : \A r \in local[b] : r.at <= cursor[b].pushed => InHub(r.item)

\* A hub row behind the pull cursor is in the brain's quarantine, as long as
\* the hub holds no more rows than one pull returns (planning.py
\* sync_team_memory; true while no commit is delayed past a second).
PullSkipsNothing ==
  Len(hub) <= QueryLimit =>
    \A b \in Brains : \A n \in DOMAIN hub :
      hub[n].at <= cursor[b].pulled => hub[n] \in quarantine[b]

\* The hub holds one row of a content, unless two handlers awaited a verdict
\* on it at once or a handler ended between row and hash (sync_server.py
\* push_sync).
OneCopyUnlessRaced ==
  \A m, n \in DOMAIN hub : m # n /\ hub[m].item = hub[n].item => hub[n].item \in raced
=============================================================================
