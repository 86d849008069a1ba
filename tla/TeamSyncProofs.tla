---------------------------- MODULE TeamSyncProofs ----------------------------
(***************************************************************************)
(* Theorems about TeamSync, for any number of brains, windows, records and *)
(* requests. Each layer of the invariant rests on the ones before it: the  *)
(* types, what the hub remembers, which copies it holds, and what lies     *)
(* behind the two cursors.                                                 *)
(***************************************************************************)
EXTENDS TeamSync, SequenceTheorems, FiniteSetTheorems, TLAPS

\* A call that waits for an answer waits for a request the hub has received.
WaitsForOne == \A w \in Windows : syncCall[w].pc = "wait" => syncCall[w].handler \in DOMAIN handlers

Typed == SyncTypeOK /\ clock >= 1 /\ WaitsForOne

-----------------------------------------------------------------------------
(* Types.                                                                  *)

LEMMA StartTypes ==
  /\ NoSyncCall \in SyncCall /\ NoSyncCall.pc = "idle" /\ NoSyncCall.op = 0
  /\ NoSyncCall.read = [pulled |-> 0, pushed |-> 0] /\ NoSyncCall.next = [pulled |-> 0, pushed |-> 0]
  /\ ClosedRequest \in Handler /\ ~ClosedRequest.open /\ ClosedRequest.judging = {}
  /\ [pulled |-> 0, pushed |-> 0] \in Cursor
<1>1. 0 \in Time
  BY LimitsAssumption DEF Time
<1>2. [pulled |-> 0, pushed |-> 0] \in Cursor
  BY <1>1 DEF Cursor
<1>3. NoSyncCall \in SyncCall
  BY <1>1, <1>2 DEF NoSyncCall, SyncCall
<1>4. ClosedRequest \in Handler
  BY <1>1 DEF ClosedRequest, Handler
<1> QED BY <1>2, <1>3, <1>4 DEF NoSyncCall, ClosedRequest

LEMMA ReceivedType ==
  ASSUME clock \in Time, NEW items \in SUBSET Contents
  PROVE  /\ Received(items) \in Handler /\ Received(items).left = items /\ Received(items).judging = {}
         /\ Received(items).open
  BY DEF Received, Handler

LEMMA ChangeHandler ==
  ASSUME NEW hs \in Seq(Handler), NEW h \in DOMAIN hs, NEW x \in Handler
  PROVE  LET t == [hs EXCEPT ![h] = x]
         IN /\ t \in Seq(Handler) /\ DOMAIN t = DOMAIN hs
            /\ t[h] = x /\ \A g \in DOMAIN hs : g # h => t[g] = hs[g]
<1>1. h \in 1 .. Len(hs) /\ DOMAIN hs = 1 .. Len(hs)
  BY LenProperties
<1> QED BY <1>1, ExceptSeq

LEMMA AppendHandler ==
  ASSUME NEW S, NEW hs \in Seq(S), NEW x \in S
  PROVE  LET t == Append(hs, x)
         IN /\ t \in Seq(S) /\ Len(t) = Len(hs) + 1 /\ Len(hs) + 1 \in DOMAIN t /\ DOMAIN hs \subseteq DOMAIN t
            /\ DOMAIN t = DOMAIN hs \cup {Len(hs) + 1} /\ Len(hs) + 1 \notin DOMAIN hs
            /\ t[Len(hs) + 1] = x /\ \A g \in DOMAIN hs : t[g] = hs[g]
<1>1. Len(hs) \in Nat /\ DOMAIN hs = 1 .. Len(hs)
  BY LenProperties
<1>2. /\ Append(hs, x) \in Seq(S) /\ Len(Append(hs, x)) = Len(hs) + 1
      /\ \A i \in 1 .. Len(hs) : Append(hs, x)[i] = hs[i]
      /\ Append(hs, x)[Len(hs) + 1] = x
  BY <1>1, AppendProperties
<1>3. DOMAIN Append(hs, x) = 1 .. Len(hs) + 1
  BY <1>2, LenProperties
<1> QED BY <1>1, <1>2, <1>3

\* The record of a call changes, and that of no other window.
CallBecomes(w, new) == new \in SyncCall /\ syncCall' = [syncCall EXCEPT ![w] = new]

LEMMA CallChanges ==
  ASSUME syncCall \in [Windows -> SyncCall], NEW w \in Windows, NEW new, CallBecomes(w, new)
  PROVE  /\ syncCall' \in [Windows -> SyncCall] /\ syncCall'[w] = new
         /\ \A v \in Windows : v # w => syncCall'[v] = syncCall[v]
  BY DEF CallBecomes

LEMMA TimeNow ==
  ASSUME Typed
  PROVE  clock \in Time /\ clock - 1 \in Time /\ clock \in Nat /\ clock - 1 < clock
  BY LimitsAssumption DEF Typed, SyncTypeOK, Time

LEMMA CallTypes ==
  ASSUME Typed, NEW w \in Windows
  PROVE  /\ syncCall[w] \in SyncCall /\ Brain[w] \in Brains /\ cursor[Brain[w]] \in Cursor
         /\ syncCall[w].read \in Cursor /\ syncCall[w].next \in Cursor /\ syncCall[w].op \in Time
         /\ syncCall[w].rows \subseteq HubRow
  BY BrainAssumption DEF Typed, SyncTypeOK, SyncCall

LEMMA Fetched ==
  ASSUME NEW rows \in SUBSET HubRow, NEW since, NEW T \in NewestSince(rows, since)
  PROVE  T \subseteq HubRow
  BY DEF NewestSince

LEMMA HubRows ==
  ASSUME hub \in Seq(HubRow)
  PROVE  ToSet(hub) \subseteq HubRow
  BY LenProperties, ElementOfSeq DEF ToSet

-----------------------------------------------------------------------------
(* What each step of a call does to its record.                            *)

LEMMA StartEffect ==
  ASSUME Typed, NEW w \in Windows, NEW direction \in Directions, Start(w, direction)
  PROVE  \E new : /\ CallBecomes(w, new) /\ new.pc \in {"pull", "push"} /\ new.op = clock - 1
                  /\ new.read = cursor[Brain[w]] /\ new.next = cursor[Brain[w]]
<1>1. direction \in {"pull", "push", "bidirectional"}
  BY DirectionsAssumption
<1>2. PICK pc \in {"pull", "push"} :
        syncCall' = [syncCall EXCEPT ![w] =
          [NoSyncCall EXCEPT !.pc = pc, !.direction = direction, !.op = clock - 1,
                             !.read = cursor[Brain[w]], !.next = cursor[Brain[w]]]]
  BY DEF Start
<1>3. PICK new : new = [NoSyncCall EXCEPT !.pc = pc, !.direction = direction, !.op = clock - 1,
                                          !.read = cursor[Brain[w]], !.next = cursor[Brain[w]]]
  OBVIOUS
<1>4. cursor[Brain[w]] \in Cursor /\ clock - 1 \in Time
  BY CallTypes, TimeNow
<1>5. /\ new \in SyncCall /\ new.pc = pc /\ new.op = clock - 1
      /\ new.read = cursor[Brain[w]] /\ new.next = cursor[Brain[w]]
  BY <1>1, <1>3, <1>4, StartTypes DEF SyncCall
<1> QED BY <1>2, <1>3, <1>5 DEF CallBecomes

LEMMA PullEffect ==
  ASSUME Typed, NEW w \in Windows, PullSync(w)
  PROVE  \E new : /\ CallBecomes(w, new) /\ new.pc = "quarantine" /\ new.op = syncCall[w].op
                  /\ new.read = syncCall[w].read /\ new.next = syncCall[w].next
                  /\ new.rows \in NewestSince(ToSet(hub), syncCall[w].read.pulled)
<1>1. PICK rows \in NewestSince(ToSet(hub), syncCall[w].read.pulled) :
        syncCall' = [syncCall EXCEPT ![w].rows = rows, ![w].pc = "quarantine"]
  BY DEF PullSync
<1>2. PICK new : new = [syncCall[w] EXCEPT !.rows = rows, !.pc = "quarantine"]
  OBVIOUS
<1>3. rows \subseteq HubRow
  BY Fetched, HubRows DEF Typed, SyncTypeOK
<1>4. /\ new \in SyncCall /\ new.pc = "quarantine" /\ new.op = syncCall[w].op /\ new.rows = rows
      /\ new.read = syncCall[w].read /\ new.next = syncCall[w].next
  BY <1>2, <1>3, CallTypes DEF SyncCall
<1>5. syncCall' = [syncCall EXCEPT ![w] = new]
  BY <1>1, <1>2
<1> QED BY <1>4, <1>5 DEF CallBecomes

LEMMA QuarantineEffect ==
  ASSUME Typed, NEW w \in Windows, Quarantine(w)
  PROVE  \E new, r : /\ CallBecomes(w, new) /\ new.pc = "quarantine" /\ syncCall[w].pc = "quarantine"
                     /\ new.op = syncCall[w].op /\ new.read = syncCall[w].read /\ new.next = syncCall[w].next
                     /\ r \in syncCall[w].rows /\ new.rows = syncCall[w].rows \ {r}
                     /\ quarantine' = [quarantine EXCEPT ![Brain[w]] = @ \cup {r}]
<1>1. PICK r \in syncCall[w].rows :
        /\ quarantine' = [quarantine EXCEPT ![Brain[w]] = @ \cup {r}]
        /\ syncCall' = [syncCall EXCEPT ![w].rows = @ \ {r}]
  BY DEF Quarantine
<1>2. PICK new : new = [syncCall[w] EXCEPT !.rows = @ \ {r}]
  OBVIOUS
<1>3. /\ new \in SyncCall /\ new.pc = syncCall[w].pc /\ new.op = syncCall[w].op
      /\ new.rows = syncCall[w].rows \ {r}
      /\ new.read = syncCall[w].read /\ new.next = syncCall[w].next
  BY <1>2, CallTypes DEF SyncCall
<1>4. syncCall' = [syncCall EXCEPT ![w] = new]
  BY <1>1, <1>2
<1> QED BY <1>1, <1>3, <1>4 DEF CallBecomes, Quarantine

LEMMA PullDoneEffect ==
  ASSUME Typed, NEW w \in Windows, PullDone(w)
  PROVE  \E new : /\ CallBecomes(w, new) /\ new.pc \in {"push", "write"} /\ new.op = syncCall[w].op
                  /\ new.read = syncCall[w].read
                  /\ new.next = [syncCall[w].next EXCEPT !.pulled = syncCall[w].op]
<1>1. PICK pc \in {"push", "write"} :
        syncCall' = [syncCall EXCEPT ![w].next.pulled = syncCall[w].op, ![w].pc = pc]
  BY DEF PullDone
<1>2. PICK next : next = [syncCall[w].next EXCEPT !.pulled = syncCall[w].op]
  OBVIOUS
<1>3. next \in Cursor
  BY <1>2, CallTypes DEF Cursor
<1>4. PICK new : new = [syncCall[w] EXCEPT !.next = next, !.pc = pc]
  OBVIOUS
<1>5. /\ new \in SyncCall /\ new.pc = pc /\ new.op = syncCall[w].op
      /\ new.read = syncCall[w].read /\ new.next = next
  BY <1>3, <1>4, CallTypes DEF SyncCall
<1>6. syncCall' = [syncCall EXCEPT ![w] = new]
  BY <1>1, <1>2, <1>4
<1> QED BY <1>2, <1>5, <1>6 DEF CallBecomes

LEMMA PushSendEffect ==
  ASSUME Typed, NEW w \in Windows, PushSend(w)
  PROVE  \/ CallBecomes(w, NoSyncCall) /\ handlers' = handlers
         \/ \E new, rows :
              /\ CallBecomes(w, new) /\ new.pc = "wait" /\ new.op = syncCall[w].op
              /\ new.read = syncCall[w].read /\ new.next = syncCall[w].next
              /\ new.handler = Len(handlers) + 1
              /\ rows \in NewestSince(local[Brain[w]], syncCall[w].read.pushed) /\ rows \subseteq HubRow
              /\ ~(Cardinality(rows) > PayloadLimit)
              /\ handlers' = Append(handlers, Received({r.item : r \in rows}))
<1>1. PICK rows \in NewestSince(local[Brain[w]], syncCall[w].read.pushed) :
        IF Cardinality(rows) > PayloadLimit
        THEN syncCall' = [syncCall EXCEPT ![w] = NoSyncCall] /\ UNCHANGED handlers
        ELSE /\ handlers' = Append(handlers, Received({r.item : r \in rows}))
             /\ syncCall' = [syncCall EXCEPT ![w].handler = Len(handlers) + 1, ![w].pc = "wait"]
  BY DEF PushSend
<1>2. CASE Cardinality(rows) > PayloadLimit
  BY <1>1, <1>2, StartTypes DEF CallBecomes
<1>3. CASE ~(Cardinality(rows) > PayloadLimit)
  <2>1. PICK new : new = [syncCall[w] EXCEPT !.handler = Len(handlers) + 1, !.pc = "wait"]
    OBVIOUS
  <2>2. Len(handlers) + 1 \in Nat
    BY LenProperties DEF Typed, SyncTypeOK
  <2>3. /\ new \in SyncCall /\ new.pc = "wait" /\ new.op = syncCall[w].op
        /\ new.handler = Len(handlers) + 1
        /\ new.read = syncCall[w].read /\ new.next = syncCall[w].next
    BY <2>1, <2>2, CallTypes DEF SyncCall
  <2>4. local[Brain[w]] \subseteq HubRow
    BY CallTypes DEF Typed, SyncTypeOK
  <2>5. rows \subseteq HubRow
    BY <2>4, Fetched
  <2>6. syncCall' = [syncCall EXCEPT ![w] = new]
    BY <1>1, <1>3, <2>1
  <2> QED BY <1>1, <1>3, <2>3, <2>5, <2>6 DEF CallBecomes
<1> QED BY <1>2, <1>3

LEMMA PushDoneEffect ==
  ASSUME Typed, NEW w \in Windows, PushDone(w)
  PROVE  /\ syncCall[w].handler \in DOMAIN handlers
         /\ handlers' = [handlers EXCEPT ![syncCall[w].handler] = ClosedRequest]
         /\ \E new : /\ CallBecomes(w, new) /\ new.pc = "write" /\ new.op = syncCall[w].op
                     /\ new.read = syncCall[w].read
                     /\ \/ new.next = syncCall[w].next
                        \/ /\ new.next = [syncCall[w].next EXCEPT !.pushed = syncCall[w].op]
                           /\ ~handlers[syncCall[w].handler].rejected
<1>1. PICK second \in Time :
        /\ \/ second = syncCall[w].next.pushed
           \/ second = syncCall[w].op /\ ~handlers[syncCall[w].handler].rejected
        /\ syncCall' = [syncCall EXCEPT ![w].next.pushed = second, ![w].pc = "write"]
  <2>1. syncCall' = [syncCall EXCEPT
          ![w].next.pushed = IF handlers[syncCall[w].handler].rejected THEN syncCall[w].next.pushed
                             ELSE syncCall[w].op,
          ![w].pc = "write"]
    BY DEF PushDone
  <2>2. syncCall[w].op \in Time /\ syncCall[w].next.pushed \in Time
    BY CallTypes DEF Cursor
  <2>3. CASE handlers[syncCall[w].handler].rejected
    BY <2>1, <2>2, <2>3
  <2>4. CASE ~handlers[syncCall[w].handler].rejected
    BY <2>1, <2>2, <2>4
  <2> QED BY <2>3, <2>4
<1>2. PICK next : next = [syncCall[w].next EXCEPT !.pushed = second]
  OBVIOUS
<1>3. next \in Cursor
  BY <1>2, CallTypes DEF Cursor
<1>4. PICK new : new = [syncCall[w] EXCEPT !.next = next, !.pc = "write"]
  OBVIOUS
<1>5. /\ new \in SyncCall /\ new.pc = "write" /\ new.op = syncCall[w].op
      /\ new.read = syncCall[w].read /\ new.next = next
  BY <1>3, <1>4, CallTypes DEF SyncCall
<1>6. syncCall' = [syncCall EXCEPT ![w] = new]
  BY <1>1, <1>2, <1>4
<1>7. \/ next = syncCall[w].next
      \/ /\ next = [syncCall[w].next EXCEPT !.pushed = syncCall[w].op]
         /\ ~handlers[syncCall[w].handler].rejected
  BY <1>1, <1>2, CallTypes DEF Cursor
<1>8. syncCall[w].handler \in DOMAIN handlers
  BY DEF Typed, WaitsForOne, PushDone
<1> QED BY <1>5, <1>6, <1>7, <1>8 DEF CallBecomes, PushDone

-----------------------------------------------------------------------------
(* What each step of the hub does.                                         *)

\* The handler h of the hub goes on to a request of that content.
HandlerBecomes(h, x) ==
  h \in DOMAIN handlers /\ x \in Handler /\ handlers' = [handlers EXCEPT ![h] = x]

\* A row of content i is stored.
RowStored(i) ==
  \E row : row \in HubRow /\ row.item = i /\ hub' = Append(hub, row) /\ (Delay = 0 => row.at = clock)

LEMMA StoreEffect ==
  ASSUME Typed, NEW h \in DOMAIN handlers, NEW i \in Contents, Store(h, i)
  PROVE  RowStored(i)
<1>1. PICK t \in Stamps(handlers[h].since) : hub' = Append(hub, [item |-> i, at |-> t])
  BY DEF Store
<1>2. t \in Time /\ (Delay = 0 => t = clock)
  BY LimitsAssumption, TimeNow DEF Stamps, Time
<1>3. PICK row : row = [item |-> i, at |-> t]
  OBVIOUS
<1>4. row \in HubRow /\ row.item = i /\ row.at = t
  BY <1>2, <1>3 DEF HubRow
<1> QED BY <1>1, <1>2, <1>3, <1>4 DEF RowStored

LEMMA HandlerTypes ==
  ASSUME Typed, NEW h \in DOMAIN handlers
  PROVE  /\ handlers[h] \in Handler /\ handlers[h].left \subseteq Contents /\ handlers[h].judging \subseteq Contents
<1>1. handlers \in Seq(Handler) /\ DOMAIN handlers = 1 .. Len(handlers)
  BY LenProperties DEF Typed, SyncTypeOK
<1>2. handlers[h] \in Handler
  BY <1>1, ElementOfSeq
<1> QED BY <1>2 DEF Handler

LEMMA TreatedEffect ==
  ASSUME Typed, NEW h \in DOMAIN handlers, NEW i, NEW rejected \in BOOLEAN, Treated(h, i, rejected)
  PROVE  \E x : /\ HandlerBecomes(h, x) /\ x.left = handlers[h].left \ {i} /\ x.judging = {}
                /\ x.rejected = (handlers[h].rejected \/ rejected) /\ x.open = handlers[h].open
<1>1. PICK x : x = [handlers[h] EXCEPT !.left = @ \ {i}, !.judging = {}, !.rejected = @ \/ rejected,
                                       !.since = clock]
  OBVIOUS
<1>2. handlers[h].rejected \/ rejected \in BOOLEAN
  BY HandlerTypes DEF Handler
<1>3. /\ x \in Handler /\ x.left = handlers[h].left \ {i} /\ x.judging = {}
      /\ x.rejected = (handlers[h].rejected \/ rejected) /\ x.open = handlers[h].open
  BY <1>1, <1>2, HandlerTypes, TimeNow DEF Handler
<1>4. handlers' = [handlers EXCEPT ![h] = x]
  BY <1>1 DEF Treated
<1> QED BY <1>3, <1>4 DEF HandlerBecomes

\* The hub's step about an item: it stores the item, turns it down, or skips it.
ItemTreated(h, i) ==
  \E x : /\ HandlerBecomes(h, x) /\ x.left = handlers[h].left \ {i} /\ x.judging = {} /\ x.open = handlers[h].open
         /\ handlers[h].rejected => x.rejected
         /\ \/ RowStored(i) /\ i \in Good /\ push_hashes' = push_hashes \cup {i}
            \/ UNCHANGED <<hub, push_hashes>> /\ (x.rejected \/ i \in push_hashes)

LEMMA DecideEffect ==
  ASSUME Typed, NEW h \in DOMAIN handlers, NEW i \in Contents, Decide(h, i)
  PROVE  ItemTreated(h, i)
<1>1. CASE Accepts(i) /\ Store(h, i) /\ push_hashes' = push_hashes \cup {i} /\ Treated(h, i, FALSE)
  <2>1. PICK x : /\ HandlerBecomes(h, x) /\ x.left = handlers[h].left \ {i} /\ x.judging = {}
                 /\ x.rejected = (handlers[h].rejected \/ FALSE) /\ x.open = handlers[h].open
    BY <1>1, TreatedEffect
  <2>2. RowStored(i)
    BY <1>1, StoreEffect
  <2> QED BY <1>1, <2>1, <2>2 DEF ItemTreated, Accepts
<1>2. CASE Treated(h, i, TRUE) /\ UNCHANGED <<hub, push_hashes>>
  <2>1. PICK x : /\ HandlerBecomes(h, x) /\ x.left = handlers[h].left \ {i} /\ x.judging = {}
                 /\ x.rejected = (handlers[h].rejected \/ TRUE) /\ x.open = handlers[h].open
    BY <1>2, TreatedEffect
  <2> QED BY <1>2, <2>1 DEF ItemTreated
<1> QED BY <1>1, <1>2 DEF Decide

\* A verdict is asked for.
JudgeAsked(h, i) ==
  /\ "judge" \in Events /\ i \in handlers[h].left \ push_hashes /\ handlers[h].judging = {}
  /\ \E x : /\ HandlerBecomes(h, x) /\ x.judging = {i} /\ x.left = handlers[h].left
            /\ x.rejected = handlers[h].rejected /\ x.open = handlers[h].open
  /\ raced' = IF \E g \in DOMAIN handlers : i \in handlers[g].judging THEN raced \cup {i} ELSE raced
  /\ UNCHANGED <<hub, push_hashes>>

LEMMA EvaluateEffect ==
  ASSUME Typed, NEW h \in DOMAIN handlers, Evaluate(h)
  PROVE  \E i \in handlers[h].left \ push_hashes :
           \/ JudgeAsked(h, i)
           \/ /\ ItemTreated(h, i) /\ UNCHANGED raced
              /\ handlers[h].judging = {} /\ ~("judge" \in Events /\ i \in Good)
<1>1. PICK i \in handlers[h].left \ push_hashes :
        IF "judge" \in Events /\ i \in Good
        THEN /\ handlers' = [handlers EXCEPT ![h].judging = {i}]
             /\ raced' = IF \E g \in DOMAIN handlers : i \in handlers[g].judging
                         THEN raced \cup {i} ELSE raced
             /\ UNCHANGED <<hub, push_hashes>>
        ELSE Decide(h, i) /\ UNCHANGED raced
  BY DEF Evaluate
<1>2. i \in Contents /\ handlers[h].judging = {}
  BY HandlerTypes DEF Evaluate, Open
<1>3. CASE "judge" \in Events /\ i \in Good
  <2>1. PICK x : x = [handlers[h] EXCEPT !.judging = {i}]
    OBVIOUS
  <2>2. /\ x \in Handler /\ x.judging = {i} /\ x.left = handlers[h].left
        /\ x.rejected = handlers[h].rejected /\ x.open = handlers[h].open
    BY <1>2, <2>1, HandlerTypes DEF Handler
  <2>3. handlers' = [handlers EXCEPT ![h] = x]
    BY <1>1, <1>3, <2>1
  <2>4. \E y : /\ HandlerBecomes(h, y) /\ y.judging = {i} /\ y.left = handlers[h].left
               /\ y.rejected = handlers[h].rejected /\ y.open = handlers[h].open
    BY <2>2, <2>3 DEF HandlerBecomes
  <2> QED BY <1>1, <1>2, <1>3, <2>4 DEF JudgeAsked
<1>4. CASE ~("judge" \in Events /\ i \in Good)
  BY <1>1, <1>2, <1>4, DecideEffect
<1> QED BY <1>3, <1>4

LEMMA DeduplicateEffect ==
  ASSUME Typed, NEW h \in DOMAIN handlers, Deduplicate(h)
  PROVE  \E i \in Contents : ItemTreated(h, i) /\ UNCHANGED <<hub, push_hashes, raced>> /\ handlers[h].judging = {}
<1>1. PICK i \in Contents : i \in push_hashes /\ Treated(h, i, FALSE)
  BY HandlerTypes DEF Deduplicate
<1>2. PICK x : /\ HandlerBecomes(h, x) /\ x.left = handlers[h].left \ {i} /\ x.judging = {}
               /\ x.rejected = (handlers[h].rejected \/ FALSE) /\ x.open = handlers[h].open
  BY <1>1, TreatedEffect
<1>3. ItemTreated(h, i) /\ i \in Contents
  BY <1>1, <1>2, HandlerTypes DEF ItemTreated, Deduplicate
<1> QED BY <1>3 DEF Deduplicate, Open

LEMMA VerdictEffect ==
  ASSUME Typed, NEW h \in DOMAIN handlers, VerdictArrives(h)
  PROVE  \E i \in handlers[h].judging : ItemTreated(h, i) /\ UNCHANGED raced
<1>1. PICK i \in handlers[h].judging : Decide(h, i)
  BY DEF VerdictArrives
<1> QED BY <1>1, DecideEffect, HandlerTypes DEF VerdictArrives

LEMMA AbortEffect ==
  ASSUME Typed, NEW h \in DOMAIN handlers, Abort(h)
  PROVE  /\ HandlerBecomes(h, ClosedRequest) /\ UNCHANGED push_hashes
         /\ \/ UNCHANGED <<hub, raced>>
            \/ \E i \in Contents : RowStored(i) /\ i \in Good /\ raced' = raced \cup {i}
<1>1. \/ UNCHANGED <<hub, raced>>
      \/ \E i \in handlers[h].left : Accepts(i) /\ Store(h, i) /\ raced' = raced \cup {i}
  BY DEF Abort
<1>2. \/ UNCHANGED <<hub, raced>>
      \/ \E i \in Contents : RowStored(i) /\ i \in Good /\ raced' = raced \cup {i}
  BY <1>1, HandlerTypes, StoreEffect DEF Accepts
<1> QED BY <1>2, StartTypes DEF Abort, HandlerBecomes

-----------------------------------------------------------------------------
(* The types are kept.                                                     *)

LEMMA RowStoredTypes ==
  ASSUME Typed, NEW i, RowStored(i)
  PROVE  /\ hub' \in Seq(HubRow) /\ DOMAIN hub' = DOMAIN hub \cup {Len(hub) + 1} /\ Len(hub) + 1 \notin DOMAIN hub
         /\ Len(hub') = Len(hub) + 1
         /\ hub'[Len(hub) + 1].item = i /\ (Delay = 0 => hub'[Len(hub) + 1].at = clock)
         /\ \A n \in DOMAIN hub : hub'[n] = hub[n]
<1>1. PICK row \in HubRow : row.item = i /\ hub' = Append(hub, row) /\ (Delay = 0 => row.at = clock)
  BY DEF RowStored
<1>2. hub \in Seq(HubRow)
  BY DEF Typed, SyncTypeOK
<1> QED BY <1>1, <1>2, AppendHandler

LEMMA HandlerBecomesTypes ==
  ASSUME Typed, NEW h, NEW x, HandlerBecomes(h, x)
  PROVE  /\ handlers' \in Seq(Handler) /\ DOMAIN handlers' = DOMAIN handlers
         /\ handlers'[h] = x /\ \A g \in DOMAIN handlers : g # h => handlers'[g] = handlers[g]
  BY ChangeHandler DEF Typed, SyncTypeOK, HandlerBecomes

\* All steps of the hub in one.
HubStep(h) ==
  /\ UNCHANGED <<clock, local, quarantine, cursor, syncCall>>
  /\ \E x : HandlerBecomes(h, x)
  /\ UNCHANGED hub \/ \E i \in Contents : RowStored(i)
  /\ push_hashes' \subseteq Contents /\ raced' \subseteq Contents

LEMMA HubSteps ==
  ASSUME Typed, NEW h \in DOMAIN handlers, Push(h)
  PROVE  HubStep(h)
<1>0. UNCHANGED <<clock, local, quarantine, cursor, syncCall>>
  BY DEF Push, Deduplicate, Evaluate, VerdictArrives, Abort, store
<1>1. push_hashes \subseteq Contents /\ raced \subseteq Contents /\ handlers[h].left \subseteq Contents
      /\ handlers[h].judging \subseteq Contents
  BY HandlerTypes DEF Typed, SyncTypeOK
<1>2. ASSUME NEW i \in Contents, ItemTreated(h, i), UNCHANGED raced
      PROVE  HubStep(h)
  BY <1>0, <1>1, <1>2 DEF ItemTreated, HubStep
<1>3. CASE Deduplicate(h)
  BY <1>2, <1>3, DeduplicateEffect
<1>4. CASE Evaluate(h)
  <2>1. PICK i \in handlers[h].left \ push_hashes : JudgeAsked(h, i) \/ (ItemTreated(h, i) /\ UNCHANGED raced)
    BY <1>4, EvaluateEffect
  <2>2. CASE JudgeAsked(h, i)
    BY <1>0, <1>1, <2>1, <2>2 DEF JudgeAsked, HubStep
  <2> QED BY <1>1, <1>2, <2>1, <2>2
<1>5. CASE VerdictArrives(h)
  BY <1>1, <1>2, <1>5, VerdictEffect
<1>6. CASE Abort(h)
  BY <1>0, <1>1, <1>6, AbortEffect DEF HubStep
<1> QED BY <1>3, <1>4, <1>5, <1>6 DEF Push

LEMMA HubTyped ==
  ASSUME Typed, NEW h \in DOMAIN handlers, HubStep(h)
  PROVE  Typed'
<1>1. hub' \in Seq(HubRow)
  BY RowStoredTypes DEF HubStep, Typed, SyncTypeOK
<1>2. handlers' \in Seq(Handler) /\ DOMAIN handlers' = DOMAIN handlers
  BY HandlerBecomesTypes DEF HubStep
<1> QED BY <1>1, <1>2 DEF HubStep, Typed, SyncTypeOK, WaitsForOne

\* The steps of a call leave the hub's rows alone, and its requests at most grow
\* or are closed.
LEMMA CallTyped ==
  ASSUME Typed, NEW w \in Windows, Sync(w)
  PROVE  /\ Typed' /\ UNCHANGED <<clock, local, hub, push_hashes, raced>>
         /\ \/ handlers' = handlers
            \/ PushSend(w) /\ \E items \in SUBSET Contents : handlers' = Append(handlers, Received(items))
            \/ PushDone(w) /\ HandlerBecomes(syncCall[w].handler, ClosedRequest)
<1>0. UNCHANGED <<clock, local, hub, push_hashes, raced>>
  BY DEF Sync, Start, PullSync, Quarantine, PullDone, PushSend, PushDone, WriteCursor, GiveUp, store, server
<1>1. ASSUME NEW new, CallBecomes(w, new), new.pc # "wait", DOMAIN handlers \subseteq DOMAIN handlers',
             handlers' \in Seq(Handler),
             cursor' \in [Brains -> Cursor], quarantine' \in [Brains -> SUBSET HubRow]
      PROVE  Typed'
  BY <1>0, <1>1, CallChanges DEF Typed, SyncTypeOK, WaitsForOne
<1>2. cursor \in [Brains -> Cursor] /\ quarantine \in [Brains -> SUBSET HubRow] /\ handlers \in Seq(Handler)
  BY DEF Typed, SyncTypeOK
<1>3. CASE \E direction \in Directions : Start(w, direction)
  <2>1. UNCHANGED <<cursor, quarantine, handlers>>
    BY <1>3 DEF Start, store, server
  <2> QED BY <1>0, <1>1, <1>2, <1>3, <2>1, StartEffect
<1>4. CASE PullSync(w)
  <2>1. UNCHANGED <<cursor, quarantine, handlers>>
    BY <1>4 DEF PullSync, store, server
  <2> QED BY <1>0, <1>1, <1>2, <1>4, <2>1, PullEffect
<1>5. CASE Quarantine(w)
  <2>1. UNCHANGED <<cursor, handlers>>
    BY <1>5 DEF Quarantine, server
  <2>2. PICK new, r : /\ CallBecomes(w, new) /\ new.pc = "quarantine" /\ r \in syncCall[w].rows
                      /\ quarantine' = [quarantine EXCEPT ![Brain[w]] = @ \cup {r}]
    BY <1>5, QuarantineEffect
  <2>3. quarantine' \in [Brains -> SUBSET HubRow]
    BY <1>2, <2>2, CallTypes
  <2> QED BY <1>0, <1>1, <1>2, <2>1, <2>2, <2>3
<1>6. CASE PullDone(w)
  <2>1. UNCHANGED <<cursor, quarantine, handlers>>
    BY <1>6 DEF PullDone, store, server
  <2> QED BY <1>0, <1>1, <1>2, <1>6, <2>1, PullDoneEffect
<1>7. CASE PushSend(w)
  <2>1. UNCHANGED <<cursor, quarantine>>
    BY <1>7 DEF PushSend, store
  <2>2. CASE CallBecomes(w, NoSyncCall) /\ handlers' = handlers
    BY <1>0, <1>1, <1>2, <2>1, <2>2, StartTypes
  <2>3. ASSUME NEW new, NEW rows, CallBecomes(w, new), new.handler = Len(handlers) + 1, rows \subseteq HubRow,
               handlers' = Append(handlers, Received({r.item : r \in rows}))
        PROVE  Typed' /\ \E items \in SUBSET Contents : handlers' = Append(handlers, Received(items))
    <3>1. PICK items \in SUBSET Contents : items = {r.item : r \in rows}
      BY <2>3 DEF HubRow
    <3>2. Received(items) \in Handler /\ handlers' = Append(handlers, Received(items))
      BY <2>3, <3>1, ReceivedType, TimeNow
    <3>3. /\ handlers' \in Seq(Handler) /\ DOMAIN handlers \subseteq DOMAIN handlers'
          /\ Len(handlers) + 1 \in DOMAIN handlers'
      BY <1>2, <3>2, AppendHandler
    <3>4. SyncTypeOK'
      BY <1>0, <1>2, <2>1, <2>3, <3>3, CallChanges DEF Typed, SyncTypeOK
    <3>5. WaitsForOne'
      BY <2>3, <3>3, CallChanges DEF Typed, SyncTypeOK, WaitsForOne
    <3> QED BY <1>0, <3>2, <3>4, <3>5 DEF Typed
  <2> QED BY <1>0, <1>7, <2>2, <2>3, PushSendEffect
<1>8. CASE PushDone(w)
  <2>1. UNCHANGED <<cursor, quarantine>>
    BY <1>8 DEF PushDone, store
  <2>2. HandlerBecomes(syncCall[w].handler, ClosedRequest)
    BY <1>8, PushDoneEffect, StartTypes DEF HandlerBecomes
  <2>3. handlers' \in Seq(Handler) /\ DOMAIN handlers' = DOMAIN handlers
    BY <2>2, HandlerBecomesTypes
  <2> QED BY <1>0, <1>1, <1>2, <1>8, <2>1, <2>2, <2>3, PushDoneEffect
<1>9. CASE WriteCursor(w)
  <2>1. /\ UNCHANGED <<quarantine, handlers>> /\ cursor' = [cursor EXCEPT ![Brain[w]] = syncCall[w].next]
        /\ CallBecomes(w, NoSyncCall)
    BY <1>9, StartTypes DEF WriteCursor, server, CallBecomes
  <2>2. cursor' \in [Brains -> Cursor]
    BY <1>2, <2>1, CallTypes
  <2> QED BY <1>0, <1>1, <1>2, <2>1, <2>2, StartTypes
<1>10. CASE GiveUp(w)
  <2>1. UNCHANGED <<cursor, quarantine, handlers>> /\ CallBecomes(w, NoSyncCall)
    BY <1>10, StartTypes DEF GiveUp, store, server, CallBecomes
  <2> QED BY <1>0, <1>1, <1>2, <2>1, StartTypes
<1> QED BY <1>3, <1>4, <1>5, <1>6, <1>7, <1>8, <1>9, <1>10 DEF Sync

\* A brain records something.
LEMMA RecordLocalEffect ==
  ASSUME Typed, NEW b \in Brains, NEW i \in Contents, RecordLocal(b, i)
  PROVE  \E row \in HubRow : /\ local' = [local EXCEPT ![b] = @ \cup {row}] /\ (Delay = 0 => row.at = clock)
                             /\ UNCHANGED <<clock, quarantine, cursor, syncCall, hub, push_hashes, handlers, raced>>
<1>1. PICK t \in Stamps(0) : local' = [local EXCEPT ![b] = @ \cup {[item |-> i, at |-> t]}]
  BY DEF RecordLocal
<1>2. t \in Time /\ (Delay = 0 => t = clock)
  BY LimitsAssumption, TimeNow DEF Stamps, Time
<1>3. PICK row : row = [item |-> i, at |-> t]
  OBVIOUS
<1>4. row \in HubRow /\ row.at = t
  BY <1>2, <1>3 DEF HubRow
<1> QED BY <1>1, <1>2, <1>3, <1>4 DEF RecordLocal, server

LEMMA TickEffect ==
  ASSUME Typed, Tick
  PROVE  /\ clock' = clock + 1 /\ clock' \in Time /\ clock \in Nat
         /\ UNCHANGED <<local, quarantine, cursor, syncCall, hub, push_hashes, handlers, raced>>
<1>1. clock' = clock + 1 /\ clock < MaxTime
  BY DEF Tick
<1> QED BY <1>1, LimitsAssumption, TimeNow DEF Tick, store, server, Time

LEMMA TypedInit == SyncInit => Typed
<1> SUFFICES ASSUME SyncInit PROVE Typed
  OBVIOUS
<1>1. 1 \in Time
  BY LimitsAssumption DEF Time
<1>2. <<>> \in Seq(HubRow) /\ <<>> \in Seq(Handler)
  OBVIOUS
<1>3. syncCall \in [Windows -> SyncCall] /\ cursor \in [Brains -> Cursor]
  BY StartTypes DEF SyncInit
<1>4. \A w \in Windows : syncCall[w].pc # "wait"
  BY StartTypes DEF SyncInit
<1> QED BY <1>1, <1>2, <1>3, <1>4 DEF SyncInit, Typed, SyncTypeOK, WaitsForOne

LEMMA TypedNext == Typed /\ [SyncNext]_syncVars => Typed'
<1> SUFFICES ASSUME Typed, [SyncNext]_syncVars PROVE Typed'
  OBVIOUS
<1>1. CASE Tick
  BY <1>1, TickEffect DEF Typed, SyncTypeOK, WaitsForOne
<1>2. ASSUME NEW b \in Brains, NEW i \in Contents, RecordLocal(b, i)
      PROVE  Typed'
  <2>1. PICK row \in HubRow :
          /\ local' = [local EXCEPT ![b] = @ \cup {row}]
          /\ UNCHANGED <<clock, quarantine, cursor, syncCall, hub, push_hashes, handlers, raced>>
    BY <1>2, RecordLocalEffect
  <2>2. local' \in [Brains -> SUBSET HubRow]
    BY <2>1 DEF Typed, SyncTypeOK
  <2> QED BY <2>1, <2>2 DEF Typed, SyncTypeOK, WaitsForOne
<1>3. ASSUME NEW w \in Windows, Sync(w)
      PROVE  Typed'
  BY <1>3, CallTyped
<1>4. ASSUME NEW h \in DOMAIN handlers, Push(h)
      PROVE  Typed'
  BY <1>4, HubSteps, HubTyped
<1>5. CASE UNCHANGED syncVars
  BY <1>5 DEF syncVars, store, server, Typed, SyncTypeOK, WaitsForOne
<1> QED BY <1>1, <1>2, <1>3, <1>4, <1>5 DEF SyncNext

\* The variables of TeamSync keep their types, for any number of brains, windows
\* and requests.
THEOREM SyncTypeCorrect == SyncSpec => []SyncTypeOK
<1>1. Typed => SyncTypeOK
  BY DEF Typed
<1> QED BY <1>1, TypedInit, TypedNext, PTL DEF SyncSpec

-----------------------------------------------------------------------------
(* What the hub remembers, and which copies it holds.                      *)

\* A row's content is remembered, unless the hub ended between row and hash.
RowsRemembered == \A n \in DOMAIN hub : hub[n].item \in push_hashes \cup raced

\* A verdict is awaited on what the hub does not hold, and by one handler.
AwaitedIsNew ==
  \A h \in DOMAIN handlers : \A i \in handlers[h].judging : "judge" \in Events /\ (InHub(i) => i \in raced)
AwaitedOnce ==
  \A g, h \in DOMAIN handlers : g # h => handlers[g].judging \cap handlers[h].judging \subseteq raced

Remembers == HashMeansStored /\ RowsRemembered /\ AwaitedIsNew /\ AwaitedOnce /\ OneCopyUnlessRaced

LEMMA HubGrows ==
  ASSUME Typed, NEW i, RowStored(i)
  PROVE  \A j : InHub(j)' <=> InHub(j) \/ j = i
  BY RowStoredTypes DEF InHub

\* Steps that leave the hub's rows alone and await nothing new.
LEMMA QuietRemembers ==
  ASSUME Remembers, UNCHANGED <<hub, push_hashes, raced>>,
         \A g \in DOMAIN handlers' : \/ handlers'[g].judging = {}
                                     \/ g \in DOMAIN handlers /\ handlers'[g].judging = handlers[g].judging
  PROVE  Remembers'
<1>1. HashMeansStored' /\ RowsRemembered' /\ OneCopyUnlessRaced'
  BY DEF Remembers, HashMeansStored, RowsRemembered, OneCopyUnlessRaced, InHub
<1>2. AwaitedIsNew'
  BY DEF Remembers, AwaitedIsNew, InHub
<1>3. AwaitedOnce'
  BY DEF Remembers, AwaitedOnce
<1> QED BY <1>1, <1>2, <1>3 DEF Remembers

\* A row of content i comes in, of which the hub has no other, or else the
\* content is among the raced ones.
LEMMA RowComes ==
  ASSUME Typed, Remembers, NEW h, NEW x, HandlerBecomes(h, x), x.judging = {},
         NEW i, RowStored(i), raced \subseteq raced', push_hashes \subseteq push_hashes',
         push_hashes' \subseteq push_hashes \cup {i}, i \in push_hashes' \cup raced',
         InHub(i) => i \in raced',
         \A g \in DOMAIN handlers : g # h /\ i \in handlers[g].judging => i \in raced'
  PROVE  Remembers'
<1>1. /\ DOMAIN handlers' = DOMAIN handlers /\ handlers'[h].judging = {}
      /\ \A g \in DOMAIN handlers : g # h => handlers'[g].judging = handlers[g].judging
  BY HandlerBecomesTypes
<1>2. \A j : InHub(j)' <=> InHub(j) \/ j = i
  BY HubGrows
<1>3. /\ DOMAIN hub' = DOMAIN hub \cup {Len(hub) + 1} /\ Len(hub) + 1 \notin DOMAIN hub
      /\ hub'[Len(hub) + 1].item = i /\ \A n \in DOMAIN hub : hub'[n] = hub[n]
  BY RowStoredTypes
<1>4. HashMeansStored'
  <2>1. \A j \in push_hashes' : InHub(j) \/ j = i
    BY DEF Remembers, HashMeansStored
  <2> QED BY <1>2, <2>1 DEF HashMeansStored
<1>5. RowsRemembered'
  BY <1>3 DEF Remembers, RowsRemembered
<1>6. AwaitedIsNew'
  <2> SUFFICES ASSUME NEW g \in DOMAIN handlers, NEW j \in handlers'[g].judging
               PROVE  "judge" \in Events /\ (InHub(j)' => j \in raced')
    BY <1>1 DEF AwaitedIsNew
  <2>1. g # h /\ j \in handlers[g].judging
    BY <1>1
  <2> QED BY <1>2, <2>1 DEF Remembers, AwaitedIsNew
<1>7. AwaitedOnce'
  <2> SUFFICES ASSUME NEW f \in DOMAIN handlers, NEW g \in DOMAIN handlers, f # g
               PROVE  handlers'[f].judging \cap handlers'[g].judging \subseteq raced'
    BY <1>1 DEF AwaitedOnce
  <2>1. CASE f = h \/ g = h
    BY <1>1, <2>1
  <2>2. CASE f # h /\ g # h
    BY <1>1, <2>2 DEF Remembers, AwaitedOnce
  <2> QED BY <2>1, <2>2
<1>8. OneCopyUnlessRaced'
  <2> SUFFICES ASSUME NEW m \in DOMAIN hub', NEW n \in DOMAIN hub', m # n, hub'[m].item = hub'[n].item
               PROVE  hub'[n].item \in raced'
    BY DEF OneCopyUnlessRaced
  <2>1. CASE m \in DOMAIN hub /\ n \in DOMAIN hub
    BY <1>3, <2>1 DEF Remembers, OneCopyUnlessRaced
  <2>2. CASE m = Len(hub) + 1 /\ n \in DOMAIN hub
    BY <1>3, <2>2 DEF InHub
  <2>3. CASE n = Len(hub) + 1 /\ m \in DOMAIN hub
    BY <1>3, <2>3 DEF InHub
  <2> QED BY <1>3, <2>1, <2>2, <2>3
<1> QED BY <1>4, <1>5, <1>6, <1>7, <1>8 DEF Remembers

LEMMA HubRemembers ==
  ASSUME Typed, Remembers, NEW h \in DOMAIN handlers, Push(h)
  PROVE  Remembers'
<1>1. ASSUME NEW i, ItemTreated(h, i), UNCHANGED raced,
             RowStored(i) /\ i \in Good => /\ InHub(i) => i \in raced
                             /\ \A g \in DOMAIN handlers : g # h /\ i \in handlers[g].judging => i \in raced
      PROVE  Remembers'
  <2>1. PICK x : /\ HandlerBecomes(h, x) /\ x.judging = {}
                 /\ \/ RowStored(i) /\ i \in Good /\ push_hashes' = push_hashes \cup {i}
                    \/ UNCHANGED <<hub, push_hashes>>
    BY <1>1 DEF ItemTreated
  <2>2. CASE UNCHANGED <<hub, push_hashes>>
    <3>1. \A g \in DOMAIN handlers' : \/ handlers'[g].judging = {}
                                      \/ g \in DOMAIN handlers /\ handlers'[g].judging = handlers[g].judging
      BY <2>1, HandlerBecomesTypes
    <3> QED BY <1>1, <2>2, <3>1, QuietRemembers
  <2>3. CASE RowStored(i) /\ i \in Good /\ push_hashes' = push_hashes \cup {i}
    <3>1. /\ raced \subseteq raced' /\ push_hashes \subseteq push_hashes'
          /\ push_hashes' \subseteq push_hashes \cup {i} /\ i \in push_hashes' \cup raced'
      BY <1>1, <2>3
    <3> QED BY <1>1, <2>1, <2>3, <3>1, RowComes
  <2> QED BY <2>1, <2>2, <2>3
<1>2. CASE Deduplicate(h)
  <2>1. PICK i \in Contents : ItemTreated(h, i) /\ UNCHANGED <<hub, push_hashes, raced>>
    BY <1>2, DeduplicateEffect
  <2>2. PICK x : HandlerBecomes(h, x) /\ x.judging = {}
    BY <2>1 DEF ItemTreated
  <2>3. \A g \in DOMAIN handlers' : \/ handlers'[g].judging = {}
                                    \/ g \in DOMAIN handlers /\ handlers'[g].judging = handlers[g].judging
    BY <2>2, HandlerBecomesTypes
  <2> QED BY <2>1, <2>3, QuietRemembers
<1>3. CASE Evaluate(h)
  <2>1. PICK i \in handlers[h].left \ push_hashes :
          \/ JudgeAsked(h, i)
          \/ ItemTreated(h, i) /\ UNCHANGED raced /\ ~("judge" \in Events /\ i \in Good)
    BY <1>3, EvaluateEffect
  <2>2. InHub(i) => i \in raced
    BY <2>1 DEF Remembers, RowsRemembered, InHub
  <2>3. CASE ItemTreated(h, i) /\ UNCHANGED raced /\ ~("judge" \in Events /\ i \in Good)
    <3>1. i \in Good => \A g \in DOMAIN handlers : i \notin handlers[g].judging
      BY <2>3 DEF Remembers, AwaitedIsNew
    <3> QED BY <1>1, <2>2, <2>3, <3>1
  <2>4. CASE JudgeAsked(h, i)
    <3>1. PICK x : HandlerBecomes(h, x) /\ x.judging = {i}
      BY <2>4 DEF JudgeAsked
    <3>2. /\ DOMAIN handlers' = DOMAIN handlers /\ handlers'[h].judging = {i}
          /\ \A g \in DOMAIN handlers : g # h => handlers'[g].judging = handlers[g].judging
      BY <3>1, HandlerBecomesTypes
    <3>3. /\ raced \subseteq raced' /\ "judge" \in Events /\ UNCHANGED <<hub, push_hashes>>
          /\ (\E g \in DOMAIN handlers : i \in handlers[g].judging) => i \in raced'
      BY <2>4 DEF JudgeAsked
    <3>4. HashMeansStored' /\ RowsRemembered' /\ OneCopyUnlessRaced'
      BY <3>3 DEF Remembers, HashMeansStored, RowsRemembered, OneCopyUnlessRaced, InHub
    <3>5. AwaitedIsNew'
      <4> SUFFICES ASSUME NEW g \in DOMAIN handlers, NEW j \in handlers'[g].judging
                   PROVE  "judge" \in Events /\ (InHub(j) => j \in raced)
        BY <3>2, <3>3 DEF AwaitedIsNew, InHub
      <4>1. CASE g = h
        BY <2>2, <3>2, <3>3, <4>1
      <4>2. CASE g # h
        BY <3>2, <4>2 DEF Remembers, AwaitedIsNew
      <4> QED BY <4>1, <4>2
    <3>6. AwaitedOnce'
      <4> SUFFICES ASSUME NEW f \in DOMAIN handlers, NEW g \in DOMAIN handlers, f # g,
                          NEW j \in handlers'[f].judging, j \in handlers'[g].judging
                   PROVE  j \in raced'
        BY <3>2 DEF AwaitedOnce
      <4>1. CASE f = h
        <5>1. j = i /\ g # h
          BY <3>2, <4>1
        <5>2. j \in handlers[g].judging
          BY <3>2, <5>1
        <5> QED BY <3>3, <5>1, <5>2
      <4>2. CASE g = h
        <5>1. j = i /\ f # h
          BY <3>2, <4>2
        <5>2. j \in handlers[f].judging
          BY <3>2, <5>1
        <5> QED BY <3>3, <5>1, <5>2
      <4>3. CASE f # h /\ g # h
        BY <3>2, <3>3, <4>3 DEF Remembers, AwaitedOnce
      <4> QED BY <4>1, <4>2, <4>3
    <3> QED BY <3>4, <3>5, <3>6 DEF Remembers
  <2> QED BY <2>1, <2>3, <2>4
<1>4. CASE VerdictArrives(h)
  <2>1. PICK i \in handlers[h].judging : ItemTreated(h, i) /\ UNCHANGED raced
    BY <1>4, VerdictEffect
  <2>2. /\ InHub(i) => i \in raced
        /\ \A g \in DOMAIN handlers : g # h /\ i \in handlers[g].judging => i \in raced
    BY DEF Remembers, AwaitedIsNew, AwaitedOnce
  <2> QED BY <1>1, <2>1, <2>2
<1>5. CASE Abort(h)
  <2>1. HandlerBecomes(h, ClosedRequest) /\ UNCHANGED push_hashes /\ ClosedRequest.judging = {}
    BY <1>5, AbortEffect, StartTypes
  <2>2. CASE UNCHANGED <<hub, raced>>
    <3>1. \A g \in DOMAIN handlers' : \/ handlers'[g].judging = {}
                                      \/ g \in DOMAIN handlers /\ handlers'[g].judging = handlers[g].judging
      BY <2>1, HandlerBecomesTypes
    <3> QED BY <2>1, <2>2, <3>1, QuietRemembers
  <2>3. ASSUME NEW i \in Contents, RowStored(i), raced' = raced \cup {i}
        PROVE  Remembers'
    <3>1. /\ raced \subseteq raced' /\ push_hashes \subseteq push_hashes'
          /\ push_hashes' \subseteq push_hashes \cup {i} /\ i \in raced'
      BY <2>1, <2>3
    <3> QED BY <2>1, <2>3, <3>1, RowComes
  <2> QED BY <1>5, <2>2, <2>3, AbortEffect
<1> QED BY <1>2, <1>3, <1>4, <1>5 DEF Push

LEMMA RemembersInit == SyncInit => Remembers
<1> SUFFICES ASSUME SyncInit PROVE Remembers
  OBVIOUS
<1>1. DOMAIN hub = {} /\ DOMAIN handlers = {} /\ push_hashes = {}
  BY DEF SyncInit
<1> QED BY <1>1 DEF Remembers, HashMeansStored, RowsRemembered, AwaitedIsNew, AwaitedOnce, OneCopyUnlessRaced

LEMMA RemembersNext == Typed /\ Remembers /\ [SyncNext]_syncVars => Remembers'
<1> SUFFICES ASSUME Typed, Remembers, [SyncNext]_syncVars PROVE Remembers'
  OBVIOUS
<1>1. ASSUME UNCHANGED <<hub, push_hashes, raced, handlers>>
      PROVE  Remembers'
  BY <1>1, QuietRemembers
<1>2. CASE Tick
  BY <1>1, <1>2, TickEffect
<1>3. ASSUME NEW b \in Brains, NEW i \in Contents, RecordLocal(b, i)
      PROVE  Remembers'
  BY <1>1, <1>3, RecordLocalEffect
<1>4. ASSUME NEW w \in Windows, Sync(w)
      PROVE  Remembers'
  <2>1. UNCHANGED <<hub, push_hashes, raced>>
    BY <1>4, CallTyped
  <2>2. ASSUME NEW items \in SUBSET Contents, handlers' = Append(handlers, Received(items))
        PROVE  Remembers'
    <3>1. Received(items) \in Handler /\ Received(items).judging = {}
      BY ReceivedType, TimeNow
    <3>2. \A g \in DOMAIN handlers' : \/ handlers'[g].judging = {}
                                      \/ g \in DOMAIN handlers /\ handlers'[g].judging = handlers[g].judging
      BY <2>2, <3>1, AppendHandler DEF Typed, SyncTypeOK
    <3> QED BY <2>1, <3>2, QuietRemembers
  <2>3. ASSUME HandlerBecomes(syncCall[w].handler, ClosedRequest)
        PROVE  Remembers'
    <3>1. \A g \in DOMAIN handlers' : \/ handlers'[g].judging = {}
                                      \/ g \in DOMAIN handlers /\ handlers'[g].judging = handlers[g].judging
      BY <2>3, HandlerBecomesTypes, StartTypes
    <3> QED BY <2>1, <3>1, QuietRemembers
  <2> QED BY <1>1, <1>4, <2>1, <2>2, <2>3, CallTyped
<1>5. ASSUME NEW h \in DOMAIN handlers, Push(h)
      PROVE  Remembers'
  BY <1>5, HubRemembers
<1>6. CASE UNCHANGED syncVars
  BY <1>1, <1>6 DEF syncVars, server
<1> QED BY <1>2, <1>3, <1>4, <1>5, <1>6 DEF SyncNext

\* The hub calls a duplicate only what it holds (sync_server.py push_sync).
THEOREM NothingTurnedAway == SyncSpec => []HashMeansStored
<1>1. Remembers => HashMeansStored
  BY DEF Remembers
<1> QED BY <1>1, TypedInit, TypedNext, RemembersInit, RemembersNext, PTL DEF SyncSpec

\* The hub holds a content twice only after a verdict on it was awaited twice at
\* once, or after the hub ended between row and hash (sync_server.py push_sync).
THEOREM CopiesAreRaces == SyncSpec => []OneCopyUnlessRaced
<1>1. Remembers => OneCopyUnlessRaced
  BY DEF Remembers
<1> QED BY <1>1, TypedInit, TypedNext, RemembersInit, RemembersNext, PTL DEF SyncSpec

-----------------------------------------------------------------------------
(* What lies behind the cursors, when a row is committed in the second of  *)
(* its stamp. A bound is a pair of seconds that is, or may become, the     *)
(* cursor of a brain.                                                      *)

Pushed(b, t) == \A r \in local[b] : r.at <= t => InHub(r.item)
Pulled(b, t) == \A n \in DOMAIN hub : hub[n].at <= t => hub[n] \in quarantine[b]

Fine(b, c) ==
  /\ c.pulled < clock /\ c.pushed < clock
  /\ Pushed(b, c.pushed)
  /\ Len(hub) <= QueryLimit => Pulled(b, c.pulled)

\* What a request was to bring to the hub is there, under way, or given up.
Underway(r, request) == r.item \in request.left \/ request.rejected \/ ~request.open
Sent(b, call) ==
  \A r \in local[b] : r.at <= call.op => InHub(r.item) \/ Underway(r, handlers[call.handler])

\* What a pull was to bring is kept or about to be.
Fetching(b, call) ==
  Len(hub) <= QueryLimit =>
    \A n \in DOMAIN hub : hub[n].at <= call.op => hub[n] \in quarantine[b] \cup call.rows

FineCall(b, call) ==
  call.pc # "idle" =>
    /\ Fine(b, call.read) /\ Fine(b, call.next) /\ call.op < clock
    /\ call.pc = "wait" => Sent(b, call)
    /\ call.pc = "quarantine" => Fetching(b, call)

Cursors ==
  /\ \A b \in Brains : Fine(b, cursor[b])
  /\ \A w \in Windows : FineCall(Brain[w], syncCall[w])

\* Rows are stamped with numbers of seconds.
LEMMA Stamped ==
  ASSUME Typed
  PROVE  /\ clock \in Nat /\ \A b \in Brains : \A r \in local[b] : r.at \in Nat
         /\ \A n \in DOMAIN hub : hub[n] \in HubRow /\ hub[n].at \in Nat
         /\ Len(hub) \in Nat /\ QueryLimit \in Nat /\ PayloadLimit \in Nat /\ PayloadLimit < QueryLimit
<1>1. \A row \in HubRow : row.at \in Nat
  BY LimitsAssumption DEF HubRow, Time
<1>2. DOMAIN hub = 1 .. Len(hub) /\ hub \in Seq(HubRow) /\ Len(hub) \in Nat
  BY LenProperties DEF Typed, SyncTypeOK
<1>3. \A n \in DOMAIN hub : hub[n] \in HubRow
  BY <1>2, ElementOfSeq
<1> QED BY <1>1, <1>2, <1>3, LimitsAssumption, TimeNow DEF Typed, SyncTypeOK

LEMMA SecondsOf ==
  ASSUME NEW c \in Cursor
  PROVE  c.pulled \in Nat /\ c.pushed \in Nat
  BY LimitsAssumption DEF Cursor, Time

\* What was fine stays fine while time passes, a brain records or keeps more,
\* and the hub stores more, all with the stamp of now.
More ==
  /\ clock' \in Nat /\ clock <= clock'
  /\ \A b \in Brains : \A r \in local'[b] : r \in local[b] \/ r.at = clock
  /\ \A b \in Brains : quarantine[b] \subseteq quarantine'[b]
  /\ Len(hub) <= Len(hub') /\ Len(hub') \in Nat /\ DOMAIN hub \subseteq DOMAIN hub'
  /\ \A n \in DOMAIN hub : hub'[n] = hub[n]
  /\ \A n \in DOMAIN hub' : n \in DOMAIN hub \/ hub'[n].at = clock

LEMMA StaysFine ==
  ASSUME Typed, More, NEW b \in Brains, NEW c \in Cursor, Fine(b, c)
  PROVE  Fine(b, c)'
<1>1. c.pulled \in Nat /\ c.pushed \in Nat /\ c.pulled < clock /\ c.pushed < clock /\ clock \in Nat
  BY SecondsOf, Stamped DEF Fine
<1>2. c.pulled < clock' /\ c.pushed < clock'
  BY <1>1 DEF More
<1>3. Pushed(b, c.pushed)'
  <2> SUFFICES ASSUME NEW r \in local'[b], r.at <= c.pushed PROVE InHub(r.item)'
    BY DEF Pushed
  <2>1. r \in local[b]
    BY <1>1 DEF More
  <2>2. InHub(r.item)
    BY <2>1 DEF Fine, Pushed
  <2> QED BY <2>2 DEF InHub, More
<1>4. Len(hub') <= QueryLimit => Pulled(b, c.pulled)'
  <2> SUFFICES ASSUME Len(hub') <= QueryLimit, NEW n \in DOMAIN hub', hub'[n].at <= c.pulled
               PROVE  hub'[n] \in quarantine'[b]
    BY DEF Pulled
  <2>1. n \in DOMAIN hub /\ hub'[n] = hub[n]
    BY <1>1 DEF More
  <2>2. Len(hub) <= QueryLimit
    BY Stamped DEF More
  <2>3. hub[n] \in quarantine[b]
    BY <2>1, <2>2 DEF Fine, Pulled
  <2> QED BY <2>1, <2>3 DEF More
<1> QED BY <1>2, <1>3, <1>4 DEF Fine

\* The requests go on: what was under way is, or is at the hub.
RequestsGoOn ==
  \A h \in DOMAIN handlers : \A i :
    LET past == handlers[h] next == handlers'[h]
    IN /\ past.rejected \/ ~past.open => next.rejected \/ ~next.open
       /\ i \in past.left => i \in next.left \/ next.rejected \/ ~next.open \/ InHub(i)'

LEMMA CallStaysFine ==
  ASSUME Typed, More, RequestsGoOn, NEW w \in Windows, NEW call, call = syncCall[w], FineCall(Brain[w], call)
  PROVE  FineCall(Brain[w], call)'
<1> SUFFICES ASSUME call.pc # "idle"
             PROVE  /\ Fine(Brain[w], call.read)' /\ Fine(Brain[w], call.next)' /\ call.op < clock'
                    /\ call.pc = "wait" => Sent(Brain[w], call)'
                    /\ call.pc = "quarantine" => Fetching(Brain[w], call)'
  BY DEF FineCall
<1>1. Brain[w] \in Brains /\ call.read \in Cursor /\ call.next \in Cursor /\ call.op \in Nat
  BY CallTypes, LimitsAssumption DEF Time
<1>2. Fine(Brain[w], call.read)' /\ Fine(Brain[w], call.next)'
  BY <1>1, StaysFine DEF FineCall
<1>3. call.op < clock /\ clock \in Nat /\ call.op < clock'
  BY <1>1, Stamped DEF FineCall, More
<1>4. ASSUME call.pc = "wait", NEW r \in local'[Brain[w]], r.at <= call.op
      PROVE  InHub(r.item)' \/ Underway(r, handlers'[call.handler])
  <2>1. r \in local[Brain[w]]
    BY <1>1, <1>3, <1>4 DEF More
  <2>2. InHub(r.item) \/ Underway(r, handlers[call.handler])
    BY <1>4, <2>1 DEF FineCall, Sent
  <2>3. CASE InHub(r.item)
    BY <2>3 DEF InHub, More
  <2>4. CASE Underway(r, handlers[call.handler])
    <3>1. call.handler \in DOMAIN handlers
      BY <1>4 DEF Typed, WaitsForOne
    <3> QED BY <2>4, <3>1 DEF Underway, RequestsGoOn
  <2> QED BY <2>2, <2>3, <2>4
<1>5. ASSUME call.pc = "quarantine", Len(hub') <= QueryLimit, NEW n \in DOMAIN hub', hub'[n].at <= call.op
      PROVE  hub'[n] \in quarantine'[Brain[w]] \cup call.rows
  <2>1. n \in DOMAIN hub /\ hub'[n] = hub[n]
    BY <1>1, <1>3, <1>5 DEF More
  <2>2. Len(hub) <= QueryLimit
    BY <1>5, Stamped DEF More
  <2>3. hub[n] \in quarantine[Brain[w]] \cup call.rows
    BY <1>5, <2>1, <2>2 DEF FineCall, Fetching
  <2> QED BY <1>1, <2>1, <2>3 DEF More
<1> QED BY <1>2, <1>3, <1>4, <1>5 DEF Sent, Fetching

LEMMA CursorsStay ==
  ASSUME Typed, Cursors, More, RequestsGoOn, UNCHANGED <<cursor, syncCall>>
  PROVE  Cursors'
<1>1. ASSUME NEW b \in Brains
      PROVE  Fine(b, cursor[b])'
  <2>1. PICK c \in Cursor : c = cursor[b]
    BY DEF Typed, SyncTypeOK
  <2>2. Fine(b, c)'
    BY <2>1, StaysFine DEF Cursors
  <2>3. c = cursor'[b]
    BY <2>1
  <2> QED BY <2>2, <2>3 DEF Fine, Pushed, Pulled
<1>2. ASSUME NEW w \in Windows
      PROVE  FineCall(Brain[w], syncCall[w])'
  <2>1. PICK call : call = syncCall[w] /\ FineCall(Brain[w], call)
    BY DEF Cursors
  <2>2. FineCall(Brain[w], call)'
    BY <2>1, CallStaysFine
  <2>3. call = syncCall'[w]
    BY <2>1
  <2> QED BY <2>2, <2>3
<1> QED BY <1>1, <1>2 DEF Cursors

LEMMA CallGoesOn ==
  ASSUME Typed, Cursors, More, RequestsGoOn, NEW w \in Windows, NEW new, CallBecomes(w, new),
         FineCall(Brain[w], new)',
         \A b \in Brains : cursor'[b] = cursor[b] \/ (b = Brain[w] /\ syncCall[w].pc # "idle"
                                                      /\ cursor'[b] = syncCall[w].next)
  PROVE  Cursors'
<1>1. ASSUME NEW b \in Brains
      PROVE  Fine(b, cursor[b])'
  <2>1. PICK c : c = cursor'[b]
    OBVIOUS
  <2>2. c \in Cursor /\ Fine(b, c)
    <3>1. CASE cursor'[b] = cursor[b]
      BY <2>1, <3>1 DEF Cursors, Typed, SyncTypeOK
    <3>2. CASE b = Brain[w] /\ syncCall[w].pc # "idle" /\ cursor'[b] = syncCall[w].next
      BY <2>1, <3>2, CallTypes DEF Cursors, FineCall
    <3> QED BY <3>1, <3>2
  <2>3. Fine(b, c)'
    BY <2>2, StaysFine
  <2> QED BY <2>1, <2>3
<1>2. ASSUME NEW v \in Windows
      PROVE  FineCall(Brain[v], syncCall[v])'
  <2>1. CASE v = w
    <3>1. syncCall'[w] = new
      BY CallChanges DEF Typed, SyncTypeOK
    <3> QED BY <2>1, <3>1
  <2>2. CASE v # w
    <3>1. PICK call : call = syncCall[v] /\ FineCall(Brain[v], call)
      BY DEF Cursors
    <3>2. FineCall(Brain[v], call)'
      BY <3>1, CallStaysFine
    <3>3. call = syncCall'[v]
      BY <2>2, <3>1, CallChanges DEF Typed, SyncTypeOK
    <3> QED BY <3>2, <3>3
  <2> QED BY <2>1, <2>2
<1> QED BY <1>1, <1>2 DEF Cursors

\* A step of a call is such a step.
LEMMA CallMore ==
  ASSUME Typed, NEW w \in Windows, Sync(w), \A b \in Brains : quarantine[b] \subseteq quarantine'[b]
  PROVE  More /\ RequestsGoOn
<1>1. UNCHANGED <<clock, local, hub>>
  BY CallTyped
<1>2. More
  BY <1>1, Stamped DEF More
<1>3. RequestsGoOn
  <2>1. CASE handlers' = handlers
    BY <2>1 DEF RequestsGoOn
  <2>2. ASSUME NEW items \in SUBSET Contents, handlers' = Append(handlers, Received(items))
        PROVE  RequestsGoOn
    <3>1. Received(items) \in Handler
      BY ReceivedType, TimeNow
    <3>2. \A h \in DOMAIN handlers : handlers'[h] = handlers[h]
      BY <2>2, <3>1, AppendHandler DEF Typed, SyncTypeOK
    <3> QED BY <3>2 DEF RequestsGoOn
  <2>3. ASSUME HandlerBecomes(syncCall[w].handler, ClosedRequest)
        PROVE  RequestsGoOn
    <3>1. \A h \in DOMAIN handlers : handlers'[h] = handlers[h] \/ ~handlers'[h].open
      BY <2>3, HandlerBecomesTypes, StartTypes
    <3> QED BY <3>1 DEF RequestsGoOn
  <2> QED BY <2>1, <2>2, <2>3, CallTyped
<1> QED BY <1>2, <1>3

\* A call's own record is fine if its bounds were, and what it waits for is.
LEMMA NewCallFine ==
  ASSUME Typed, More, NEW w \in Windows, NEW new \in SyncCall, new.op < clock,
         Fine(Brain[w], new.read), Fine(Brain[w], new.next),
         new.pc = "wait" => Sent(Brain[w], new)', new.pc = "quarantine" => Fetching(Brain[w], new)'
  PROVE  FineCall(Brain[w], new)'
<1>1. Brain[w] \in Brains /\ new.read \in Cursor /\ new.next \in Cursor /\ new.op \in Nat
  BY CallTypes, LimitsAssumption DEF SyncCall, Time
<1>2. Fine(Brain[w], new.read)' /\ Fine(Brain[w], new.next)'
  BY <1>1, StaysFine
<1>3. new.op < clock'
  BY <1>1, Stamped DEF More
<1> QED BY <1>2, <1>3 DEF FineCall

LEMMA RowsOfHub ==
  ASSUME Typed, Len(hub) <= QueryLimit, NEW since, NEW rows \in NewestSince(ToSet(hub), since)
  PROVE  rows = {r \in ToSet(hub) : r.at > since}
<1> DEFINE recent == {r \in ToSet(hub) : r.at > since}
<1>1. Len(hub) \in Nat /\ DOMAIN hub = 1 .. Len(hub) /\ hub \in [DOMAIN hub -> ToSet(hub)]
  BY LenProperties DEF Typed, SyncTypeOK, ToSet
<1>2. IsFiniteSet(DOMAIN hub) /\ Cardinality(DOMAIN hub) = Len(hub)
  BY <1>1, FS_Interval
<1>3. hub \in Surjection(DOMAIN hub, ToSet(hub))
  BY <1>1 DEF Surjection, ToSet
<1>4. IsFiniteSet(ToSet(hub)) /\ Cardinality(ToSet(hub)) <= Len(hub)
  BY <1>2, <1>3, FS_Surjection
<1>5. Cardinality(recent) <= Cardinality(ToSet(hub)) /\ Cardinality(recent) \in Nat /\ Cardinality(ToSet(hub)) \in Nat
  BY <1>4, FS_Subset, FS_CardinalityType
<1>6. Cardinality(recent) <= QueryLimit
  BY <1>1, <1>4, <1>5, LimitsAssumption
<1> QED BY <1>6 DEF NewestSince

LEMMA CallCursors ==
  ASSUME Typed, Delay = 0, Cursors, NEW w \in Windows, Sync(w)
  PROVE  Cursors'
<1>0. UNCHANGED <<clock, local, hub>> /\ Brain[w] \in Brains
  BY CallTyped, CallTypes
<1>1. ASSUME UNCHANGED <<cursor, quarantine>>, NEW new, CallBecomes(w, new), new.op < clock,
             Fine(Brain[w], new.read), Fine(Brain[w], new.next),
             new.pc = "wait" => Sent(Brain[w], new)', new.pc = "quarantine" => Fetching(Brain[w], new)'
      PROVE  Cursors'
  <2>1. More /\ RequestsGoOn
    BY <1>1, CallMore
  <2>2. FineCall(Brain[w], new)'
    BY <1>1, <2>1, NewCallFine DEF CallBecomes
  <2> QED BY <1>1, <2>1, <2>2, CallGoesOn
<1>2. ASSUME UNCHANGED <<cursor, quarantine>>, CallBecomes(w, NoSyncCall)
      PROVE  Cursors'
  <2>1. More /\ RequestsGoOn
    BY <1>2, CallMore
  <2>2. FineCall(Brain[w], NoSyncCall)'
    BY StartTypes DEF FineCall
  <2> QED BY <1>2, <2>1, <2>2, CallGoesOn
<1>3. Fine(Brain[w], cursor[Brain[w]])
  BY <1>0 DEF Cursors
<1>4. syncCall[w].pc # "idle" =>
        /\ Fine(Brain[w], syncCall[w].read) /\ Fine(Brain[w], syncCall[w].next) /\ syncCall[w].op < clock
        /\ syncCall[w].pc = "wait" => Sent(Brain[w], syncCall[w])
        /\ syncCall[w].pc = "quarantine" => Fetching(Brain[w], syncCall[w])
  BY DEF Cursors, FineCall
<1>5. CASE \E direction \in Directions : Start(w, direction)
  <2>1. PICK new : /\ CallBecomes(w, new) /\ new.pc \in {"pull", "push"} /\ new.op = clock - 1
                   /\ new.read = cursor[Brain[w]] /\ new.next = cursor[Brain[w]]
    BY <1>5, StartEffect
  <2>2. UNCHANGED <<cursor, quarantine>>
    BY <1>5 DEF Start, store
  <2>3. new.op < clock
    BY <2>1, TimeNow
  <2> QED BY <1>1, <1>3, <2>1, <2>2, <2>3
<1>6. CASE PullSync(w)
  <2>1. PICK new : /\ CallBecomes(w, new) /\ new.pc = "quarantine" /\ new.op = syncCall[w].op
                   /\ new.read = syncCall[w].read /\ new.next = syncCall[w].next
                   /\ new.rows \in NewestSince(ToSet(hub), syncCall[w].read.pulled)
    BY <1>6, PullEffect
  <2>2. UNCHANGED <<cursor, quarantine>> /\ syncCall[w].pc = "pull"
    BY <1>6 DEF PullSync, store
  <2>3. Fetching(Brain[w], new)'
    <3> SUFFICES ASSUME Len(hub) <= QueryLimit, NEW n \in DOMAIN hub, hub[n].at <= new.op
                 PROVE  hub[n] \in quarantine[Brain[w]] \cup new.rows
      BY <1>0, <2>2 DEF Fetching
    <3>1. new.rows = {r \in ToSet(hub) : r.at > syncCall[w].read.pulled}
      BY <2>1, RowsOfHub
    <3>2. hub[n] \in ToSet(hub)
      BY DEF ToSet
    <3>3. hub[n].at <= syncCall[w].read.pulled => hub[n] \in quarantine[Brain[w]]
      BY <1>4, <2>2 DEF Fine, Pulled
    <3>4. hub[n].at \in Nat /\ syncCall[w].read.pulled \in Nat
      BY Stamped, SecondsOf, CallTypes
    <3> QED BY <3>1, <3>2, <3>3, <3>4
  <2> QED BY <1>1, <1>4, <2>1, <2>2, <2>3
<1>7. CASE Quarantine(w)
  <2>1. PICK new, r : /\ CallBecomes(w, new) /\ new.pc = "quarantine" /\ syncCall[w].pc = "quarantine"
                      /\ new.op = syncCall[w].op /\ new.read = syncCall[w].read /\ new.next = syncCall[w].next
                      /\ r \in syncCall[w].rows /\ new.rows = syncCall[w].rows \ {r}
                      /\ quarantine' = [quarantine EXCEPT ![Brain[w]] = @ \cup {r}]
    BY <1>7, QuarantineEffect
  <2>2. /\ \A b \in Brains : quarantine[b] \subseteq quarantine'[b]
        /\ quarantine'[Brain[w]] = quarantine[Brain[w]] \cup {r}
    BY <1>0, <2>1 DEF Typed, SyncTypeOK
  <2>3. UNCHANGED cursor /\ More /\ RequestsGoOn
    BY <1>7, <2>2, CallMore DEF Quarantine
  <2>4. Fetching(Brain[w], new)'
    BY <1>0, <1>4, <2>1, <2>2 DEF Fetching
  <2>5. FineCall(Brain[w], new)'
    BY <1>4, <2>1, <2>3, <2>4, NewCallFine DEF CallBecomes
  <2> QED BY <2>1, <2>3, <2>5, CallGoesOn
<1>8. CASE PullDone(w)
  <2>1. PICK new : /\ CallBecomes(w, new) /\ new.pc \in {"push", "write"} /\ new.op = syncCall[w].op
                   /\ new.read = syncCall[w].read
                   /\ new.next = [syncCall[w].next EXCEPT !.pulled = syncCall[w].op]
    BY <1>8, PullDoneEffect
  <2>2. UNCHANGED <<cursor, quarantine>> /\ syncCall[w].pc = "quarantine" /\ syncCall[w].rows = {}
    BY <1>8 DEF PullDone, store
  <2>3. new.next.pulled = syncCall[w].op /\ new.next.pushed = syncCall[w].next.pushed
    BY <2>1, CallTypes DEF Cursor
  <2>4. Len(hub) <= QueryLimit => Pulled(Brain[w], new.next.pulled)
    BY <1>4, <2>2, <2>3 DEF Fetching, Pulled
  <2>5. Fine(Brain[w], new.next)
    BY <1>4, <2>2, <2>3, <2>4 DEF Fine
  <2> QED BY <1>1, <1>4, <2>1, <2>2, <2>5
<1>9. CASE PushSend(w)
  <2>1. UNCHANGED <<cursor, quarantine>> /\ syncCall[w].pc = "push"
    BY <1>9 DEF PushSend, store
  <2>2. ASSUME NEW new, NEW rows, CallBecomes(w, new), new.pc = "wait", new.op = syncCall[w].op,
               new.read = syncCall[w].read, new.next = syncCall[w].next, new.handler = Len(handlers) + 1,
               rows \in NewestSince(local[Brain[w]], syncCall[w].read.pushed), rows \subseteq HubRow,
               ~(Cardinality(rows) > PayloadLimit),
               handlers' = Append(handlers, Received({r.item : r \in rows}))
        PROVE  Cursors'
    <3>1. PICK items \in SUBSET Contents : items = {r.item : r \in rows}
      BY <2>2 DEF HubRow
    <3>2. Received(items) \in Handler /\ Received(items).left = items
      BY ReceivedType, TimeNow
    <3>3. handlers'[new.handler] = Received(items)
      BY <2>2, <3>1, <3>2, AppendHandler DEF Typed, SyncTypeOK
    <3>4. rows = {r \in local[Brain[w]] : r.at > syncCall[w].read.pushed}
      BY <2>2, Stamped DEF NewestSince
    <3>5. Sent(Brain[w], new)'
      <4> SUFFICES ASSUME NEW r \in local[Brain[w]], r.at <= new.op
                   PROVE  InHub(r.item)' \/ Underway(r, handlers'[new.handler])
        BY <1>0 DEF Sent
      <4>1. CASE r.at <= syncCall[w].read.pushed
        BY <1>0, <1>4, <2>1, <4>1 DEF Fine, Pushed, InHub
      <4>2. CASE r.at > syncCall[w].read.pushed
        BY <3>1, <3>2, <3>3, <3>4, <4>2 DEF Underway
      <4>3. r.at \in Nat /\ syncCall[w].read.pushed \in Nat
        BY <1>0, Stamped, SecondsOf, CallTypes
      <4> QED BY <4>1, <4>2, <4>3
    <3> QED BY <1>1, <1>4, <2>1, <2>2, <3>5
  <2> QED BY <1>2, <1>9, <2>1, <2>2, PushSendEffect
<1>10. CASE PushDone(w)
  <2>1. UNCHANGED <<cursor, quarantine>> /\ syncCall[w].pc = "wait" /\ HubAnswered(w)
    BY <1>10 DEF PushDone, store
  <2>2. PICK new : /\ CallBecomes(w, new) /\ new.pc = "write" /\ new.op = syncCall[w].op
                   /\ new.read = syncCall[w].read
                   /\ \/ new.next = syncCall[w].next
                      \/ /\ new.next = [syncCall[w].next EXCEPT !.pushed = syncCall[w].op]
                         /\ ~handlers[syncCall[w].handler].rejected
    BY <1>10, PushDoneEffect
  <2>3. CASE new.next = syncCall[w].next
    BY <1>1, <1>4, <2>1, <2>2, <2>3
  <2>4. CASE new.next = [syncCall[w].next EXCEPT !.pushed = syncCall[w].op] /\ ~handlers[syncCall[w].handler].rejected
    <3>1. new.next.pushed = syncCall[w].op /\ new.next.pulled = syncCall[w].next.pulled
      BY <2>4, CallTypes DEF Cursor
    <3>2. handlers[syncCall[w].handler].left = {} /\ handlers[syncCall[w].handler].open
      BY <2>1 DEF HubAnswered
    <3>3. Pushed(Brain[w], new.next.pushed)
      BY <1>4, <2>1, <2>4, <3>1, <3>2 DEF Sent, Underway, Pushed
    <3>4. Fine(Brain[w], new.next)
      BY <1>4, <2>1, <3>1, <3>3 DEF Fine
    <3> QED BY <1>1, <1>4, <2>1, <2>2, <3>4
  <2> QED BY <2>2, <2>3, <2>4
<1>11. CASE WriteCursor(w)
  <2>1. /\ UNCHANGED quarantine /\ cursor' = [cursor EXCEPT ![Brain[w]] = syncCall[w].next]
        /\ CallBecomes(w, NoSyncCall) /\ syncCall[w].pc = "write"
    BY <1>11, StartTypes DEF WriteCursor, CallBecomes
  <2>2. \A b \in Brains : cursor'[b] = cursor[b] \/ (b = Brain[w] /\ cursor'[b] = syncCall[w].next)
    BY <2>1 DEF Typed, SyncTypeOK
  <2>3. More /\ RequestsGoOn
    BY <2>1, CallMore
  <2>4. FineCall(Brain[w], NoSyncCall)'
    BY StartTypes DEF FineCall
  <2> QED BY <2>1, <2>2, <2>3, <2>4, CallGoesOn
<1>12. CASE GiveUp(w)
  <2>1. UNCHANGED <<cursor, quarantine>> /\ CallBecomes(w, NoSyncCall)
    BY <1>12, StartTypes DEF GiveUp, store, CallBecomes
  <2> QED BY <1>2, <2>1
<1> QED BY <1>5, <1>6, <1>7, <1>8, <1>9, <1>10, <1>11, <1>12 DEF Sync

LEMMA HubCursors ==
  ASSUME Typed, Delay = 0, HashMeansStored, Cursors, NEW h \in DOMAIN handlers, Push(h)
  PROVE  Cursors'
<1>1. HubStep(h) /\ UNCHANGED <<clock, local, quarantine, cursor, syncCall>>
  BY HubSteps DEF HubStep
<1>2. More
  <2>1. CASE UNCHANGED hub
    BY <1>1, <2>1, Stamped DEF More
  <2>2. ASSUME NEW i \in Contents, RowStored(i)
        PROVE  More
    BY <1>1, <2>2, RowStoredTypes, Stamped DEF More
  <2> QED BY <1>1, <2>1, <2>2 DEF HubStep
<1>3. RequestsGoOn
  <2>1. ASSUME NEW i, ItemTreated(h, i)
        PROVE  RequestsGoOn
    <3>1. PICK x : /\ HandlerBecomes(h, x) /\ x.left = handlers[h].left \ {i} /\ x.open = handlers[h].open
                   /\ handlers[h].rejected => x.rejected
                   /\ \/ RowStored(i)
                      \/ UNCHANGED hub /\ (x.rejected \/ i \in push_hashes)
      BY <2>1 DEF ItemTreated
    <3>2. handlers'[h] = x /\ \A g \in DOMAIN handlers : g # h => handlers'[g] = handlers[g]
      BY <3>1, HandlerBecomesTypes
    <3>3. x.rejected \/ InHub(i)'
      <4>1. CASE RowStored(i)
        BY <4>1, HubGrows
      <4>2. CASE UNCHANGED hub /\ (x.rejected \/ i \in push_hashes)
        BY <4>2 DEF HashMeansStored, InHub
      <4> QED BY <3>1, <4>1, <4>2
    <3> QED BY <3>1, <3>2, <3>3 DEF RequestsGoOn
  <2>2. ASSUME NEW i, JudgeAsked(h, i)
        PROVE  RequestsGoOn
    <3>1. PICK x : /\ HandlerBecomes(h, x) /\ x.left = handlers[h].left
                   /\ x.rejected = handlers[h].rejected /\ x.open = handlers[h].open
      BY <2>2 DEF JudgeAsked
    <3> QED BY <3>1, HandlerBecomesTypes DEF RequestsGoOn
  <2>3. CASE Abort(h)
    <3>1. HandlerBecomes(h, ClosedRequest) /\ ~ClosedRequest.open
      BY <2>3, AbortEffect, StartTypes
    <3> QED BY <3>1, HandlerBecomesTypes DEF RequestsGoOn
  <2> QED BY <2>1, <2>2, <2>3, DeduplicateEffect, EvaluateEffect, VerdictEffect DEF Push
<1> QED BY <1>1, <1>2, <1>3, CursorsStay

LEMMA CursorsInit == SyncInit => Cursors
<1> SUFFICES ASSUME SyncInit PROVE Cursors
  OBVIOUS
<1>1. \A w \in Windows : syncCall[w].pc = "idle"
  BY StartTypes DEF SyncInit
<1>2. DOMAIN hub = {} /\ clock = 1 /\ \A b \in Brains : local[b] = {} /\ cursor[b] = [pulled |-> 0, pushed |-> 0]
  BY DEF SyncInit
<1> QED BY <1>1, <1>2 DEF Cursors, FineCall, Fine, Pushed, Pulled

LEMMA CursorsNext == Typed /\ Delay = 0 /\ HashMeansStored /\ Cursors /\ [SyncNext]_syncVars => Cursors'
<1> SUFFICES ASSUME Typed, Delay = 0, HashMeansStored, Cursors, [SyncNext]_syncVars PROVE Cursors'
  OBVIOUS
<1>1. ASSUME UNCHANGED <<quarantine, cursor, syncCall, hub, handlers>>, clock' \in Nat, clock <= clock',
             \A b \in Brains : \A r \in local'[b] : r \in local[b] \/ r.at = clock
      PROVE  Cursors'
  <2>1. More /\ RequestsGoOn
    BY <1>1, Stamped DEF More, RequestsGoOn
  <2> QED BY <1>1, <2>1, CursorsStay
<1>2. CASE Tick
  <2>1. clock' = clock + 1 /\ clock \in Nat
        /\ UNCHANGED <<local, quarantine, cursor, syncCall, hub, handlers>>
    BY <1>2, TickEffect
  <2> QED BY <1>1, <2>1
<1>3. ASSUME NEW b \in Brains, NEW i \in Contents, RecordLocal(b, i)
      PROVE  Cursors'
  <2>1. PICK row \in HubRow :
          /\ local' = [local EXCEPT ![b] = @ \cup {row}] /\ row.at = clock
          /\ UNCHANGED <<clock, quarantine, cursor, syncCall, hub, handlers>>
    BY <1>3, RecordLocalEffect
  <2>2. \A a \in Brains : \A r \in local'[a] : r \in local[a] \/ r.at = clock
    BY <2>1 DEF Typed, SyncTypeOK
  <2>3. clock \in Nat
    BY Stamped
  <2> QED BY <1>1, <2>1, <2>2, <2>3
<1>4. CASE UNCHANGED syncVars
  <2>1. UNCHANGED <<clock, local, quarantine, cursor, syncCall, hub, handlers>> /\ clock \in Nat
    BY <1>4, Stamped DEF syncVars, store, server
  <2> QED BY <1>1, <2>1
<1> QED BY <1>2, <1>3, <1>4, CallCursors, HubCursors DEF SyncNext

\* Where no commit is delayed past the second of its stamp, a record behind the
\* push cursor is at the hub, whatever windows, failures and retries do
\* (planning.py sync_team_memory).
THEOREM NothingLeftUnpushed == Delay = 0 /\ SyncSpec => []PushSkipsNothing
<1>1. Cursors => PushSkipsNothing
  BY DEF Cursors, Fine, Pushed, PushSkipsNothing
<1>2. Remembers => HashMeansStored
  BY DEF Remembers
<1>3. ASSUME Delay = 0 PROVE SyncSpec => []PushSkipsNothing
  <2>1. Typed /\ HashMeansStored /\ Cursors /\ [SyncNext]_syncVars => Cursors'
    BY <1>3, CursorsNext
  <2> QED BY <1>1, <1>2, <2>1, TypedInit, TypedNext, RemembersInit, RemembersNext, CursorsInit, PTL DEF SyncSpec
<1> QED BY <1>3

\* And a hub row behind the pull cursor is in the brain's quarantine, as long as
\* one pull returns all the hub's rows (planning.py sync_team_memory).
THEOREM NothingLeftUnpulled == Delay = 0 /\ SyncSpec => []PullSkipsNothing
<1>1. Cursors => PullSkipsNothing
  BY DEF Cursors, Fine, Pulled, PullSkipsNothing
<1>2. Remembers => HashMeansStored
  BY DEF Remembers
<1>3. ASSUME Delay = 0 PROVE SyncSpec => []PullSkipsNothing
  <2>1. Typed /\ HashMeansStored /\ Cursors /\ [SyncNext]_syncVars => Cursors'
    BY <1>3, CursorsNext
  <2> QED BY <1>1, <1>2, <2>1, TypedInit, TypedNext, RemembersInit, RemembersNext, CursorsInit, PTL DEF SyncSpec
<1> QED BY <1>3
=============================================================================
