--------------------------- MODULE QuarantinedMemory ---------------------------
(***************************************************************************)
(* Memory items: what users tell the store to remember and what a pull     *)
(* brings from the hub. Doubtful and sensitive items are kept in           *)
(* quarantine, out of searches and context packs, until somebody who has   *)
(* looked at them approves. Every process works on the table by single     *)
(* statements that commit by themselves.                                   *)
(*                                                                         *)
(* An item is its content hash: type, scope, source and redacted text. Its *)
(* grade is what matters of trust_score, confidence and privacy_class; a   *)
(* secret found by redaction makes the class sensitive, so a caller may    *)
(* get another grade than it asked for, and any grade is possible.         *)
(* Expiry only takes rows out of answers and is left out.                  *)
(***************************************************************************)
EXTENDS Naturals, FiniteSets

CONSTANTS
  MemCallers,   \* windows and tools
  LocalItems,   \* items users record
  RemoteItems,  \* records of the hub, source = remote_sync
  SameWords,    \* pairs of items whose texts have the same words
  MemGrades,    \* grades that local items are recorded with
  MaxMemCalls   \* bound: calls made

Items == LocalItems \cup RemoteItems

\* low: trust_score < 0.5; unsure: confidence < 0.4; sensitive: privacy_class.
Grade == [low : BOOLEAN, unsure : BOOLEAN, sensitive : BOOLEAN]

ASSUME MemAssumption ==
  MaxMemCalls \in Nat /\ LocalItems \cap RemoteItems = {} /\ MemGrades \subseteq Grade

VARIABLES
  items,     \* stored item |-> row
  lastId,    \* sqlite_sequence: ids are never used twice
  caller,    \* the call each caller is in
  memCalls,  \* how many calls were made
  approved   \* history: items that one who had looked at them has approved since
             \* they were last recorded

memVars == <<items, lastId, caller, memCalls, approved>>

RemoteGrade == [low |-> TRUE, unsure |-> TRUE, sensitive |-> FALSE]
Doubtful(g) == g.low \/ g.unsure \/ g.sensitive

Row == [id : Nat, grade : Grade, quarantined : BOOLEAN]
Stored(i) == i \in DOMAIN items
Visible(i) == Stored(i) /\ ~items[i].quarantined
RowsWithId(id) == {i \in DOMAIN items : items[i].id = id}

\* at: the next statement; tool: which tool; about: the item, as a set; grade:
\* as computed; id: as returned or read; said: the answer to remember; moved:
\* history, somebody else changed the row since the caller wrote or read it.
NoCall == [at |-> "idle", tool |-> "gateway", about |-> {}, id |-> 0, said |-> "nothing",
         grade |-> RemoteGrade, moved |-> FALSE]

Free(w) ==
  \/ caller[w].at \in {"idle", "looked", "answered"}
  \/ caller[w].at = "answer" /\ caller[w].tool = "pull"
CallMade == memCalls < MaxMemCalls /\ memCalls' = memCalls + 1

Moved(w, i) ==
  [v \in MemCallers |-> IF v # w /\ i \in caller[v].about
                          THEN [caller[v] EXCEPT !.moved = TRUE] ELSE caller[v]]

-----------------------------------------------------------------------------
MemInit ==
  /\ items = <<>> /\ lastId = 0 /\ memCalls = 0 /\ approved = {}
  /\ caller = [w \in MemCallers |-> NoCall]

WithRow(i, id, g) ==
  [j \in DOMAIN items \cup {i} |-> IF j = i THEN [id |-> id, grade |-> g, quarantined |-> Doubtful(g)]
                                   ELSE items[j]]

\* The INSERT of record_memory_item; the hash is UNIQUE.
InsertWithId(w, i, g, tool, id) ==
  /\ Free(w) /\ CallMade
  /\ LET call == [NoCall EXCEPT !.tool = tool, !.about = {i}, !.grade = g]
     IN IF Stored(i)
          THEN /\ caller' = [caller EXCEPT ![w] = [call EXCEPT !.at = "update"]]
               /\ UNCHANGED <<items, lastId, approved>>
          ELSE /\ items' = WithRow(i, id, g)
               /\ lastId' = id
               /\ caller' = [Moved(w, i) EXCEPT ![w] = [call EXCEPT !.at = "answer", !.id = id]]
               /\ approved' = approved \ {i}

\* Slip, for mutation: the id column without AUTOINCREMENT.
InsertReusingId(w, i, g, tool) ==
  InsertWithId(w, i, g, tool,
    CHOOSE n \in 1..lastId + 1 :
      /\ RowsWithId(n) = {}
      /\ \A m \in n..lastId : RowsWithId(m) = {}
      /\ n = 1 \/ RowsWithId(n - 1) # {})

Insert(w, i, g, tool) == InsertWithId(w, i, g, tool, lastId + 1)

Remember(w, i, g) == \E tool \in {"gateway", "context"} : Insert(w, i, g, tool)

\* sync_team_memory: record_memory_item for each record of the pull.
Pull(w, i) == Insert(w, i, RemoteGrade, "pull")

\* The UPDATE after the IntegrityError; the row may have been forgotten by now.
Update(w) ==
  /\ caller[w].at = "update"
  /\ \E i \in caller[w].about :
       IF Stored(i)
         THEN /\ items' = [items EXCEPT ![i].grade = caller[w].grade,
                                        ![i].quarantined = Doubtful(caller[w].grade)]
              /\ caller' = [Moved(w, i) EXCEPT ![w].at = "select"]
              /\ approved' = approved \ {i}
         ELSE caller' = [caller EXCEPT ![w].at = "select", ![w].moved = TRUE]
              /\ UNCHANGED <<items, approved>>
  /\ UNCHANGED <<lastId, memCalls>>

\* SELECT id: fetchone()[0] of no row raises, and the call fails.
SelectId(w) ==
  /\ caller[w].at = "select"
  /\ \E i \in caller[w].about :
       caller' = [caller EXCEPT ![w] = IF Stored(i) THEN [@ EXCEPT !.at = "answer", !.id = items[i].id]
                                       ELSE NoCall]
  /\ UNCHANGED <<items, lastId, memCalls, approved>>

Says(rows) == IF \E i \in rows : items[i].quarantined THEN "quarantined" ELSE "trusted"

\* Slip, for mutation: get_memory_item leaves quarantined rows out.
AnswerVisibleOnly(w) ==
  /\ caller[w].at = "answer"
  /\ caller' = [caller EXCEPT ![w].at = "answered",
                              ![w].said = Says({i \in RowsWithId(caller[w].id) : Visible(i)})]
  /\ UNCHANGED <<items, lastId, memCalls, approved>>

\* What a search for the text of i puts first: i, or another text with the same
\* words that it trusts no less.
First(i) ==
  {j \in DOMAIN items :
     \/ j = i
     \/ {i, j} \in SameWords /\ (Stored(i) /\ items[j].grade.low => items[i].grade.low)}

Ranked(w) == UNION {First(i) : i \in caller[w].about}
Shown(w) ==
  IF caller[w].tool = "gateway" THEN {RowsWithId(caller[w].id)}
  ELSE IF Ranked(w) = {} THEN {{}} ELSE {{j} : j \in Ranked(w)}

\* elite_memory reads the row by its id, remember_context searches for its
\* text; neither minds that there may be none.
Answer(w) ==
  /\ caller[w].at = "answer" /\ caller[w].tool # "pull"
  /\ \E rows \in Shown(w) :
       caller' = [caller EXCEPT ![w].at = "answered", ![w].said = Says(rows)]
  /\ UNCHANGED <<items, lastId, memCalls, approved>>

-----------------------------------------------------------------------------
\* Somebody reads an item and its id, in an answer or in the database.
LookAt(w, i) ==
  /\ Free(w) /\ CallMade /\ Stored(i)
  /\ caller' = [caller EXCEPT ![w] = [NoCall EXCEPT !.at = "looked", !.about = {i},
                                                    !.id = items[i].id]]
  /\ UNCHANGED <<items, lastId, approved>>

\* approve_memory_item: one UPDATE of the row with that id, if it is in
\* quarantine and not of a sensitive class; no such row is an error.
ApproveRows(w, rows) ==
  /\ caller[w].at = "looked"
  /\ items' = [i \in DOMAIN items |->
       IF i \in rows THEN [items[i] EXCEPT !.grade = [@ EXCEPT !.low = FALSE], !.quarantined = FALSE] ELSE items[i]]
  /\ IF rows = {}
       THEN caller' = [caller EXCEPT ![w] = NoCall] /\ UNCHANGED approved
       ELSE /\ caller' = [v \in MemCallers |->
                 IF v = w THEN [caller[w] EXCEPT !.at = "answered", !.tool = "approve",
                                                 !.said = "trusted", !.moved = FALSE]
                 ELSE [caller[v] EXCEPT !.moved = @ \/ rows \cap caller[v].about # {}]]
            /\ approved' = approved \cup caller[w].about
  /\ UNCHANGED <<lastId, memCalls>>

Approve(w) ==
  ApproveRows(w, {i \in RowsWithId(caller[w].id) :
                    items[i].quarantined /\ ~items[i].grade.sensitive})

\* delete_memory_item
Forget(w) ==
  /\ caller[w].at = "looked"
  /\ LET rows == RowsWithId(caller[w].id)
     IN /\ items' = [i \in DOMAIN items \ rows |-> items[i]]
        /\ caller' = [v \in MemCallers |->
             IF v = w THEN NoCall
             ELSE [caller[v] EXCEPT !.moved = @ \/ rows \cap caller[v].about # {}]]
  /\ UNCHANGED <<lastId, memCalls, approved>>

MemNext ==
  \E w \in MemCallers :
    \/ \E i \in LocalItems, g \in MemGrades : Remember(w, i, g)
    \/ \E i \in RemoteItems : Pull(w, i)
    \/ Update(w) \/ SelectId(w) \/ Answer(w)
    \/ \E i \in Items : LookAt(w, i)
    \/ Approve(w) \/ Forget(w)

MemSpec == MemInit /\ [][MemNext]_memVars

-----------------------------------------------------------------------------
MemTypeOK ==
  /\ DOMAIN items \subseteq Items
  /\ \A i \in DOMAIN items : items[i] \in Row /\ items[i].id \in 1..lastId
  /\ lastId \in Nat /\ memCalls \in 0..MaxMemCalls
  /\ caller \in [MemCallers ->
       [at : {"idle", "update", "select", "answer", "answered", "looked"},
        tool : {"gateway", "context", "pull", "approve"}, about : SUBSET Items, id : Nat,
        said : {"nothing", "quarantined", "trusted"}, grade : Grade, moved : BOOLEAN]]
  /\ approved \subseteq Items

\* What searches and context packs may show is of no sensitive class and
\* trusted, and a remote item, or a local one recorded with little confidence, is
\* shown only after one who had looked at that very item approved it, since it was
\* last recorded; in whatever order items are recorded again with other grades,
\* approved and forgotten by several processes. The id an approval carries never
\* comes to mean another item (record_memory_item, approve_memory_item;
\* AUTOINCREMENT of memory_items).
VisibleIsFit ==
  \A i \in DOMAIN items : Visible(i) =>
    /\ ~items[i].grade.sensitive /\ ~items[i].grade.low
    /\ i \in RemoteItems \/ items[i].grade.unsure => i \in approved

\* What elite_memory answers to remember and approve is so until somebody else
\* touches the item. remember_context may report on another item that has the
\* same words.
AnswerHolds ==
  \A w \in MemCallers : \A i \in caller[w].about :
    caller[w].at = "answered" /\ ~caller[w].moved =>
      \/ caller[w].said = IF Visible(i) THEN "trusted" ELSE "quarantined"
      \/ caller[w].tool = "context" /\ \E j \in Items : j # i /\ {i, j} \in SameWords
=============================================================================
