------------------------- MODULE EvidenceGateProofs -------------------------
(***************************************************************************)
(* Theorems about EvidenceGate, for every set of sessions, of trees, of    *)
(* contracts and of requests, and every window and bound.                  *)
(***************************************************************************)
EXTENDS EvidenceGate, SequenceTheorems, TLAPS

-----------------------------------------------------------------------------
(* The evidence table.                                                     *)

\* Deleting one position of a sequence keeps every other element, in a
\* sequence over the same set (the first half of INSERT OR REPLACE).
LEMMA RemoveAtKeeps ==
  ASSUME NEW S, NEW rows \in Seq(S), NEW i \in 1..Len(rows)
  PROVE  /\ RemoveAt(rows, i) \in Seq(S)
         /\ Len(RemoveAt(rows, i)) = Len(rows) - 1
         /\ \A j \in 1..(Len(rows) - 1) :
              RemoveAt(rows, i)[j] = IF j < i THEN rows[j] ELSE rows[j + 1]
<1> DEFINE front == SubSeq(rows, 1, i - 1)
           back == SubSeq(rows, i + 1, Len(rows))
<1>0. Len(rows) \in Nat /\ \A j \in 1..Len(rows) : rows[j] \in S
  BY LenProperties, ElementOfSeq
<1>1. /\ front \in Seq(S) /\ Len(front) = i - 1
      /\ \A j \in 1..(i - 1) : front[j] = rows[j]
  <2>1. \A j \in 1..(i - 1) : rows[j] \in S
    BY <1>0
  <2>2. /\ front \in Seq(S)
        /\ Len(front) = IF 1 <= i - 1 THEN i - 1 - 1 + 1 ELSE 0
        /\ \A j \in 1..(i - 1 - 1 + 1) : front[j] = rows[1 + j - 1]
    BY <1>0, <2>1, SubSeqProperties
  <2> HIDE DEF front
  <2> QED BY <1>0, <2>2
<1>2. /\ back \in Seq(S) /\ Len(back) = Len(rows) - i
      /\ \A j \in 1..(Len(rows) - i) : back[j] = rows[i + j]
  <2>1. \A j \in (i + 1)..Len(rows) : rows[j] \in S
    BY <1>0
  <2>2. /\ back \in Seq(S)
        /\ Len(back) = IF i + 1 <= Len(rows) THEN Len(rows) - (i + 1) + 1 ELSE 0
        /\ \A j \in 1..(Len(rows) - (i + 1) + 1) : back[j] = rows[i + 1 + j - 1]
    BY <1>0, <2>1, SubSeqProperties
  <2> HIDE DEF back
  <2> QED BY <1>0, <2>2
<1>3. RemoveAt(rows, i) = front \o back
  BY DEF RemoveAt
<1> HIDE DEF front, back
<1>4. /\ front \o back \in Seq(S)
      /\ Len(front \o back) = Len(front) + Len(back)
      /\ \A j \in 1..(Len(front) + Len(back)) :
           (front \o back)[j] = IF j <= Len(front) THEN front[j]
                                ELSE back[j - Len(front)]
  BY <1>1, <1>2, ConcatProperties
<1> QED BY <1>0, <1>1, <1>2, <1>3, <1>4

\* How one table follows from another: no row is dropped, the given row is
\* there, and no other row is new.
Keeps(old, new) == \A i \in DOMAIN old : \E j \in DOMAIN new : new[j] = old[i]
Holds(new, r) == \E j \in DOMAIN new : new[j] = r
AddsOnly(old, new, r) ==
  \A j \in DOMAIN new : new[j] = r \/ \E i \in DOMAIN old : new[j] = old[i]

\* Recording a row keeps the table well formed, drops no row, and adds none
\* but the one recorded.
LEMMA RecordEvidenceKeeps ==
  ASSUME NEW S, NEW rows \in Seq(S), NEW r \in S
  PROVE  /\ RecordEvidence(rows, r) \in Seq(S)
         /\ Keeps(rows, RecordEvidence(rows, r))
         /\ Holds(RecordEvidence(rows, r), r)
         /\ AddsOnly(rows, RecordEvidence(rows, r), r)
<1>0. Len(rows) \in Nat /\ DOMAIN rows = 1..Len(rows)
  BY LenProperties
<1>1. CASE \E i \in DOMAIN rows : rows[i] = r
  <2> DEFINE i == CHOOSE k \in DOMAIN rows : rows[k] = r
             kept == RemoveAt(rows, i)
  <2>1. i \in 1..Len(rows) /\ rows[i] = r
    BY <1>0, <1>1
  <2>2. RecordEvidence(rows, r) = Append(kept, r)
    BY <1>1 DEF RecordEvidence
  <2> HIDE DEF i
  <2>3. /\ kept \in Seq(S) /\ Len(kept) = Len(rows) - 1
        /\ \A j \in 1..(Len(rows) - 1) :
             kept[j] = IF j < i THEN rows[j] ELSE rows[j + 1]
    BY <2>1, RemoveAtKeeps
  <2> HIDE DEF kept
  <2> DEFINE new == Append(kept, r)
  <2>4. /\ new \in Seq(S) /\ Len(new) = Len(kept) + 1
        /\ \A j \in 1..Len(kept) : new[j] = kept[j]
        /\ new[Len(kept) + 1] = r
    BY <2>3, AppendProperties
  <2>5. RecordEvidence(rows, r) = new
    BY <2>2
  <2> HIDE DEF new
  <2>6. DOMAIN new = 1..Len(new)
    BY <2>4, LenProperties
  <2>7. Len(new) = Len(rows) /\ new[Len(rows)] = r
    BY <1>0, <2>1, <2>3, <2>4
  <2>8. \A j \in 1..(Len(rows) - 1) : new[j] = IF j < i THEN rows[j] ELSE rows[j + 1]
    BY <1>0, <2>3, <2>4
  <2>9. ASSUME NEW k \in 1..Len(rows)
        PROVE  \E j \in 1..Len(rows) : new[j] = rows[k]
    <3>1. CASE k = i
      BY <1>0, <2>1, <2>7, <3>1
    <3>2. CASE k < i
      <4>1. k \in 1..(Len(rows) - 1)
        BY <1>0, <2>1, <3>2
      <4> QED BY <2>8, <3>2, <4>1
    <3>3. CASE k > i
      <4>1. k - 1 \in 1..(Len(rows) - 1) /\ ~(k - 1 < i) /\ (k - 1) + 1 = k
        BY <1>0, <2>1, <3>3
      <4>2. new[k - 1] = rows[k]
        BY <2>8, <4>1
      <4> QED BY <1>0, <4>1, <4>2
    <3> QED BY <1>0, <2>1, <3>1, <3>2, <3>3
  <2>10. ASSUME NEW j \in 1..Len(rows)
         PROVE  new[j] = r \/ \E k \in 1..Len(rows) : new[j] = rows[k]
    <3>1. CASE j = Len(rows)
      BY <2>7, <3>1
    <3>2. CASE j # Len(rows)
      <4>1. \A n \in Nat : \A m \in 1..n : m # n => m \in 1..(n - 1) /\ m + 1 \in 1..n
        OBVIOUS
      <4>2. j \in 1..(Len(rows) - 1) /\ j + 1 \in 1..Len(rows)
        BY <1>0, <3>2, <4>1, Zenon
      <4> QED BY <2>8, <4>2
    <3> QED BY <3>1, <3>2
  <2>11. \E j \in 1..Len(rows) : new[j] = r
    BY <1>0, <2>1, <2>7
  <2>12. DOMAIN RecordEvidence(rows, r) = 1..Len(rows)
    BY <2>5, <2>6, <2>7
  <2>13. \A k \in DOMAIN rows : \E j \in DOMAIN RecordEvidence(rows, r) :
            RecordEvidence(rows, r)[j] = rows[k]
    BY <1>0, <2>5, <2>9, <2>12, Zenon
  <2>14. \E j \in DOMAIN RecordEvidence(rows, r) : RecordEvidence(rows, r)[j] = r
    BY <2>5, <2>11, <2>12, Zenon
  <2>15. \A j \in DOMAIN RecordEvidence(rows, r) :
            \/ RecordEvidence(rows, r)[j] = r
            \/ \E k \in DOMAIN rows : RecordEvidence(rows, r)[j] = rows[k]
    BY <1>0, <2>5, <2>10, <2>12, Zenon
  <2>16. RecordEvidence(rows, r) \in Seq(S)
    BY <2>4, <2>5
  <2> QED BY <2>13, <2>14, <2>15, <2>16, Zenon DEF Keeps, Holds, AddsOnly
<1>2. CASE ~ \E i \in DOMAIN rows : rows[i] = r
  <2>1. RecordEvidence(rows, r) = Append(rows, r)
    BY <1>2 DEF RecordEvidence
  <2>2. /\ Append(rows, r) \in Seq(S)
        /\ Len(Append(rows, r)) = Len(rows) + 1
        /\ \A j \in 1..Len(rows) : Append(rows, r)[j] = rows[j]
        /\ Append(rows, r)[Len(rows) + 1] = r
    BY AppendProperties
  <2>3. DOMAIN Append(rows, r) = 1..(Len(rows) + 1)
    BY <1>0, <2>2, LenProperties
  <2> QED BY <1>0, <2>1, <2>2, <2>3 DEF Keeps, Holds, AddsOnly
<1> QED BY <1>1, <1>2

-----------------------------------------------------------------------------
(* Types of what the handlers compute.                                     *)

Labels == {"syntax", "run_tests", "scope_files", "draft"}

\* Adding an unmet item to a row keeps its kind and its digest and fails it.
LEMMA UnmetFails ==
  ASSUME NEW row \in Record, NEW label \in Labels
  PROVE  /\ Unmet(row, label) \in Record
         /\ Unmet(row, label).kind = row.kind
         /\ Unmet(row, label).digest = row.digest
         /\ Unmet(row, label).status = "FAIL"
  BY DEF Unmet, Record, Labels

\* A built row has the type of a record and the fields it was built from.
LEMMA RowType ==
  ASSUME NEW kind \in Checks, NEW digest \in Digests,
         NEW status \in {"PASS", "FAIL", "UNKNOWN", "NOT_CHECKED"}
  PROVE  /\ Row(kind, status, digest) \in Record
         /\ Row(kind, status, digest).kind = kind
         /\ Row(kind, status, digest).status = status
         /\ Row(kind, status, digest).digest = digest
  BY DEF Row, Record

\* A snapshot is the digest of the worktree or no digest.
LEMMA SnapshotType ==
  ASSUME TypeOK
  PROVE  /\ WorktreeDigest \in Trees \cup {Clean} /\ WorktreeDigest # NoDigest
         /\ \A d \in Snapshots : d \in Digests /\ d \in {WorktreeDigest, NoDigest}
  BY TreesAssumption DEF TypeOK, WorktreeDigest, Snapshots, Digests

\* What the gate reads is a stored passing row of the kind it asks for.
LEMMA NewestPassIsStored ==
  ASSUME TypeOK, NEW kind, NEW r \in NewestPass(evidence, kind)
  PROVE  /\ r \in Record /\ r.kind = kind /\ r.status = "PASS"
         /\ \E i \in DOMAIN evidence : evidence[i] = r
<1>1. PICK i \in DOMAIN evidence :
        r = evidence[i] /\ evidence[i].kind = kind /\ evidence[i].status = "PASS"
  BY DEF NewestPass, RecentOf
<1>2. evidence[i] \in Record
  BY LenProperties, ElementOfSeq DEF TypeOK
<1> QED BY <1>1, <1>2

\* The directive names one of the five checkpoints.
LEMMA ContinuationType ==
  ASSUME NEW c, NEW rows
  PROVE  NextContinuation(c, rows) \in Checkpoints
  BY DEF NextContinuation, Checkpoints

\* The gate goes on to a stage of its own or to the record.
LEMMA AfterType ==
  /\ AfterTests \in {"gate_scope", "record"}
  /\ AfterSyntax \in {"gate_tests", "gate_scope", "record"}
  BY DEF AfterTests, AfterSyntax

-----------------------------------------------------------------------------
(* Type correctness.                                                       *)

LEMMA TypeInit == Init => TypeOK
<1> SUFFICES ASSUME Init PROVE TypeOK
  OBVIOUS
<1>1. Blank \in Record
  BY RowType DEF Blank, Checks, Digests
<1>2. directive \in [Sessions -> Checkpoints]
  BY ContinuationType DEF Init
<1>3. evidence \in Seq(Record)
  BY EmptySeq DEF Init
<1> QED
  BY <1>1, <1>2, <1>3, TreesAssumption, BoundsAssumption
  DEF Init, TypeOK, Digests, SessionStates

\* What the beginning of a call does to the types.
LEMMA TypeCall ==
  ASSUME TypeOK, NEW s \in Sessions, Call(s)
  PROVE  TypeOK'
<1>1. PICK q \in Requests :
        \/ CheckSyntax(s, q.root, q.valid)
        \/ CheckDiff(s, q.root, q.policy)
        \/ CheckTests(s, q.root)
        \/ CheckOutcomes(s, q.root, q.missing)
  BY DEF Call
<1>2. /\ q.root \in BOOLEAN /\ q.valid \in BOOLEAN
      /\ q.policy \in {"contract", "other"}
      /\ q.missing \subseteq {"run_tests", "scope_files", "draft"}
  BY RequestsAssumption
<1>3. \A root \in BOOLEAN : \A d \in IF root THEN Snapshots ELSE {NoDigest} : d \in Digests
  BY SnapshotType DEF Digests
<1>4. CASE CheckSyntax(s, q.root, q.valid)
  <2>1. PICK d \in Digests :
          pending' = [pending EXCEPT ![s] = Row("syntax", StatusFromBool(q.valid), d)]
    BY <1>2, <1>3, <1>4 DEF CheckSyntax
  <2>2. Row("syntax", StatusFromBool(q.valid), d) \in Record
    BY RowType DEF Checks, StatusFromBool
  <2> QED
    BY <1>2, <1>4, <2>1, <2>2
    DEF TypeOK, CheckSyntax, Begin, Goto, SessionStates, world, history
<1>5. CASE CheckDiff(s, q.root, q.policy)
  <2>1. PICK d \in Digests : \E verdict \in DiffVerdicts(q.root, d, q.policy) :
          pending' = [pending EXCEPT
            ![s] = [Row("diff", verdict, d) EXCEPT !.policy = q.policy]]
    BY <1>2, <1>3, <1>5 DEF CheckDiff
  <2>a. PICK verdict \in DiffVerdicts(q.root, d, q.policy) :
          pending' = [pending EXCEPT
            ![s] = [Row("diff", verdict, d) EXCEPT !.policy = q.policy]]
    BY <2>1
  <2>2. verdict \in {"PASS", "FAIL", "UNKNOWN", "NOT_CHECKED"}
    BY <1>2 DEF DiffVerdicts, StatusFromBool
  <2>3. [Row("diff", verdict, d) EXCEPT !.policy = q.policy] \in Record
    BY <1>2, <2>2 DEF Row, Record, Checks
  <2> QED
    BY <1>2, <1>5, <2>a, <2>3
    DEF TypeOK, CheckDiff, Begin, Goto, SessionStates, world, history
<1>6. CASE CheckTests(s, q.root)
  <2>1. Row("tests", "UNKNOWN", NoDigest) \in Record
    BY RowType DEF Checks, Digests
  <2> QED
    BY <1>2, <1>6, <2>1
    DEF TypeOK, CheckTests, Begin, Goto, SessionStates, world, history
<1>7. CASE CheckOutcomes(s, q.root, q.missing)
  <2>1. [Row("outcomes", StatusFromBool(q.missing = {}), NoDigest)
           EXCEPT !.unmet = q.missing] \in Record
    BY <1>2 DEF Row, Record, Checks, Digests, StatusFromBool
  <2>2. (IF IsCode(contract) THEN "gate_syntax" ELSE "record") \in SessionStates
    BY DEF SessionStates
  <2> QED
    BY <1>2, <1>7, <2>1, <2>2
    DEF TypeOK, CheckOutcomes, Begin, Goto, world, history
<1> QED BY <1>1, <1>4, <1>5, <1>6, <1>7

\* What the collection of test evidence and the stages of the gate do.
LEMMA TypeHandle ==
  ASSUME TypeOK, NEW s \in Sessions,
         \/ RunCommand(s) \/ PostSnapshot(s)
         \/ GateSyntax(s) \/ GateSyntaxSnapshot(s)
         \/ GateTests(s) \/ GateTestsSnapshot(s)
         \/ GateScope(s) \/ GateDiff(s)
  PROVE  TypeOK'
<1>1. CASE RunCommand(s)
  <2>1. PICK verdict \in CommandVerdicts(rooted[s], repo) :
          pending' = [pending EXCEPT ![s].status = verdict]
    BY <1>1 DEF RunCommand
  <2>2. verdict \in {"PASS", "FAIL", "UNKNOWN", "NOT_CHECKED"}
    BY DEF CommandVerdicts
  <2>3. pending[s] \in Record /\ [pending[s] EXCEPT !.status = verdict] \in Record
    <3>1. pending[s] \in Record
      BY DEF TypeOK
    <3> QED BY <2>2, <3>1 DEF Record
  <2>4. pending' \in [Sessions -> Record]
    BY <2>1, <2>3 DEF TypeOK
  <2>5. pc' \in [Sessions -> SessionStates]
    BY <1>1 DEF TypeOK, RunCommand, Goto, SessionStates
  <2> QED
    BY <1>1, <2>4, <2>5 DEF TypeOK, RunCommand, world, recorded, history
<1>2. CASE PostSnapshot(s)
  <2>1. PICK d \in Snapshots : pending' = [pending EXCEPT ![s].digest = d]
    BY <1>2 DEF PostSnapshot
  <2>2. pending[s] \in Record /\ [pending[s] EXCEPT !.digest = d] \in Record
    BY SnapshotType DEF TypeOK, Record
  <2>3. pending' \in [Sessions -> Record]
    BY <2>1, <2>2 DEF TypeOK
  <2> QED
    BY <1>2, <2>3
    DEF TypeOK, PostSnapshot, Goto, SessionStates, world, recorded, history
<1>3. ASSUME NEW label \in Labels
      PROVE  Unmet(pending[s], label) \in Record
  BY UnmetFails DEF TypeOK
<1>4. CASE GateSyntax(s)
  <2>1. pending' \in [Sessions -> Record]
    BY <1>4, <1>3 DEF TypeOK, GateSyntax, Labels
  <2>2. pc' \in [Sessions -> SessionStates]
    BY <1>4, AfterType DEF TypeOK, GateSyntax, Goto, SessionStates
  <2>3. expected' \in [Sessions -> Digests]
    BY <1>4, NewestPassIsStored DEF TypeOK, GateSyntax, Record
  <2> QED
    BY <1>4, <2>1, <2>2, <2>3 DEF TypeOK, GateSyntax, world, recorded, history
<1>5. CASE GateSyntaxSnapshot(s)
  <2>1. pending' \in [Sessions -> Record]
    BY <1>5, <1>3 DEF TypeOK, GateSyntaxSnapshot, Labels
  <2>3. agreed' \in [Sessions -> SUBSET Digests]
    BY <1>5, SnapshotType DEF TypeOK, GateSyntaxSnapshot
  <2>2. pc' \in [Sessions -> SessionStates]
    BY <1>5, AfterType DEF TypeOK, GateSyntaxSnapshot, Goto, SessionStates
  <2> QED
    BY <1>5, <2>1, <2>2, <2>3
    DEF TypeOK, GateSyntaxSnapshot, Digests, world, recorded, history
<1>6. CASE GateTests(s)
  <2>1. pending' \in [Sessions -> Record]
    BY <1>6, <1>3 DEF TypeOK, GateTests, Labels
  <2>2. pc' \in [Sessions -> SessionStates]
    BY <1>6, AfterType DEF TypeOK, GateTests, Goto, SessionStates
  <2>3. expected' \in [Sessions -> Digests]
    BY <1>6, NewestPassIsStored DEF TypeOK, GateTests, Record
  <2> QED
    BY <1>6, <2>1, <2>2, <2>3 DEF TypeOK, GateTests, world, recorded, history
<1>7. CASE GateTestsSnapshot(s)
  <2>1. PICK d \in Snapshots :
          IF d = expected[s]
          THEN /\ pending' = [pending EXCEPT ![s].digest = d]
               /\ agreed' = [agreed EXCEPT ![s] = @ \cup {d}]
          ELSE /\ pending' = [pending EXCEPT
                    ![s] = [Unmet(@, "run_tests") EXCEPT !.digest = d]]
               /\ UNCHANGED agreed
    BY <1>7 DEF GateTestsSnapshot
  <2>2. d \in Digests
    BY SnapshotType
  <2>3. /\ pending[s] \in Record
        /\ [pending[s] EXCEPT !.digest = d] \in Record
        /\ [Unmet(pending[s], "run_tests") EXCEPT !.digest = d] \in Record
    BY <2>2, <1>3 DEF TypeOK, Record, Labels
  <2>4. pending' \in [Sessions -> Record]
    BY <2>1, <2>3 DEF TypeOK
  <2>6. agreed' \in [Sessions -> SUBSET Digests]
    BY <2>1, <2>2 DEF TypeOK
  <2>5. pc' \in [Sessions -> SessionStates]
    BY <1>7, AfterType DEF TypeOK, GateTestsSnapshot, Goto, SessionStates
  <2> QED
    BY <1>7, <2>4, <2>5, <2>6
    DEF TypeOK, GateTestsSnapshot, Digests, world, recorded, history
<1>8. CASE GateScope(s)
  <2>1. /\ pending' \in [Sessions -> Record]
        /\ expected' \in [Sessions -> Digests]
    BY <1>8, <1>3, SnapshotType DEF TypeOK, GateScope, Labels
  <2>2. pc' \in [Sessions -> SessionStates]
    BY <1>8 DEF TypeOK, GateScope, Goto, SessionStates
  <2> QED
    BY <1>8, <2>1, <2>2 DEF TypeOK, GateScope, world, recorded, history
<1>9. CASE GateDiff(s)
  <2>1. pending' \in [Sessions -> Record]
    BY <1>9, <1>3 DEF TypeOK, GateDiff, Labels
  <2>2. agreed' \in [Sessions -> SUBSET Digests]
    BY <1>9 DEF TypeOK, GateDiff
  <2> QED
    BY <1>9, <2>1, <2>2
    DEF TypeOK, GateDiff, Goto, SessionStates, world, recorded, history
<1> QED BY <1>1, <1>2, <1>4, <1>5, <1>6, <1>7, <1>8, <1>9

\* What the end of a call does, and everything that is not a call.
LEMMA TypeRest ==
  ASSUME TypeOK,
         \/ Edit \/ Commit
         \/ \E s \in Sessions :
              PersistCheckedResult(s) \/ Respond(s) \/ Status(s) \/ Crash(s)
  PROVE  TypeOK'
<1>1. CASE Edit
  BY <1>1, BoundsAssumption DEF TypeOK, Edit, Move, history
<1>2. CASE Commit
  BY <1>2, BoundsAssumption DEF TypeOK, Commit, Move, history
<1>3. ASSUME NEW s \in Sessions, Discard(s), Goto(s, "respond") \/ Goto(s, "idle")
      PROVE  /\ pc' \in [Sessions -> SessionStates]
             /\ rooted' \in [Sessions -> BOOLEAN]
             /\ pending' \in [Sessions -> Record]
             /\ expected' \in [Sessions -> Digests]
             /\ ran' \in [Sessions -> Trees \cup {NoDigest}]
             /\ disturbed' \in [Sessions -> BOOLEAN]
             /\ agreed' \in [Sessions -> SUBSET Digests]
  <2>1. Blank \in Record
    BY RowType DEF Blank, Checks, Digests
  <2> QED BY <1>3, <2>1 DEF TypeOK, Discard, Goto, SessionStates, Digests
<1>4. ASSUME NEW s \in Sessions, PersistCheckedResult(s)
      PROVE  TypeOK'
  <2>1. evidence' \in Seq(Record)
    BY <1>4, RecordEvidenceKeeps DEF PersistCheckedResult, TypeOK
  <2>2. /\ pending[s] \in Record /\ pending[s].digest \in Digests
        /\ ran[s] \in Trees \cup {NoDigest} /\ agreed[s] \subseteq Digests
        /\ rooted[s] \in BOOLEAN /\ disturbed[s] \in BOOLEAN
    BY DEF TypeOK, Record
  <2>3. /\ tested' \subseteq Digests \X (Trees \cup {NoDigest})
        /\ tainted' \subseteq Digests
        /\ accepted' \subseteq Acceptance
    <3>1. <<pending[s].digest, ran[s]>> \in Digests \X (Trees \cup {NoDigest})
      BY <2>2
    <3>2. [rooted |-> rooted[s], agreed |-> agreed[s], tree |-> ran[s],
           quiet |-> ~disturbed[s]] \in Acceptance
      BY <2>2 DEF Acceptance
    <3>3. tested' \in {tested, tested \cup {<<pending[s].digest, ran[s]>>}}
      BY <1>4 DEF PersistCheckedResult
    <3>4. tainted' \in {tainted, tainted \cup {pending[s].digest}}
      BY <1>4 DEF PersistCheckedResult
    <3>5. accepted' \in {accepted, {[rooted |-> rooted[s], agreed |-> agreed[s],
                                     tree |-> ran[s], quiet |-> ~disturbed[s]]}}
      BY <1>4 DEF PersistCheckedResult
    <3> QED BY <2>2, <3>1, <3>2, <3>3, <3>4, <3>5 DEF TypeOK
  <2>4. Discard(s) /\ Goto(s, "respond")
    BY <1>4 DEF PersistCheckedResult
  <2> QED
    BY <1>4, <1>3, <2>1, <2>3, <2>4 DEF PersistCheckedResult, TypeOK, world
<1>5. ASSUME NEW s \in Sessions, Respond(s)
      PROVE  TypeOK'
  BY <1>5, ContinuationType DEF TypeOK, Respond, Goto, SessionStates, world, history
<1>6. ASSUME NEW s \in Sessions, Status(s)
      PROVE  TypeOK'
  BY <1>6, ContinuationType DEF TypeOK, Status, world, local, history
<1>7. ASSUME NEW s \in Sessions, Crash(s)
      PROVE  TypeOK'
  <2>1. Discard(s) /\ Goto(s, "idle")
    BY <1>7 DEF Crash
  <2> QED BY <1>7, <1>3, <2>1 DEF TypeOK, Crash, world, history
<1> QED BY <1>1, <1>2, <1>4, <1>5, <1>6, <1>7

LEMMA TypeNext == TypeOK /\ [Next]_vars => TypeOK'
<1> SUFFICES ASSUME TypeOK, [Next]_vars PROVE TypeOK'
  OBVIOUS
<1>1. CASE UNCHANGED vars
  BY <1>1 DEF vars, TypeOK
<1>2. CASE Next
  BY <1>2, TypeCall, TypeHandle, TypeRest DEF Next, Handle
<1> QED BY <1>1, <1>2

\* Every variable has its type in every reachable state.
THEOREM TypeCorrect == Spec => []TypeOK
  BY TypeInit, TypeNext, PTL DEF Spec

-----------------------------------------------------------------------------
(* GateSound. It is not inductive: that an outcome about to be recorded as  *)
(* passing was compared with the worktree depends on the stages the gate   *)
(* has been through, and on rows never disappearing in between.            *)

\* Digests that stored passing rows are bound to.
SyntaxDigests == {d \in Digests \ {NoDigest} : Attested("syntax", d)}
TestsDigests == {d \in Digests \ {NoDigest} : Attested("tests", d)}
ScopeDigests ==
  {d \in Digests \ {NoDigest} :
     /\ WithinScope(d)
     /\ \E i \in DOMAIN evidence :
          /\ evidence[i].kind = "diff" /\ evidence[i].status = "PASS"
          /\ evidence[i].policy = "contract" /\ evidence[i].digest = d}

GateStages == {"gate_syntax", "gate_syntax_snapshot", "gate_tests",
               "gate_tests_snapshot", "gate_scope", "gate_diff"}
PastTests == {"gate_scope", "gate_diff", "record"}
PastSyntax == {"gate_tests", "gate_tests_snapshot"} \cup PastTests

\* The digest a stage is about to compare comes from a stored passing row.
ReadInv(s) ==
  /\ pc[s] \in {"command", "post_snapshot"} => pending[s].kind = "tests"
  /\ pc[s] \in GateStages => pending[s].kind = "outcomes"
  /\ pc[s] = "gate_syntax_snapshot" => expected[s] \in SyntaxDigests
  /\ pc[s] = "gate_tests_snapshot" => expected[s] \in TestsDigests

\* An outcome that has not failed yet has passed the stages behind it.
PromiseInv(s) ==
  pending[s].kind = "outcomes" /\ pending[s].status = "PASS" =>
    /\ pc[s] \in PastSyntax /\ IsCode(contract) /\ rooted[s] =>
         \E d \in agreed[s] : d \in SyntaxDigests
    /\ pc[s] \in PastTests /\ "run_tests" \in contract.kinds =>
         \E d \in agreed[s] : d \in TestsDigests
    /\ pc[s] = "gate_diff" => WithinScope(expected[s])
    /\ pc[s] = "record" /\ "scope_files" \in contract.kinds =>
         \E d \in agreed[s] : d \in ScopeDigests

\* What an undisturbed call compared is the digest of the worktree now.
QuietInv(s) ==
  pc[s] \notin {"idle", "respond"} /\ ~disturbed[s] =>
    /\ \A d \in agreed[s] : d = WorktreeDigest
    /\ pc[s] = "gate_diff" => expected[s] \in {WorktreeDigest, NoDigest}

SessionInv(s) == ReadInv(s) /\ PromiseInv(s) /\ QuietInv(s)

\* GateSound, in terms of those digests.
AcceptedInv ==
  \A a \in accepted :
    /\ "run_tests" \in contract.kinds => \E d \in a.agreed : d \in TestsDigests
    /\ "scope_files" \in contract.kinds => \E d \in a.agreed : d \in ScopeDigests
    /\ IsCode(contract) /\ a.rooted => \E d \in a.agreed : d \in SyntaxDigests
    /\ a.quiet => \A d, e \in a.agreed : d = e

GateInv == AcceptedInv /\ \A s \in Sessions : SessionInv(s)

-----------------------------------------------------------------------------
(* TestRowsSound and DoneIsEarned, each with what makes it inductive.      *)

\* A test row on its way to the table is as sound as the recorded ones.
PendingTestInv(s) ==
  /\ pc[s] = "command" => pending[s] = Row("tests", "UNKNOWN", NoDigest)
  /\ pc[s] = "post_snapshot" => pending[s].kind = "tests"
  /\ pc[s] \in {"post_snapshot", "record"} /\ pending[s].kind = "tests"
       /\ pending[s].status = "PASS" =>
       /\ pc[s] = "post_snapshot" \/ pending[s].digest # NoDigest =>
            ran[s] \in Green
       /\ pc[s] = "post_snapshot" /\ ~disturbed[s] => ran[s] = repo
       /\ pc[s] = "record" /\ ~disturbed[s] =>
            pending[s].digest \in {ran[s], Clean, NoDigest}
  /\ pc[s] \in GateStages => pending[s].kind = "outcomes"

TestsInv == TestRowsSound /\ \A s \in Sessions : PendingTestInv(s)

\* Passing outcomes in the table have passed the gate.
EarnedInv ==
  /\ DoneIsEarned
  /\ (\E i \in DOMAIN evidence :
        evidence[i].kind = "outcomes" /\ evidence[i].status = "PASS") =>
       accepted # {}

-----------------------------------------------------------------------------
(* What single steps do to the table.                                      *)

\* Only the end of a call changes the table and the history kept about it.
LEMMA OnlyPersistRecords ==
  ASSUME [Next]_vars
  PROVE  \/ \E s \in Sessions : PersistCheckedResult(s)
         \/ UNCHANGED <<evidence, accepted, tested, tainted>>
<1>1. CASE UNCHANGED vars
  BY <1>1 DEF vars
<1>2. CASE Edit \/ Commit
  BY <1>2 DEF Edit, Commit, history
<1>3. ASSUME NEW s \in Sessions, Call(s)
      PROVE  UNCHANGED <<evidence, accepted, tested, tainted>>
  BY <1>3 DEF Call, CheckSyntax, CheckDiff, CheckTests, CheckOutcomes, Begin, history
<1>4. ASSUME NEW s \in Sessions, Status(s) \/ Respond(s) \/ Crash(s)
      PROVE  UNCHANGED <<evidence, accepted, tested, tainted>>
  BY <1>4 DEF Status, Respond, Crash, history
<1>5. ASSUME NEW s \in Sessions,
             \/ RunCommand(s) \/ PostSnapshot(s)
             \/ GateSyntax(s) \/ GateSyntaxSnapshot(s)
             \/ GateTests(s) \/ GateTestsSnapshot(s)
             \/ GateScope(s) \/ GateDiff(s)
      PROVE  UNCHANGED <<evidence, accepted, tested, tainted>>
  BY <1>5 DEF RunCommand, PostSnapshot, GateSyntax, GateSyntaxSnapshot, GateTests,
              GateTestsSnapshot, GateScope, GateDiff, recorded, history
<1> QED BY <1>1, <1>2, <1>3, <1>4, <1>5 DEF Next, Handle

\* Only a response changes a directive, to the one the table asks for.
LEMMA OnlyResponseDirects ==
  ASSUME TypeOK, [Next]_vars, NEW s \in Sessions
  PROVE  \/ directive'[s] = directive[s]
         \/ directive'[s] = NextContinuation(contract, evidence)
<1>1. CASE UNCHANGED vars
  BY <1>1 DEF vars
<1>2. CASE Edit \/ Commit
  BY <1>2 DEF Edit, Commit
<1>3. ASSUME NEW t \in Sessions, Call(t)
      PROVE  directive' = directive
  BY <1>3 DEF Call, CheckSyntax, CheckDiff, CheckTests, CheckOutcomes, Begin
<1>4. ASSUME NEW t \in Sessions, Status(t) \/ Respond(t)
      PROVE  directive'[s] \in {directive[s], NextContinuation(contract, evidence)}
  BY <1>4 DEF Status, Respond, TypeOK
<1>5. ASSUME NEW t \in Sessions,
             \/ RunCommand(t) \/ PostSnapshot(t)
             \/ GateSyntax(t) \/ GateSyntaxSnapshot(t)
             \/ GateTests(t) \/ GateTestsSnapshot(t)
             \/ GateScope(t) \/ GateDiff(t)
             \/ PersistCheckedResult(t) \/ Crash(t)
      PROVE  directive' = directive
  BY <1>5 DEF RunCommand, PostSnapshot, GateSyntax, GateSyntaxSnapshot, GateTests,
              GateTestsSnapshot, GateScope, GateDiff, PersistCheckedResult, Crash,
              recorded
<1> QED BY <1>1, <1>2, <1>3, <1>4, <1>5 DEF Next, Handle

\* What PersistCheckedResult does to the table, in terms of single rows.
LEMMA PersistKeeps ==
  ASSUME TypeOK, NEW s \in Sessions, PersistCheckedResult(s)
  PROVE  /\ evidence' \in Seq(Record)
         /\ Keeps(evidence, evidence')
         /\ Holds(evidence', pending[s])
         /\ AddsOnly(evidence, evidence', pending[s])
<1>1. evidence \in Seq(Record) /\ pending[s] \in Record
  BY DEF TypeOK
<1>2. evidence' = RecordEvidence(evidence, pending[s])
  BY DEF PersistCheckedResult
<1> QED BY <1>1, <1>2, RecordEvidenceKeeps

\* Evidence is never lost: no step of any session, a crash or a retry included,
\* drops a row (persistent_store.py record_workflow_evidence).
THEOREM EvidenceIsKept == Spec => EvidenceKept
<1>1. TypeOK /\ [Next]_vars => ToSet(evidence) \subseteq ToSet(evidence')
  <2> SUFFICES ASSUME TypeOK, [Next]_vars
               PROVE  ToSet(evidence) \subseteq ToSet(evidence')
    OBVIOUS
  <2>1. CASE UNCHANGED evidence
    BY <2>1
  <2>2. ASSUME NEW s \in Sessions, PersistCheckedResult(s)
        PROVE  ToSet(evidence) \subseteq ToSet(evidence')
    BY <2>2, PersistKeeps, Zenon DEF ToSet, Keeps
  <2> QED BY <2>1, <2>2, OnlyPersistRecords
<1>2. TypeOK /\ [Next]_vars => [ToSet(evidence) \subseteq ToSet(evidence')]_vars
  BY <1>1
<1> QED BY <1>2, TypeCorrect, PTL DEF Spec, EvidenceKept

-----------------------------------------------------------------------------
(* DoneIsEarned.                                                           *)

\* A directive says done only over a table with a passing outcome.
LEMMA DoneHasOutcome ==
  ASSUME NEW c, NEW rows, NextContinuation(c, rows) = "done"
  PROVE  \E i \in DOMAIN rows : rows[i].kind = "outcomes" /\ rows[i].status = "PASS"
<1>1. Passing(rows, "outcomes") # 0
  BY DEF NextContinuation
<1>2. {i \in Window(rows) : rows[i].kind = "outcomes" /\ rows[i].status = "PASS"} # {}
  BY <1>1 DEF Passing, Newest
<1> QED BY <1>2 DEF Window

LEMMA EarnedInit == Init => EarnedInv
<1> SUFFICES ASSUME Init PROVE EarnedInv
  OBVIOUS
<1>1. ~ \E i \in DOMAIN evidence :
          evidence[i].kind = "outcomes" /\ evidence[i].status = "PASS"
  BY DEF Init
<1>2. \A s \in Sessions : directive[s] = NextContinuation(contract, evidence)
  BY DEF Init
<1> QED BY <1>1, <1>2, DoneHasOutcome DEF EarnedInv, DoneIsEarned

LEMMA EarnedNext == TypeOK /\ EarnedInv /\ [Next]_vars => EarnedInv'
<1> SUFFICES ASSUME TypeOK, EarnedInv, [Next]_vars PROVE EarnedInv'
  OBVIOUS
<1>1. accepted # {} => accepted' # {}
  BY OnlyPersistRecords DEF PersistCheckedResult
<1>2. (\E i \in DOMAIN evidence' :
         evidence'[i].kind = "outcomes" /\ evidence'[i].status = "PASS") =>
        accepted' # {}
  <2>1. CASE UNCHANGED <<evidence, accepted>>
    BY <2>1 DEF EarnedInv
  <2>2. ASSUME NEW s \in Sessions, PersistCheckedResult(s),
               NEW j \in DOMAIN evidence',
               evidence'[j].kind = "outcomes", evidence'[j].status = "PASS"
        PROVE  accepted' # {}
    <3>1. CASE evidence'[j] = pending[s]
      BY <2>2, <3>1 DEF PersistCheckedResult
    <3>2. CASE \E i \in DOMAIN evidence : evidence'[j] = evidence[i]
      BY <1>1, <2>2, <3>2 DEF EarnedInv
    <3> QED BY <2>2, <3>1, <3>2, PersistKeeps DEF AddsOnly
  <2> QED BY <2>1, <2>2, OnlyPersistRecords
<1>3. ASSUME NEW s \in Sessions, directive'[s] = "done"
      PROVE  accepted' # {}
  <2>1. CASE directive[s] = "done"
    BY <1>1, <2>1 DEF EarnedInv, DoneIsEarned
  <2>2. CASE NextContinuation(contract, evidence) = "done"
    BY <1>1, <2>2, DoneHasOutcome DEF EarnedInv
  <2> QED BY <1>3, <2>1, <2>2, OnlyResponseDirects
<1> QED BY <1>2, <1>3 DEF EarnedInv, DoneIsEarned

\* No host is told that it may answer before some outcome passed the gate,
\* for any contract, any requests and any number of sessions.
THEOREM DoneEarned == Spec => []DoneIsEarned
<1>1. EarnedInv => DoneIsEarned
  BY DEF EarnedInv
<1> QED BY <1>1, EarnedInit, EarnedNext, TypeCorrect, PTL DEF Spec

-----------------------------------------------------------------------------
(* The proof of GateSound.                                                 *)

\* The contract never changes and the digests of passing rows are never lost.
LEMMA DigestsGrow ==
  ASSUME TypeOK, [Next]_vars
  PROVE  /\ contract' = contract
         /\ SyntaxDigests \subseteq SyntaxDigests'
         /\ TestsDigests \subseteq TestsDigests'
         /\ ScopeDigests \subseteq ScopeDigests'
<1>1. contract' = contract
  <2>1. CASE UNCHANGED vars
    BY <2>1 DEF vars
  <2>2. ASSUME NEW s \in Sessions, Call(s) \/ Status(s) \/ Crash(s)
        PROVE  contract' = contract
    BY <2>2 DEF Call, CheckSyntax, CheckDiff, CheckTests, CheckOutcomes, Begin,
                Status, Crash
  <2>3. ASSUME NEW s \in Sessions, Handle(s)
        PROVE  contract' = contract
    BY <2>3 DEF Handle, RunCommand, PostSnapshot, GateSyntax, GateSyntaxSnapshot,
                GateTests, GateTestsSnapshot, GateScope, GateDiff,
                PersistCheckedResult, Respond, recorded
  <2> QED BY <2>1, <2>2, <2>3 DEF Next, Edit, Commit
<1>2. Keeps(evidence, evidence')
  BY OnlyPersistRecords, PersistKeeps DEF Keeps
<1>4. SyntaxDigests \subseteq SyntaxDigests' /\ TestsDigests \subseteq TestsDigests'
  BY <1>2 DEF SyntaxDigests, TestsDigests, Attested, Keeps
<1>5. ScopeDigests \subseteq ScopeDigests'
  BY <1>2 DEF ScopeDigests, Keeps
<1> QED BY <1>1, <1>4, <1>5

\* A step that is not of session t and does not move the worktree keeps what
\* is known of t.
LEMMA SessionFrame ==
  ASSUME NEW t \in Sessions, SessionInv(t), contract' = contract,
         SyntaxDigests \subseteq SyntaxDigests',
         TestsDigests \subseteq TestsDigests',
         ScopeDigests \subseteq ScopeDigests',
         pc'[t] = pc[t], rooted'[t] = rooted[t], pending'[t] = pending[t],
         expected'[t] = expected[t], agreed'[t] = agreed[t],
         disturbed'[t] = disturbed[t], UNCHANGED <<repo, head>>
  PROVE  SessionInv(t)'
<1>1. ReadInv(t)'
  BY DEF SessionInv, ReadInv
<1>2. PromiseInv(t)'
  BY DEF SessionInv, PromiseInv, IsCode, WithinScope
<1>3. QuietInv(t)'
  BY DEF SessionInv, QuietInv, WorktreeDigest
<1> QED BY <1>1, <1>2, <1>3 DEF SessionInv

\* A session whose call has just begun, has ended, or died.
LEMMA SessionFresh ==
  ASSUME TypeOK, NEW s \in Sessions, Call(s) \/ Respond(s) \/ Crash(s)
  PROVE  SessionInv(s)'
<1>1. CASE Respond(s) \/ Crash(s)
  <2>1. pc'[s] = "idle"
    BY <1>1 DEF Respond, Crash, Goto, TypeOK
  <2> QED
    BY <2>1 DEF SessionInv, ReadInv, PromiseInv, QuietInv, GateStages, PastTests,
                PastSyntax
<1>2. CASE Call(s)
  <2>1. /\ agreed'[s] = {} /\ UNCHANGED contract
    BY <1>2 DEF Call, CheckSyntax, CheckDiff, CheckTests, CheckOutcomes, Begin, TypeOK
  <2>2. CASE /\ pc'[s] \in {"record", "command"}
             /\ pending'[s].kind \in {"syntax", "diff", "tests"}
             /\ pc'[s] = "command" => pending'[s].kind = "tests"
    BY <2>1, <2>2 DEF SessionInv, ReadInv, PromiseInv, QuietInv, GateStages,
                      PastTests, PastSyntax
  <2>3. CASE /\ pending'[s].kind = "outcomes"
             /\ pc'[s] = IF IsCode(contract) THEN "gate_syntax" ELSE "record"
    <3>1. "run_tests" \in contract.kinds \/ "scope_files" \in contract.kinds =>
            IsCode(contract)
      BY DEF IsCode
    <3>2. ReadInv(s)' /\ QuietInv(s)'
      BY <2>1, <2>3 DEF ReadInv, QuietInv, GateStages
    <3>3. PromiseInv(s)'
      BY <2>1, <2>3, <3>1 DEF PromiseInv, PastTests, PastSyntax, IsCode
    <3> QED BY <3>2, <3>3 DEF SessionInv
  <2>4. PICK q \in Requests :
          \/ CheckSyntax(s, q.root, q.valid)
          \/ CheckDiff(s, q.root, q.policy)
          \/ CheckTests(s, q.root)
          \/ CheckOutcomes(s, q.root, q.missing)
    BY <1>2 DEF Call
  <2>5. CASE CheckSyntax(s, q.root, q.valid)
    BY <2>2, <2>5 DEF CheckSyntax, Goto, Row, TypeOK
  <2>8. CASE CheckDiff(s, q.root, q.policy)
    <3>1. pending'[s].kind = "diff"
      BY <2>8 DEF CheckDiff, Row, TypeOK
    <3>2. pc'[s] = "record"
      BY <2>8 DEF CheckDiff, Goto, TypeOK
    <3> QED BY <2>2, <3>1, <3>2
  <2>6. CASE CheckTests(s, q.root)
    BY <2>2, <2>6 DEF CheckTests, Goto, Row, TypeOK
  <2>7. CASE CheckOutcomes(s, q.root, q.missing)
    BY <2>3, <2>7 DEF CheckOutcomes, Goto, Row, TypeOK
  <2> QED BY <2>4, <2>5, <2>6, <2>7, <2>8
<1> QED BY <1>1, <1>2

\* A session that goes through the collection of test evidence.
LEMMA SessionCollects ==
  ASSUME TypeOK, NEW s \in Sessions, SessionInv(s), RunCommand(s) \/ PostSnapshot(s)
  PROVE  SessionInv(s)'
<1>1. /\ pc'[s] \in {"post_snapshot", "record"} /\ pending'[s].kind = "tests"
      /\ agreed'[s] = agreed[s] /\ disturbed'[s] = disturbed[s]
      /\ UNCHANGED <<repo, head>>
  <2>1. CASE RunCommand(s)
    <3>1. pending[s].kind = "tests" /\ pending[s] \in Record
      BY <2>1 DEF RunCommand, SessionInv, ReadInv, TypeOK
    <3>2. pending'[s].kind = "tests"
      BY <2>1, <3>1 DEF RunCommand, TypeOK, Record
    <3> QED BY <2>1, <3>2 DEF RunCommand, Goto, TypeOK, world
  <2>2. CASE PostSnapshot(s)
    <3>1. pending[s].kind = "tests" /\ pending[s] \in Record
      BY <2>2 DEF PostSnapshot, SessionInv, ReadInv, TypeOK
    <3>2. pending'[s].kind = "tests"
      BY <2>2, <3>1 DEF PostSnapshot, TypeOK, Record
    <3> QED BY <2>2, <3>2 DEF PostSnapshot, Goto, TypeOK, world
  <2> QED BY <2>1, <2>2
<1>2. pc[s] \notin {"idle", "respond"}
  BY DEF RunCommand, PostSnapshot
<1>3. ReadInv(s)' /\ PromiseInv(s)'
  BY <1>1 DEF ReadInv, PromiseInv, GateStages
<1>4. QuietInv(s)'
  BY <1>1, <1>2 DEF SessionInv, QuietInv, WorktreeDigest
<1> QED BY <1>3, <1>4 DEF SessionInv

\* A stage of the gate, reduced to what SessionInv is about: it is reached with
\* an outcome in hand; it fails that outcome, or keeps it and compares.
LEMMA SessionGates ==
  ASSUME TypeOK, NEW s \in Sessions, SessionInv(s),
         contract' = contract, UNCHANGED <<repo, head, evidence>>,
         rooted'[s] = rooted[s], disturbed'[s] = disturbed[s],
         pc[s] \in GateStages, pc'[s] \in GateStages \cup {"record"},
         pending'[s].kind = "outcomes",
         pending'[s].status = "PASS" => pending[s].status = "PASS",
         agreed[s] \subseteq agreed'[s],
         \A d \in agreed'[s] \ agreed[s] : disturbed[s] \/ d = WorktreeDigest,
         pc'[s] = "gate_syntax_snapshot" => expected'[s] \in SyntaxDigests,
         pc'[s] = "gate_tests_snapshot" => expected'[s] \in TestsDigests,
         pc'[s] = "gate_diff" =>
           /\ pending'[s].status = "PASS" => WithinScope(expected'[s])
           /\ expected'[s] \in {WorktreeDigest, NoDigest},
         pending'[s].status = "PASS" =>
           /\ pc'[s] \in PastSyntax /\ pc[s] \notin PastSyntax /\ rooted[s] =>
                \E d \in agreed'[s] : d \in SyntaxDigests
           /\ pc'[s] \in PastTests /\ pc[s] \notin PastTests
                /\ "run_tests" \in contract.kinds =>
                \E d \in agreed'[s] : d \in TestsDigests
           /\ pc'[s] = "record" /\ "scope_files" \in contract.kinds =>
                \E d \in agreed'[s] : d \in ScopeDigests
  PROVE  SessionInv(s)'
<1>1. /\ SyntaxDigests' = SyntaxDigests /\ TestsDigests' = TestsDigests
      /\ ScopeDigests' = ScopeDigests /\ WorktreeDigest' = WorktreeDigest
  BY DEF SyntaxDigests, TestsDigests, ScopeDigests, Attested, WorktreeDigest
<1>2. pending[s].kind = "outcomes"
  BY DEF SessionInv, ReadInv
<1>3. ReadInv(s)'
  BY <1>1 DEF ReadInv, GateStages
<1>4. PromiseInv(s)'
  BY <1>1, <1>2 DEF SessionInv, PromiseInv, IsCode, WithinScope
<1>5. QuietInv(s)'
  BY <1>1 DEF SessionInv, QuietInv, GateStages
<1> QED BY <1>3, <1>4, <1>5 DEF SessionInv

LEMMA SessionGateSyntax ==
  ASSUME TypeOK, NEW s \in Sessions, SessionInv(s), GateSyntax(s)
  PROVE  SessionInv(s)'
<1>1. pending[s] \in Record /\ pending[s].kind = "outcomes"
  BY DEF GateSyntax, SessionInv, ReadInv, GateStages, TypeOK
<1>2. /\ Unmet(pending[s], "syntax").kind = "outcomes"
      /\ Unmet(pending[s], "syntax").status = "FAIL"
  BY <1>1, UnmetFails DEF Labels
<1>3. \/ pending'[s] = pending[s] \/ pending'[s] = Unmet(pending[s], "syntax")
  BY DEF GateSyntax, TypeOK
<1>4. CASE pc'[s] = "gate_syntax_snapshot"
  <2>1. PICK r \in NewestPass(evidence, "syntax") :
          r.digest # NoDigest /\ expected'[s] = r.digest
    BY <1>4, AfterType DEF GateSyntax, Goto, TypeOK
  <2>2. /\ r \in Record /\ r.kind = "syntax" /\ r.status = "PASS"
        /\ \E i \in DOMAIN evidence : evidence[i] = r
    BY <2>1, NewestPassIsStored
  <2>3. expected'[s] \in SyntaxDigests
    BY <2>1, <2>2 DEF SyntaxDigests, Attested, Record
  <2> QED
    BY <1>1, <1>2, <1>3, <1>4, <2>3, SessionGates
    DEF GateSyntax, world, recorded, GateStages, PastSyntax, PastTests
<1>5. CASE pc'[s] # "gate_syntax_snapshot"
  <2>1. pc'[s] = AfterSyntax
    BY <1>5 DEF GateSyntax, Goto, TypeOK
  <2>2. pending'[s].status = "PASS" => ~rooted[s]
    BY <1>2, <1>5 DEF GateSyntax, Goto, TypeOK
  <2>3. /\ pc'[s] \in PastTests => "run_tests" \notin contract.kinds
        /\ pc'[s] = "record" => "scope_files" \notin contract.kinds
    BY <2>1 DEF AfterSyntax, AfterTests, PastTests
  <2>4. pc'[s] \in {"gate_tests", "gate_scope", "record"}
    BY <2>1, AfterType
  <2> QED
    BY <1>1, <1>2, <1>3, <2>2, <2>3, <2>4, SessionGates
    DEF GateSyntax, world, recorded, GateStages, PastSyntax, PastTests
<1> QED BY <1>4, <1>5

LEMMA SessionGateSyntaxSnapshot ==
  ASSUME TypeOK, NEW s \in Sessions, SessionInv(s), GateSyntaxSnapshot(s)
  PROVE  SessionInv(s)'
<1>1. /\ pending[s] \in Record /\ pending[s].kind = "outcomes"
      /\ expected[s] \in SyntaxDigests
  BY DEF GateSyntaxSnapshot, SessionInv, ReadInv, GateStages, TypeOK
<1>2. /\ Unmet(pending[s], "syntax").kind = "outcomes"
      /\ Unmet(pending[s], "syntax").status = "FAIL"
  BY <1>1, UnmetFails DEF Labels
<1>3. \/ /\ pending'[s] = pending[s] /\ agreed'[s] = agreed[s] \cup {expected[s]}
         /\ expected[s] = WorktreeDigest
      \/ pending'[s] = Unmet(pending[s], "syntax") /\ agreed'[s] = agreed[s]
  BY <1>1, SnapshotType DEF GateSyntaxSnapshot, TypeOK, SyntaxDigests
<1>4. pc'[s] = AfterSyntax
  BY DEF GateSyntaxSnapshot, Goto, TypeOK
<1>5. /\ pc'[s] \in PastTests => "run_tests" \notin contract.kinds
      /\ pc'[s] = "record" => "scope_files" \notin contract.kinds
  BY <1>4 DEF AfterSyntax, AfterTests, PastTests
<1>6. pc'[s] \in {"gate_tests", "gate_scope", "record"}
  BY <1>4, AfterType
<1> QED
  BY <1>1, <1>2, <1>3, <1>5, <1>6, SessionGates
  DEF GateSyntaxSnapshot, world, recorded, GateStages, PastSyntax, PastTests

LEMMA SessionGateTests ==
  ASSUME TypeOK, NEW s \in Sessions, SessionInv(s), GateTests(s)
  PROVE  SessionInv(s)'
<1>1. pending[s] \in Record /\ pending[s].kind = "outcomes"
  BY DEF GateTests, SessionInv, ReadInv, GateStages, TypeOK
<1>2. /\ Unmet(pending[s], "run_tests").kind = "outcomes"
      /\ Unmet(pending[s], "run_tests").status = "FAIL"
  BY <1>1, UnmetFails DEF Labels
<1>3. \/ pending'[s] = pending[s] \/ pending'[s] = Unmet(pending[s], "run_tests")
  BY DEF GateTests, TypeOK
<1>4. CASE pc'[s] = "gate_tests_snapshot"
  <2>1. PICK r \in NewestPass(evidence, "tests") :
          r.digest # NoDigest /\ expected'[s] = r.digest
    BY <1>4, AfterType DEF GateTests, Goto, TypeOK
  <2>2. /\ r \in Record /\ r.kind = "tests" /\ r.status = "PASS"
        /\ \E i \in DOMAIN evidence : evidence[i] = r
    BY <2>1, NewestPassIsStored
  <2>3. expected'[s] \in TestsDigests
    BY <2>1, <2>2 DEF TestsDigests, Attested, Record
  <2> QED
    BY <1>1, <1>2, <1>3, <1>4, <2>3, SessionGates
    DEF GateTests, world, recorded, GateStages, PastSyntax, PastTests
<1>5. CASE pc'[s] # "gate_tests_snapshot"
  <2>1. pc'[s] \in {"gate_scope", "record"}
    BY <1>5, AfterType DEF GateTests, Goto, TypeOK
  <2>2. pending'[s].status = "FAIL"
    BY <1>2, <1>5 DEF GateTests, Goto, TypeOK
  <2> QED
    BY <1>1, <1>2, <1>3, <2>1, <2>2, SessionGates
    DEF GateTests, world, recorded, GateStages, PastSyntax, PastTests
<1> QED BY <1>4, <1>5

LEMMA SessionGateTestsSnapshot ==
  ASSUME TypeOK, NEW s \in Sessions, SessionInv(s), GateTestsSnapshot(s)
  PROVE  SessionInv(s)'
<1>1. /\ pending[s] \in Record /\ pending[s].kind = "outcomes"
      /\ expected[s] \in TestsDigests
  BY DEF GateTestsSnapshot, SessionInv, ReadInv, GateStages, TypeOK
<1>2. /\ Unmet(pending[s], "run_tests") \in Record
      /\ Unmet(pending[s], "run_tests").kind = "outcomes"
      /\ Unmet(pending[s], "run_tests").status = "FAIL"
  BY <1>1, UnmetFails DEF Labels
<1>3. PICK d \in Snapshots :
        IF d = expected[s]
        THEN /\ pending' = [pending EXCEPT ![s].digest = d]
             /\ agreed' = [agreed EXCEPT ![s] = @ \cup {d}]
        ELSE /\ pending' = [pending EXCEPT
                  ![s] = [Unmet(@, "run_tests") EXCEPT !.digest = d]]
             /\ UNCHANGED agreed
  BY DEF GateTestsSnapshot
<1>4. pending'[s].kind = "outcomes"
  BY <1>1, <1>2, <1>3 DEF TypeOK, Record
<1>5. \/ /\ pending'[s].status = pending[s].status
         /\ agreed'[s] = agreed[s] \cup {expected[s]} /\ expected[s] = WorktreeDigest
      \/ pending'[s].status = "FAIL" /\ agreed'[s] = agreed[s]
  <2>1. CASE d = expected[s]
    <3>1. expected[s] = WorktreeDigest
      BY <1>1, <2>1, SnapshotType DEF TestsDigests
    <3>2. pending'[s].status = pending[s].status
      BY <1>1, <1>3, <2>1 DEF TypeOK, Record
    <3> QED BY <1>3, <2>1, <3>1, <3>2 DEF TypeOK
  <2>2. CASE d # expected[s]
    <3>1. pending'[s] = [Unmet(pending[s], "run_tests") EXCEPT !.digest = d]
      BY <1>3, <2>2 DEF TypeOK
    <3>2. pending'[s].status = "FAIL"
      BY <1>2, <3>1 DEF Record
    <3> QED BY <1>3, <2>2, <3>2
  <2> QED BY <2>1, <2>2
<1>6. pc'[s] = AfterTests
  BY DEF GateTestsSnapshot, Goto, TypeOK
<1>7. pc'[s] = "record" => "scope_files" \notin contract.kinds
  BY <1>6 DEF AfterTests
<1>8. pc'[s] \in {"gate_scope", "record"}
  BY <1>6, AfterType
<1> QED
  BY <1>1, <1>4, <1>5, <1>7, <1>8, SessionGates
  DEF GateTestsSnapshot, world, recorded, GateStages, PastSyntax, PastTests

LEMMA SessionGateScope ==
  ASSUME TypeOK, NEW s \in Sessions, SessionInv(s), GateScope(s)
  PROVE  SessionInv(s)'
<1>1. pending[s] \in Record /\ pending[s].kind = "outcomes"
  BY DEF GateScope, SessionInv, ReadInv, GateStages, TypeOK
<1>2. /\ Unmet(pending[s], "scope_files").kind = "outcomes"
      /\ Unmet(pending[s], "scope_files").status = "FAIL"
  BY <1>1, UnmetFails DEF Labels
<1>3. \/ /\ pc'[s] = "record" /\ pending'[s] = Unmet(pending[s], "scope_files")
      \/ /\ pc'[s] = "gate_diff" /\ expected'[s] \in {WorktreeDigest, NoDigest}
         /\ \/ pending'[s] = pending[s] /\ WithinScope(expected'[s])
            \/ pending'[s] = Unmet(pending[s], "scope_files")
  BY SnapshotType DEF GateScope, Goto, TypeOK
<1> QED
  BY <1>1, <1>2, <1>3, SessionGates
  DEF GateScope, world, recorded, GateStages, PastSyntax, PastTests

LEMMA SessionGateDiff ==
  ASSUME TypeOK, NEW s \in Sessions, SessionInv(s), GateDiff(s)
  PROVE  SessionInv(s)'
<1>1. pending[s] \in Record /\ pending[s].kind = "outcomes"
  BY DEF GateDiff, SessionInv, ReadInv, GateStages, TypeOK
<1>2. /\ Unmet(pending[s], "scope_files").kind = "outcomes"
      /\ Unmet(pending[s], "scope_files").status = "FAIL"
  BY <1>1, UnmetFails DEF Labels
<1>3. CASE \E r \in NewestPass(evidence, "diff") :
             /\ r.digest = expected[s] /\ expected[s] # NoDigest
             /\ r.policy = "contract"
  <2>1. PICK r \in NewestPass(evidence, "diff") :
          r.digest = expected[s] /\ expected[s] # NoDigest /\ r.policy = "contract"
    BY <1>3
  <2>2. /\ r.kind = "diff" /\ r.status = "PASS"
        /\ \E i \in DOMAIN evidence : evidence[i] = r
    BY <2>1, NewestPassIsStored
  <2>3. /\ pending'[s] = pending[s] /\ agreed'[s] = agreed[s] \cup {expected[s]}
    BY <1>3 DEF GateDiff, TypeOK
  <2>4. pending[s].status = "PASS" => WithinScope(expected[s])
    BY <1>1 DEF SessionInv, PromiseInv, GateDiff
  <2>5. pending[s].status = "PASS" => expected[s] \in ScopeDigests
    BY <2>1, <2>2, <2>4 DEF ScopeDigests, TypeOK
  <2>6. disturbed[s] \/ expected[s] = WorktreeDigest
    BY <2>1 DEF SessionInv, QuietInv, GateDiff, TypeOK
  <2>7. pc'[s] = "record"
    BY DEF GateDiff, Goto, TypeOK
  <2> QED
    BY <1>1, <2>3, <2>5, <2>6, <2>7, SessionGates
    DEF GateDiff, world, recorded, GateStages, PastSyntax, PastTests
<1>4. CASE ~ \E r \in NewestPass(evidence, "diff") :
               /\ r.digest = expected[s] /\ expected[s] # NoDigest
               /\ r.policy = "contract"
  <2>1. pending'[s] = Unmet(pending[s], "scope_files") /\ agreed'[s] = agreed[s]
    BY <1>4 DEF GateDiff, TypeOK
  <2>2. pc'[s] = "record"
    BY DEF GateDiff, Goto, TypeOK
  <2> QED
    BY <1>1, <1>2, <2>1, <2>2, SessionGates
    DEF GateDiff, world, recorded, GateStages, PastSyntax, PastTests
<1> QED BY <1>3, <1>4

\* The end of a call records what PromiseInv and QuietInv say of it.
LEMMA PersistAccepts ==
  ASSUME TypeOK, GateInv, [Next]_vars,
         NEW s \in Sessions, PersistCheckedResult(s)
  PROVE  AcceptedInv' /\ SessionInv(s)'
<1>1. /\ contract' = contract
      /\ SyntaxDigests \subseteq SyntaxDigests'
      /\ TestsDigests \subseteq TestsDigests'
      /\ ScopeDigests \subseteq ScopeDigests'
  BY DigestsGrow
<1>2. ASSUME accepted' = accepted
      PROVE  AcceptedInv'
  BY <1>1, <1>2 DEF GateInv, AcceptedInv, IsCode
<1>3. ASSUME pending[s].kind = "outcomes", pending[s].status = "PASS",
             accepted' = {[rooted |-> rooted[s], agreed |-> agreed[s],
                           tree |-> ran[s], quiet |-> ~disturbed[s]]}
      PROVE  AcceptedInv'
  <2>1. PromiseInv(s) /\ QuietInv(s) /\ pc[s] = "record"
    BY DEF GateInv, SessionInv, PersistCheckedResult
  <2>2. /\ "run_tests" \in contract.kinds => \E d \in agreed[s] : d \in TestsDigests
        /\ "scope_files" \in contract.kinds => \E d \in agreed[s] : d \in ScopeDigests
        /\ IsCode(contract) /\ rooted[s] => \E d \in agreed[s] : d \in SyntaxDigests
    BY <1>3, <2>1 DEF PromiseInv, PastSyntax, PastTests
  <2>3. ~disturbed[s] => \A d, e \in agreed[s] : d = e
    BY <2>1 DEF QuietInv
  <2>4. ASSUME NEW a \in accepted'
        PROVE  /\ a.agreed = agreed[s] /\ a.rooted = rooted[s]
               /\ a.quiet = ~disturbed[s]
    BY <1>3, <2>4
  <2>5. IsCode(contract)' = IsCode(contract)
    BY <1>1 DEF IsCode
  <2>6. ASSUME NEW a \in accepted'
        PROVE  /\ "run_tests" \in contract'.kinds => \E d \in a.agreed : d \in TestsDigests'
               /\ "scope_files" \in contract'.kinds => \E d \in a.agreed : d \in ScopeDigests'
               /\ IsCode(contract)' /\ a.rooted => \E d \in a.agreed : d \in SyntaxDigests'
               /\ a.quiet => \A d, e \in a.agreed : d = e
    BY <1>1, <2>2, <2>3, <2>4, <2>5
  <2> QED BY <2>6 DEF AcceptedInv
<1>4. AcceptedInv'
  BY <1>2, <1>3 DEF PersistCheckedResult
<1>5. pc'[s] = "respond"
  BY DEF PersistCheckedResult, Goto, TypeOK
<1>6. SessionInv(s)'
  BY <1>5 DEF SessionInv, ReadInv, PromiseInv, QuietInv, GateStages, PastTests,
              PastSyntax
<1> QED BY <1>4, <1>6

\* Only session s takes part in its own steps.
LEMMA OthersUntouched ==
  ASSUME TypeOK, NEW s \in Sessions, NEW t \in Sessions \ {s},
         Call(s) \/ Status(s) \/ Handle(s) \/ Crash(s)
  PROVE  /\ pc'[t] = pc[t] /\ rooted'[t] = rooted[t] /\ pending'[t] = pending[t]
         /\ expected'[t] = expected[t] /\ agreed'[t] = agreed[t]
         /\ ran'[t] = ran[t] /\ disturbed'[t] = disturbed[t]
         /\ UNCHANGED <<repo, head>>
<1>1. CASE Call(s)
  BY <1>1 DEF TypeOK, Call, CheckSyntax, CheckDiff, CheckTests, CheckOutcomes, Begin,
              Goto, world
<1>2. CASE Status(s) \/ Respond(s)
  BY <1>2 DEF TypeOK, Status, Respond, Goto, world, local
<1>3. CASE Crash(s) \/ PersistCheckedResult(s)
  BY <1>3 DEF TypeOK, Crash, PersistCheckedResult, Discard, Goto, world
<1>4. CASE RunCommand(s) \/ PostSnapshot(s)
  BY <1>4 DEF TypeOK, RunCommand, PostSnapshot, Goto, world
<1>5. CASE GateSyntax(s) \/ GateSyntaxSnapshot(s)
  BY <1>5 DEF TypeOK, GateSyntax, GateSyntaxSnapshot, Goto, world
<1>6. CASE GateTests(s) \/ GateTestsSnapshot(s)
  BY <1>6 DEF TypeOK, GateTests, GateTestsSnapshot, Goto, world
<1>7. CASE GateScope(s) \/ GateDiff(s)
  BY <1>7 DEF TypeOK, GateScope, GateDiff, Goto, world
<1> QED BY <1>1, <1>2, <1>3, <1>4, <1>5, <1>6, <1>7 DEF Handle

LEMMA GateInit == Init => GateInv
<1> SUFFICES ASSUME Init PROVE GateInv
  OBVIOUS
<1>1. AcceptedInv
  BY DEF Init, AcceptedInv
<1>2. ASSUME NEW s \in Sessions
      PROVE  SessionInv(s)
  BY DEF Init, SessionInv, ReadInv, PromiseInv, QuietInv, GateStages, PastTests,
         PastSyntax
<1> QED BY <1>1, <1>2 DEF GateInv

LEMMA GateNext == TypeOK /\ GateInv /\ [Next]_vars => GateInv'
<1> SUFFICES ASSUME TypeOK, GateInv, [Next]_vars PROVE GateInv'
  OBVIOUS
<1>1. /\ contract' = contract
      /\ SyntaxDigests \subseteq SyntaxDigests'
      /\ TestsDigests \subseteq TestsDigests'
      /\ ScopeDigests \subseteq ScopeDigests'
  BY DigestsGrow
<1>2. AcceptedInv'
  <2>1. CASE UNCHANGED accepted
    BY <1>1, <2>1 DEF GateInv, AcceptedInv, IsCode
  <2> QED BY <2>1, PersistAccepts, OnlyPersistRecords
<1>3. ASSUME NEW t \in Sessions
      PROVE  SessionInv(t)'
  <2>1. SessionInv(t)
    BY DEF GateInv
  <2>2. CASE UNCHANGED vars
    BY <1>1, <2>1, <2>2, SessionFrame DEF vars
  <2>3. CASE Edit \/ Commit
    <3>1. /\ disturbed'[t] <=> disturbed[t] \/ pc[t] \notin {"idle", "respond"}
          /\ UNCHANGED <<pc, rooted, pending, expected, agreed, evidence>>
      BY <2>3 DEF Edit, Commit, Move, TypeOK
    <3>2. ReadInv(t)' /\ PromiseInv(t)'
      BY <1>1, <2>1, <3>1 DEF SessionInv, ReadInv, PromiseInv, IsCode, WithinScope
    <3>3. QuietInv(t)'
      BY <3>1 DEF QuietInv
    <3> QED BY <3>2, <3>3 DEF SessionInv
  <2>4. ASSUME NEW s \in Sessions \ {t}, Call(s) \/ Status(s) \/ Handle(s) \/ Crash(s)
        PROVE  SessionInv(t)'
    BY <1>1, <2>1, <2>4, OthersUntouched, SessionFrame
  <2>5. CASE Status(t)
    BY <1>1, <2>1, <2>5, SessionFrame DEF Status, world, local
  <2>6. CASE Call(t) \/ Respond(t) \/ Crash(t)
    BY <2>6, SessionFresh
  <2>7. CASE RunCommand(t) \/ PostSnapshot(t)
    BY <2>1, <2>7, SessionCollects
  <2>8. CASE \/ GateSyntax(t) \/ GateSyntaxSnapshot(t)
             \/ GateTests(t) \/ GateTestsSnapshot(t)
             \/ GateScope(t) \/ GateDiff(t)
    BY <2>1, <2>8, SessionGateSyntax, SessionGateSyntaxSnapshot, SessionGateTests,
       SessionGateTestsSnapshot, SessionGateScope, SessionGateDiff
  <2>9. CASE PersistCheckedResult(t)
    BY <2>9, PersistAccepts
  <2> QED BY <2>2, <2>3, <2>4, <2>5, <2>6, <2>7, <2>8, <2>9 DEF Next, Handle
<1> QED BY <1>2, <1>3 DEF GateInv

\* Prose never replaces evidence: in every reachable state, the last outcome
\* that passed the gate was compared with the worktree on digests that stored
\* passing rows of each required check carry (registry.py _gate_outcomes).
THEOREM GateSoundness == Spec => []GateSound
<1>1. TypeOK /\ GateInv => GateSound
  BY DEF GateInv, AcceptedInv, GateSound, SyntaxDigests, TestsDigests, ScopeDigests
<1> QED BY <1>1, GateInit, GateNext, TypeCorrect, PTL DEF Spec

-----------------------------------------------------------------------------
(* The proof of TestRowsSound.                                             *)

\* A step that is not of session t keeps what is known of its test row; a move
\* of the worktree under a running call marks the call as disturbed.
LEMMA PendingTestFrame ==
  ASSUME NEW t \in Sessions, PendingTestInv(t),
         pc'[t] = pc[t], pending'[t] = pending[t], ran'[t] = ran[t],
         \/ disturbed'[t] = disturbed[t] /\ UNCHANGED repo
         \/ disturbed'[t] \/ pc[t] \in {"idle", "respond"}
  PROVE  PendingTestInv(t)'
  BY DEF PendingTestInv, GateStages, Row

\* No action of session s leaves its pending test row less sound.
LEMMA PendingTestStep ==
  ASSUME TypeOK, NEW s \in Sessions, PendingTestInv(s),
         Call(s) \/ Handle(s) \/ Crash(s)
  PROVE  PendingTestInv(s)'
<1>1. CASE Call(s)
  <2>1. PICK q \in Requests :
          \/ CheckSyntax(s, q.root, q.valid)
          \/ CheckDiff(s, q.root, q.policy)
          \/ CheckTests(s, q.root)
          \/ CheckOutcomes(s, q.root, q.missing)
    BY <1>1 DEF Call
  <2>2. CASE CheckSyntax(s, q.root, q.valid)
    BY <2>2 DEF PendingTestInv, CheckSyntax, Goto, Row, TypeOK, GateStages
  <2>3. CASE CheckDiff(s, q.root, q.policy)
    <3>1. pending'[s].kind = "diff"
      BY <2>3 DEF CheckDiff, Row, TypeOK
    <3>2. pc'[s] = "record"
      BY <2>3 DEF CheckDiff, Goto, TypeOK
    <3> QED BY <3>1, <3>2 DEF PendingTestInv, GateStages
  <2>4. CASE CheckTests(s, q.root)
    <3>1. /\ pending'[s] = Row("tests", "UNKNOWN", NoDigest)
          /\ pc'[s] \in {"command", "record"}
      BY <2>4 DEF CheckTests, Goto, TypeOK
    <3>2. pending'[s].status = "UNKNOWN"
      BY <3>1 DEF Row
    <3> QED BY <3>1, <3>2 DEF PendingTestInv, GateStages
  <2>5. CASE CheckOutcomes(s, q.root, q.missing)
    <3>1. pending'[s].kind = "outcomes" /\ pc'[s] \in {"gate_syntax", "record"}
      BY <2>5 DEF CheckOutcomes, Goto, Row, TypeOK
    <3> QED BY <3>1 DEF PendingTestInv
  <2> QED BY <2>1, <2>2, <2>3, <2>4, <2>5
<1>2. CASE RunCommand(s)
  <2>1. PICK verdict \in CommandVerdicts(rooted[s], repo) :
          pending' = [pending EXCEPT ![s].status = verdict]
    BY <1>2 DEF RunCommand
  <2>2. pending[s] = Row("tests", "UNKNOWN", NoDigest)
    BY <1>2 DEF RunCommand, PendingTestInv
  <2>3. /\ pending'[s].kind = "tests" /\ pending'[s].status = verdict
        /\ pending'[s].digest = NoDigest
    BY <2>1, <2>2 DEF TypeOK, Row
  <2>4. /\ ran'[s] = repo /\ repo' = repo /\ disturbed'[s] = disturbed[s]
        /\ pc'[s] = IF rooted[s] THEN "post_snapshot" ELSE "record"
    BY <1>2 DEF RunCommand, Goto, TypeOK, world
  <2>5. verdict = "PASS" /\ rooted[s] => repo \in Green
    BY DEF CommandVerdicts
  <2> QED BY <2>3, <2>4, <2>5 DEF PendingTestInv, GateStages
<1>3. CASE PostSnapshot(s)
  <2>1. PICK d \in Snapshots : pending' = [pending EXCEPT ![s].digest = d]
    BY <1>3 DEF PostSnapshot
  <2>2. pending[s] \in Record /\ pending[s].kind = "tests"
    BY <1>3 DEF PostSnapshot, PendingTestInv, TypeOK
  <2>3. /\ pending'[s].kind = "tests" /\ pending'[s].status = pending[s].status
        /\ pending'[s].digest = d
    BY <2>1, <2>2 DEF TypeOK, Record
  <2>4. d \in {repo, Clean, NoDigest}
    BY SnapshotType DEF WorktreeDigest
  <2>5. /\ ran'[s] = ran[s] /\ disturbed'[s] = disturbed[s] /\ pc'[s] = "record"
    BY <1>3 DEF PostSnapshot, Goto, TypeOK
  <2> QED BY <1>3, <2>2, <2>3, <2>4, <2>5 DEF PendingTestInv, PostSnapshot, GateStages
<1>4. CASE \/ GateSyntax(s) \/ GateSyntaxSnapshot(s) \/ GateTests(s)
           \/ GateTestsSnapshot(s) \/ GateScope(s) \/ GateDiff(s)
  <2>1. pending[s] \in Record /\ pending[s].kind = "outcomes"
    BY <1>4 DEF GateSyntax, GateSyntaxSnapshot, GateTests, GateTestsSnapshot,
                GateScope, GateDiff, PendingTestInv, GateStages, TypeOK
  <2>2. \A label \in Labels :
          /\ Unmet(pending[s], label) \in Record
          /\ Unmet(pending[s], label).kind = "outcomes"
    BY <2>1, UnmetFails
  <2>3. CASE GateTestsSnapshot(s)
    <3>1. pending'[s].kind = "outcomes"
      BY <2>1, <2>2, <2>3 DEF GateTestsSnapshot, TypeOK, Record, Labels
    <3>2. pc'[s] \in {"gate_scope", "record"}
      BY <2>3, AfterType DEF GateTestsSnapshot, Goto, TypeOK
    <3> QED BY <3>1, <3>2 DEF PendingTestInv
  <2>4. CASE GateSyntax(s) \/ GateSyntaxSnapshot(s)
    <3>1. pending'[s].kind = "outcomes"
      BY <2>1, <2>2, <2>4 DEF GateSyntax, GateSyntaxSnapshot, TypeOK, Labels
    <3>2. pc'[s] \in GateStages \cup {"record"}
      BY <2>4, AfterType DEF GateSyntax, GateSyntaxSnapshot, Goto, TypeOK, GateStages
    <3> QED BY <3>1, <3>2 DEF PendingTestInv, GateStages
  <2>5. CASE GateTests(s) \/ GateScope(s) \/ GateDiff(s)
    <3>1. pending'[s].kind = "outcomes"
      BY <2>1, <2>2, <2>5 DEF GateTests, GateScope, GateDiff, TypeOK, Labels
    <3>2. pc'[s] \in GateStages \cup {"record"}
      BY <2>5, AfterType DEF GateTests, GateScope, GateDiff, Goto, TypeOK, GateStages
    <3> QED BY <3>1, <3>2 DEF PendingTestInv, GateStages
  <2> QED BY <1>4, <2>3, <2>4, <2>5
<1>5. CASE PersistCheckedResult(s) \/ Respond(s) \/ Crash(s)
  <2>1. pc'[s] \in {"idle", "respond"}
    BY <1>5 DEF PersistCheckedResult, Respond, Crash, Goto, TypeOK
  <2> QED BY <2>1 DEF PendingTestInv, GateStages
<1> QED BY <1>1, <1>2, <1>3, <1>4, <1>5 DEF Handle

\* A passing test row collected while nothing moved the worktree is bound to
\* the tree the command ran on, whatever else happens before, between and
\* after (registry.py TestCommandVerifier).
THEOREM TestRowsAreSound == Spec => []TestRowsSound
<1>1. Init => TestsInv
  BY DEF Init, TestsInv, TestRowsSound, PendingTestInv, GateStages
<1>2. TypeOK /\ TestsInv /\ [Next]_vars => TestsInv'
  <2> SUFFICES ASSUME TypeOK, TestsInv, [Next]_vars PROVE TestsInv'
    OBVIOUS
  <2>1. TestRowsSound'
    <3>1. CASE UNCHANGED <<evidence, accepted, tested, tainted>>
      BY <3>1 DEF TestsInv, TestRowsSound
    <3>2. ASSUME NEW s \in Sessions, PersistCheckedResult(s)
          PROVE  TestRowsSound'
      <4>1. tainted \subseteq tainted'
        BY <3>2 DEF PersistCheckedResult
      <4>2. ASSUME NEW p \in tested'
            PROVE  /\ p[1] # NoDigest => p[2] \in Green
                   /\ p[1] \notin tainted' \cup {NoDigest} => p[1] \in {p[2], Clean}
        <5>1. CASE p \in tested
          BY <4>1, <5>1 DEF TestsInv, TestRowsSound
        <5>2. CASE p \notin tested
          <6>1. /\ pending[s].kind = "tests" /\ pending[s].status = "PASS"
                /\ p = <<pending[s].digest, ran[s]>> /\ pc[s] = "record"
                /\ disturbed[s] => pending[s].digest \in tainted'
            BY <3>2, <4>2, <5>2 DEF PersistCheckedResult
          <6> QED BY <6>1 DEF TestsInv, PendingTestInv
        <5> QED BY <5>1, <5>2
      <4> QED BY <4>2 DEF TestRowsSound
    <3> QED BY <3>1, <3>2, OnlyPersistRecords
  <2>2. ASSUME NEW t \in Sessions
        PROVE  PendingTestInv(t)'
    <3>1. PendingTestInv(t)
      BY DEF TestsInv
    <3>2. CASE UNCHANGED vars
      BY <3>1, <3>2, PendingTestFrame DEF vars
    <3>3. CASE Edit \/ Commit
      BY <3>1, <3>3, PendingTestFrame DEF Edit, Commit, Move
    <3>4. ASSUME NEW s \in Sessions \ {t},
                 Call(s) \/ Status(s) \/ Handle(s) \/ Crash(s)
          PROVE  PendingTestInv(t)'
      BY <3>1, <3>4, OthersUntouched, PendingTestFrame
    <3>5. CASE Status(t)
      BY <3>1, <3>5, PendingTestFrame DEF Status, world, local
    <3>6. CASE Call(t) \/ Handle(t) \/ Crash(t)
      BY <3>1, <3>6, PendingTestStep
    <3> QED BY <3>2, <3>3, <3>4, <3>5, <3>6 DEF Next
  <2> QED BY <2>1, <2>2 DEF TestsInv
<1>3. TestsInv => TestRowsSound
  BY DEF TestsInv
<1> QED BY <1>1, <1>2, <1>3, TypeCorrect, PTL DEF Spec

-----------------------------------------------------------------------------
(* The refinement.                                                         *)

\* What a table proves depends on its rows alone.
LEMMA ProvedByRows ==
  ASSUME NEW f
  PROVE  {<<f[i].kind, f[i].digest>> : i \in {j \in DOMAIN f : Proves(f[j])}}
         = {<<r.kind, r.digest>> : r \in {q \in ToSet(f) : Proves(q)}}
<1>1. ASSUME NEW i \in DOMAIN f, Proves(f[i])
      PROVE  <<f[i].kind, f[i].digest>> \in {<<r.kind, r.digest>> : r \in {q \in ToSet(f) : Proves(q)}}
  <2>1. f[i] \in {q \in ToSet(f) : Proves(q)}
    BY <1>1, Zenon DEF ToSet
  <2> QED BY <2>1
<1>2. ASSUME NEW r \in ToSet(f), Proves(r)
      PROVE  \E i \in DOMAIN f : Proves(f[i]) /\ f[i] = r
  BY <1>2, Zenon DEF ToSet
<1> QED BY <1>1, <1>2

\* Recording a row proves at most what the row proves, and loses no proof.
LEMMA PersistProves ==
  ASSUME TypeOK, NEW s \in Sessions, PersistCheckedResult(s)
  PROVE  Proved' = Proved \cup
           (IF Proves(pending[s]) THEN {<<pending[s].kind, pending[s].digest>>} ELSE {})
<1>1. PICK rows, later, row : rows = ToSet(evidence) /\ later = ToSet(evidence') /\ row = pending[s]
  OBVIOUS
<1>2. later = rows \cup {row}
  <2>1. Keeps(evidence, evidence') /\ Holds(evidence', row) /\ AddsOnly(evidence, evidence', row)
    BY <1>1, PersistKeeps
  <2>2. rows \subseteq later
    BY <1>1, <2>1, Zenon DEF ToSet, Keeps
  <2>3. row \in later
    BY <1>1, <2>1, Zenon DEF ToSet, Holds
  <2>4. ASSUME NEW r \in later PROVE r = row \/ r \in rows
    BY <1>1, <2>1, <2>4, Zenon DEF ToSet, AddsOnly
  <2> QED BY <2>2, <2>3, <2>4
<1>3. Proved = {<<r.kind, r.digest>> : r \in {q \in rows : Proves(q)}}
  BY <1>1, ProvedByRows DEF Proved
<1>4. Proved' = {<<r.kind, r.digest>> : r \in {q \in later : Proves(q)}}
  <2>1. Proved' = {<<evidence'[i].kind, evidence'[i].digest>> :
                     i \in {j \in DOMAIN evidence' : Proves(evidence'[j])}}
    BY DEF Proved, Proves
  <2> QED BY <1>1, <2>1, ProvedByRows
<1>5. Proved' = Proved \cup (IF Proves(row) THEN {<<row.kind, row.digest>>} ELSE {})
  BY <1>2, <1>3, <1>4
<1> QED BY <1>1, <1>5

\* A step changes the directive of one session at most, and only while it leaves the
\* table and what was accepted alone.
LEMMA OneIsDirected ==
  ASSUME [Next]_vars, directive' # directive
  PROVE  \E s \in Sessions :
           /\ directive' = [directive EXCEPT ![s] = NextContinuation(contract, evidence)]
           /\ UNCHANGED <<contract, evidence, accepted>>
<1>1. CASE UNCHANGED vars
  BY <1>1 DEF vars
<1>2. CASE Edit \/ Commit
  BY <1>2 DEF Edit, Commit
<1>3. ASSUME NEW t \in Sessions, Call(t)
      PROVE  directive' = directive
  BY <1>3 DEF Call, CheckSyntax, CheckDiff, CheckTests, CheckOutcomes, Begin
<1>4. ASSUME NEW t \in Sessions, Status(t) \/ Respond(t)
      PROVE  /\ directive' = [directive EXCEPT ![t] = NextContinuation(contract, evidence)]
             /\ UNCHANGED <<contract, evidence, accepted>>
  BY <1>4 DEF Status, Respond, history
<1>5. ASSUME NEW t \in Sessions,
             \/ RunCommand(t) \/ PostSnapshot(t)
             \/ GateSyntax(t) \/ GateSyntaxSnapshot(t)
             \/ GateTests(t) \/ GateTestsSnapshot(t)
             \/ GateScope(t) \/ GateDiff(t)
             \/ PersistCheckedResult(t) \/ Crash(t)
      PROVE  directive' = directive
  BY <1>5 DEF RunCommand, PostSnapshot, GateSyntax, GateSyntaxSnapshot, GateTests,
              GateTestsSnapshot, GateScope, GateDiff, PersistCheckedResult, Crash,
              recorded
<1> QED BY <1>1, <1>2, <1>3, <1>4, <1>5 DEF Next, Handle

\* What the promise sees of the acceptances.
Reliance == {[named |-> a.rooted, digests |-> a.agreed] : a \in accepted}
Told == {s \in Sessions : directive[s] = "done"}

\* A host hears how to go on.
LEMMA TellingKept ==
  ASSUME TypeOK, EarnedInv', [Next]_vars, directive' # directive
  PROVE  [Promise!PromiseNext]_Promise!promiseVars
<1>1. PICK s \in Sessions :
        /\ directive' = [directive EXCEPT ![s] = NextContinuation(contract, evidence)]
        /\ UNCHANGED <<contract, evidence, accepted>>
  BY OneIsDirected
<1>2. Needed' = Needed /\ Proved' = Proved /\ Reliance' = Reliance
  BY <1>1 DEF Needed, IsCode, Proved, Proves, Reliance
<1>3. \A t \in Sessions \ {s} : directive'[t] = directive[t]
  BY <1>1 DEF TypeOK
<1>4. CASE Told' = Told
  BY <1>4, <1>2 DEF Promise!promiseVars, Reliance, Told
<1>5. CASE Told' # Told /\ directive'[s] = "done"
  <2>1. Told' = Told \cup {s}
    BY <1>3, <1>5 DEF Told
  <2>2. accepted # {}
    BY <1>1, <1>5 DEF EarnedInv, DoneIsEarned
  <2>3. Reliance # {}
    BY <2>2 DEF Reliance
  <2>4. Promise!TellDone(s)
    BY <1>2, <2>1, <2>3 DEF Promise!TellDone, Reliance, Told
  <2> QED BY <1>5, <2>4 DEF Promise!PromiseNext, Told
<1>6. CASE Told' # Told /\ directive'[s] # "done"
  <2>1. Told' = Told \ {s}
    BY <1>3, <1>6 DEF Told
  <2>2. Promise!TellMore(s)
    BY <1>2, <2>1 DEF Promise!TellMore, Reliance, Told
  <2> QED BY <1>6, <2>2 DEF Promise!PromiseNext, Told
<1> QED BY <1>4, <1>5, <1>6

\* An outcome is accepted on proofs that are in the table.
LEMMA AcceptanceKept ==
  ASSUME TypeOK, GateInv, [Next]_vars, NEW s \in Sessions, PersistCheckedResult(s),
         pending[s].kind = "outcomes", pending[s].status = "PASS"
  PROVE  /\ UNCHANGED <<Needed, Proved, Told>>
         /\ \E named \in BOOLEAN, digests \in SUBSET Digests : Promise!Accept(named, digests)
<1> PICK named \in BOOLEAN, digests \in SUBSET Digests : named = rooted[s] /\ digests = agreed[s]
  BY DEF TypeOK
<1>1. contract' = contract /\ directive' = directive /\ Needed' = Needed /\ Told' = Told
  BY DEF PersistCheckedResult, Needed, IsCode, Told
<1>2. Proved' = Proved
  BY PersistProves DEF Proves
<1>3. PromiseInv(s) /\ pc[s] = "record"
  BY DEF GateInv, SessionInv, PersistCheckedResult
<1>4. /\ "run_tests" \in contract.kinds => \E d \in agreed[s] : d \in TestsDigests
      /\ "scope_files" \in contract.kinds => \E d \in agreed[s] : d \in ScopeDigests
      /\ IsCode(contract) /\ rooted[s] => \E d \in agreed[s] : d \in SyntaxDigests
  BY <1>3 DEF PromiseInv, PastSyntax, PastTests
<1>5. ASSUME NEW i \in DOMAIN evidence, Proves(evidence[i])
      PROVE  <<evidence[i].kind, evidence[i].digest>> \in Proved
  BY <1>5 DEF Proved, ToSet
<1>6. /\ \A d \in SyntaxDigests : <<"syntax", d>> \in Proved
      /\ \A d \in TestsDigests : <<"tests", d>> \in Proved
      /\ \A d \in ScopeDigests : <<"diff", d>> \in Proved
  BY <1>5 DEF SyntaxDigests, TestsDigests, ScopeDigests, Attested, Proves
<1>7. Promise!Covered(named, digests)
  BY <1>4, <1>6 DEF Promise!Covered, Needed
<1>8. Reliance' = {[named |-> named, digests |-> digests]}
  BY DEF PersistCheckedResult, Reliance
<1>9. Promise!Accept(named, digests)
  BY <1>1, <1>2, <1>7, <1>8 DEF Promise!Accept, Reliance, Told
<1> QED BY <1>1, <1>2, <1>9

\* Every step is one of the promise, or none that it can see.
LEMMA PromiseStep ==
  ASSUME TypeOK, GateInv, EarnedInv', [Next]_vars
  PROVE  [Promise!PromiseNext]_Promise!promiseVars
<1>1. CASE directive' # directive
  BY <1>1, TellingKept
<1>2. ASSUME directive' = directive, UNCHANGED <<contract, evidence, accepted>>
      PROVE  UNCHANGED Promise!promiseVars
  BY <1>2 DEF Promise!promiseVars, Needed, IsCode, Proved, Proves
<1>3. ASSUME NEW s \in Sessions, PersistCheckedResult(s)
      PROVE  [Promise!PromiseNext]_Promise!promiseVars
  <2>1. contract' = contract /\ directive' = directive /\ Needed' = Needed /\ Told' = Told
    BY <1>3 DEF PersistCheckedResult, Needed, IsCode, Told
  <2>2. CASE pending[s].kind = "outcomes" /\ pending[s].status = "PASS"
    <3>1. CASE Reliance' = Reliance
      BY <1>3, <2>2, <3>1, AcceptanceKept DEF Promise!promiseVars, Reliance, Told
    <3>2. CASE Reliance' # Reliance
      BY <1>3, <2>2, <3>2, AcceptanceKept DEF Promise!PromiseNext, Reliance
    <3> QED BY <3>1, <3>2
  <2>3. CASE ~(pending[s].kind = "outcomes" /\ pending[s].status = "PASS")
    <3>1. Reliance' = Reliance
      BY <1>3, <2>3 DEF PersistCheckedResult, Reliance
    <3>2. CASE Proved' # Proved
      <4>1. Proves(pending[s])
        BY <1>3, <3>2, PersistProves
      <4>2. Promise!Prove(<<pending[s].kind, pending[s].digest>>)
        BY <1>3, <2>1, <3>1, <4>1, PersistProves DEF Promise!Prove, Reliance, Told
      <4>3. <<pending[s].kind, pending[s].digest>> \in Checks \X Digests
        BY DEF TypeOK, Record
      <4> QED BY <3>2, <4>2, <4>3 DEF Promise!PromiseNext
    <3>3. CASE Proved' = Proved
      BY <2>1, <3>1, <3>3 DEF Promise!promiseVars, Reliance, Told
    <3> QED BY <3>2, <3>3
  <2> QED BY <2>2, <2>3
<1>4. contract' = contract
  BY DigestsGrow
<1> QED BY <1>1, <1>2, <1>3, <1>4, OnlyPersistRecords

\* The gate implements its promise: every step proves one check more, accepts an
\* outcome on what is proved at that moment, or tells one host how to go on, and "done"
\* only after an acceptance (see KeepsPromise); for any number of sessions, any
\* contract, requests, windows, edits and crashes.
THEOREM PromiseKept == Spec => KeepsPromise
<1>1. Init => Promise!PromiseInit
  <2> SUFFICES ASSUME Init PROVE Promise!PromiseInit
    OBVIOUS
  <2>1. \A s \in Sessions : directive[s] # "done"
    BY DoneHasOutcome DEF Init
  <2>2. DOMAIN evidence = {} /\ accepted = {}
    BY DEF Init
  <2>3. Proved = {}
    BY <2>2, Zenon DEF Proved
  <2> QED BY <2>1, <2>2, <2>3 DEF Promise!PromiseInit
<1>2. TypeOK /\ GateInv /\ EarnedInv' /\ [Next]_vars => [Promise!PromiseNext]_Promise!promiseVars
  BY PromiseStep
<1> QED
  BY <1>1, <1>2, GateInit, GateNext, EarnedInit, EarnedNext, TypeCorrect, PTL
  DEF Spec, KeepsPromise, Promise!PromiseSpec
=============================================================================
