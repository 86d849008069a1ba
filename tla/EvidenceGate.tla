---------------------------- MODULE EvidenceGate ----------------------------
(***************************************************************************)
(* One durable workflow run of the Elite gateway: the evidence it collects,*)
(* the verifiers that produce it, the outcome gate that accepts or rejects *)
(* it, and the continuation directive derived from it.                     *)
(*                                                                         *)
(* The actors are                                                          *)
(*   - Sessions: server processes (one per IDE window) that share the      *)
(*     store and serve elite_verify calls on the run, one at a time each;  *)
(*   - the editor: the IDE, the user or another tool, which changes or     *)
(*     commits the working tree at any moment, also in the middle of a     *)
(*     verifier.                                                           *)
(* A handler is split where another actor can get in between: at every Git *)
(* snapshot, at every query of the store, and around the subprocess.       *)
(***************************************************************************)
EXTENDS Naturals, Sequences, FiniteSets, SequencesExt

CONSTANTS
  Sessions,         \* server processes that serve this run
  Trees,            \* contents the working tree may have
  Base,             \* the committed tree when the run is prepared
  Green,            \* trees on which the allowlisted command can succeed
  InScope,          \* trees whose changed paths are all allowed by the contract
  Contracts,        \* task contracts elite_prepare may compile
  Events,           \* which of "snapshot", "command", "flaky", "commit", "crash" happen
  GateWindow,       \* limit=20 of the gate's evidence queries
  DirectiveWindow,  \* limit=200 of the directive's evidence query
  Requests,         \* the elite_verify requests hosts make
  MaxMoves,         \* bound: changes of the worktree and of HEAD
  MaxRows,          \* bound: distinct evidence rows of each check in one run
  Clean,            \* digest of a worktree without changes
  NoDigest          \* the empty digest: no project_root, or no usable snapshot

Checks == {"syntax", "diff", "tests", "outcomes"}

ASSUME TreesAssumption ==
  /\ Base \in Trees
  /\ Green \subseteq Trees
  /\ InScope \subseteq Trees
  /\ Clean \notin Trees
  /\ NoDigest \notin Trees \cup {Clean}

ASSUME ContractsAssumption ==
  Contracts \subseteq [kinds : SUBSET {"run_tests", "scope_files"},
                       code_deliverable : BOOLEAN]

\* What a request may carry: whether it names the project_root, whether the
\* submitted code parses ("syntax"), whether the scope policy is the contract's
\* own ("diff"), which constraint ids the draft leaves unmet ("outcomes").
ASSUME RequestsAssumption ==
  Requests \subseteq [check   : Checks,
                      root    : BOOLEAN,
                      valid   : BOOLEAN,
                      policy  : {"contract", "other"},
                      missing : SUBSET {"run_tests", "scope_files", "draft"}]

ASSUME BoundsAssumption ==
  /\ GateWindow \in Nat \ {0}
  /\ DirectiveWindow \in Nat \ {0}
  /\ MaxMoves \in Nat
  /\ MaxRows \in [Checks -> Nat]

VARIABLES
  repo,       \* contents of the working tree now
  head,       \* contents of the commit it is compared with
  moves,      \* changes of either so far
  contract,   \* workflow_runs.task_contract of the run
  evidence,   \* workflow_evidence of the run, oldest row first
  pc,         \* where each session's handler stands
  rooted,     \* whether the request named a project_root
  pending,    \* the evidence record the handler is building
  expected,   \* digest the handler is about to compare
  directive,  \* checkpoint of the last continuation each host received
  \* History variables; no handler reads them.
  ran,        \* tree under test: seen by the command, or by the gate
  disturbed,  \* the worktree or HEAD changed since the session's call began
  agreed,     \* digests the running gate compared successfully
  tested,     \* <<digest, tree>> of the passing test rows: bound to, run on
  tainted,    \* digests of passing test rows recorded by a disturbed call
  accepted    \* the last outcome the gate let pass, with what it relied on

world == <<repo, head, moves>>
recorded == <<contract, evidence, directive>>
local == <<pc, rooted, pending, expected, ran, disturbed, agreed>>
history == <<tested, tainted, accepted>>
vars == <<repo, head, moves, contract, evidence, pc, rooted, pending, expected,
          directive, ran, disturbed, agreed, tested, tainted, accepted>>

-----------------------------------------------------------------------------
(* Values.                                                                 *)

Digests == Trees \cup {Clean, NoDigest}

\* A row of workflow_evidence, reduced to what some reader uses. Rows with the
\* same fields have the same evidence_id: the id digests producer, subject and
\* payload.
\*   digest  repository_snapshot_digest of the payload (for "diff", the
\*           subject digest; for "outcomes", what evidence_gate reports)
\*   policy  for "diff": the digested scope policy is the contract's own, or
\*           one that the request widened or changed
\*   unmet   for "outcomes": the prefixes of the unmet items
Record == [kind   : Checks,
           status : {"PASS", "FAIL", "UNKNOWN", "NOT_CHECKED"},
           digest : Digests,
           policy : {"contract", "other"},
           unmet  : SUBSET {"syntax", "run_tests", "scope_files", "draft"}]

Row(kind, status, digest) ==
  [kind |-> kind, status |-> status, digest |-> digest,
   policy |-> "contract", unmet |-> {}]

Blank == Row("syntax", "NOT_CHECKED", NoDigest)

StatusFromBool(passed) == IF passed THEN "PASS" ELSE "FAIL"

IsCode(c) == c.kinds # {} \/ c.code_deliverable

\* git status lists the paths that differ from HEAD and their contents; HEAD
\* itself is not digested, so every committed worktree has the same digest.
WorktreeDigest == IF repo = head THEN Clean ELSE repo

\* What a snapshot may return now: the digest, or nothing when Git fails, times
\* out, or a file is oversized, unreadable or changing while it is read.
Snapshots ==
  {WorktreeDigest} \cup (IF "snapshot" \in Events THEN {NoDigest} ELSE {})

\* Paths changed against HEAD lie within the contract's allowed files.
WithinScope(digest) == digest = Clean \/ digest \in InScope

-----------------------------------------------------------------------------
(* The evidence table.                                                     *)

\* INSERT OR REPLACE on (run_id, evidence_id): a row recorded again is deleted
\* and inserted with a new rowid, so it becomes the newest.
RecordEvidence(rows, r) ==
  IF \E i \in DOMAIN rows : rows[i] = r
  THEN LET i == CHOOSE j \in DOMAIN rows : rows[j] = r
       IN Append(RemoveAt(rows, i), r)
  ELSE Append(rows, r)

\* Positions of the rows of one kind that a query with LIMIT w returns.
RecentOf(rows, kind, w) ==
  {i \in DOMAIN rows :
     /\ rows[i].kind = kind
     /\ Cardinality({j \in (i + 1)..Len(rows) : rows[j].kind = kind}) < w}

\* The newest passing row of a kind that the gate sees: a set of at most one.
NewestPass(rows, kind) ==
  LET passing == {i \in RecentOf(rows, kind, GateWindow) : rows[i].status = "PASS"}
  IN {rows[i] : i \in {j \in passing : \A k \in passing : k <= j}}

-----------------------------------------------------------------------------
(* The continuation directive.                                             *)

Checkpoints == {"verify_changed_code", "verify_repository_scope", "run_tests",
                "verify_outcomes", "done"}

Window(rows) == {i \in DOMAIN rows : i > Len(rows) - DirectiveWindow}

\* The newest of the given positions, 0 when there is none.
Newest(S) == IF S = {} THEN 0 ELSE Max(S)

Passing(rows, kind) ==
  Newest({i \in Window(rows) : rows[i].kind = kind /\ rows[i].status = "PASS"})

LatestOutcome(rows) == Newest({i \in Window(rows) : rows[i].kind = "outcomes"})

\* Slip, for mutation: a reopened check stays open after it passed again.
StaleForGood(rows, kind, label) ==
  LET o == LatestOutcome(rows)
  IN o # 0 /\ rows[o].status = "FAIL" /\ label \in rows[o].unmet

\* The latest outcome failed because of this check, and no passing row of the
\* check is newer than that outcome.
Stale(rows, kind, label) ==
  LET o == LatestOutcome(rows)
  IN /\ o # 0
     /\ rows[o].status = "FAIL"
     /\ label \in rows[o].unmet
     /\ Passing(rows, kind) < o

Due(rows, kind, label) == Passing(rows, kind) = 0 \/ Stale(rows, kind, label)

\* Slip, for mutation: the final gate counts as passed once it has been run.
NextContinuationAnyOutcome(c, rows) ==
  IF LatestOutcome(rows) = 0 THEN "verify_outcomes" ELSE "done"

NextContinuation(c, rows) ==
  IF IsCode(c) /\ Due(rows, "syntax", "syntax") THEN "verify_changed_code"
  ELSE IF "scope_files" \in c.kinds /\ Due(rows, "diff", "scope_files")
    THEN "verify_repository_scope"
  ELSE IF "run_tests" \in c.kinds /\ Due(rows, "tests", "run_tests")
    THEN "run_tests"
  ELSE IF Passing(rows, "outcomes") = 0 THEN "verify_outcomes"
  ELSE "done"

-----------------------------------------------------------------------------
(* The run has just been recorded by elite_prepare: no evidence yet, and the *)
(* host that prepared it holds the first directive.                        *)

Init ==
  /\ repo = Base /\ head = Base /\ moves = 0
  /\ contract \in Contracts
  /\ evidence = <<>>
  /\ pc = [s \in Sessions |-> "idle"]
  /\ rooted = [s \in Sessions |-> FALSE]
  /\ pending = [s \in Sessions |-> Blank]
  /\ expected = [s \in Sessions |-> NoDigest]
  /\ directive = [s \in Sessions |-> NextContinuation(contract, <<>>)]
  /\ ran = [s \in Sessions |-> NoDigest]
  /\ disturbed = [s \in Sessions |-> FALSE]
  /\ agreed = [s \in Sessions |-> {}]
  /\ tested = {} /\ tainted = {} /\ accepted = {}

-----------------------------------------------------------------------------
(* The editor.                                                             *)

Move ==
  /\ moves < MaxMoves /\ moves' = moves + 1
  /\ disturbed' = [s \in Sessions |-> disturbed[s] \/ pc[s] \notin {"idle", "respond"}]

\* The worktree gets other contents.
Edit ==
  /\ \E t \in Trees \ {repo} : repo' = t
  /\ Move
  /\ UNCHANGED <<head, contract, evidence, pc, rooted, pending, expected,
                 directive, ran, agreed, history>>

\* The worktree is committed: nothing is changed against HEAD any more.
Commit ==
  /\ "commit" \in Events
  /\ head # repo /\ head' = repo
  /\ Move
  /\ UNCHANGED <<repo, contract, evidence, pc, rooted, pending, expected,
                 directive, ran, agreed, history>>

-----------------------------------------------------------------------------
(* The verifiers. A call begins in an idle session with a request that may *)
(* name the project_root or leave it out.                                  *)

Begin(s, root) ==
  /\ pc[s] = "idle"
  /\ rooted' = [rooted EXCEPT ![s] = root]
  /\ disturbed' = [disturbed EXCEPT ![s] = FALSE]
  /\ agreed' = [agreed EXCEPT ![s] = {}]
  /\ UNCHANGED <<world, contract, evidence, expected, directive, history>>

Goto(s, label) == pc' = [pc EXCEPT ![s] = label]

\* check="syntax": validates the code in the request, which need not be the
\* code in the worktree, then digests the worktree.
CheckSyntax(s, root, valid) ==
  /\ Begin(s, root)
  /\ \E d \in IF root THEN Snapshots ELSE {NoDigest} :
       pending' = [pending EXCEPT ![s] = Row("syntax", StatusFromBool(valid), d)]
  /\ Goto(s, "record")
  /\ UNCHANGED ran

\* Verdicts of verify_git_diff on a digest. Without project_root it inspects
\* the server's working directory, here a repository other than the project.
DiffVerdicts(root, d, policy) ==
  CASE ~root                            -> {"PASS", "FAIL", "UNKNOWN"}
    [] root /\ d = NoDigest             -> {"UNKNOWN"}
    [] root /\ d # NoDigest /\ policy = "other" -> {"PASS", "FAIL"}
    [] root /\ d # NoDigest /\ policy = "contract" ->
         IF "scope_files" \in contract.kinds
         THEN {StatusFromBool(WithinScope(d))}
         ELSE {"NOT_CHECKED"}

\* check="diff": the policy digested is the request's allowed_files followed
\* by the contract's, and forbid_dependency_changes.
CheckDiff(s, root, policy) ==
  /\ Begin(s, root)
  /\ \E d \in IF root THEN Snapshots ELSE {NoDigest} :
       \E verdict \in DiffVerdicts(root, d, policy) :
         pending' = [pending EXCEPT
           ![s] = [Row("diff", verdict, d) EXCEPT !.policy = policy]]
  /\ Goto(s, "record")
  /\ UNCHANGED ran

\* check="tests": the first snapshot only resolves the repository root; its
\* digest is dropped. Without a resolved root nothing runs.
CheckTests(s, root) ==
  /\ Begin(s, root)
  /\ pending' = [pending EXCEPT ![s] = Row("tests", "UNKNOWN", NoDigest)]
  /\ \/ Goto(s, "command")
     \/ root /\ NoDigest \in Snapshots /\ Goto(s, "record")
  /\ UNCHANGED ran

\* Statuses of a command run on a tree; "flaky": it may fail on a good tree,
\* "command": it times out, or the server does not allow it.
CommandVerdicts(root, tree) ==
  (IF tree \in Green \/ ~root THEN {"PASS"} ELSE {"FAIL"})
    \cup (IF "flaky" \in Events \/ ~root THEN {"FAIL"} ELSE {})
    \cup (IF "command" \in Events THEN {"UNKNOWN", "NOT_CHECKED"} ELSE {})

\* Slip, for mutation: a command that ran counts as one that passed.
RunCommandExecutedIsPass(s) ==
  /\ pc[s] = "command"
  /\ \E verdict \in CommandVerdicts(rooted[s], repo) :
       pending' = [pending EXCEPT
         ![s].status = IF verdict = "FAIL" THEN "PASS" ELSE verdict]
  /\ ran' = [ran EXCEPT ![s] = repo]
  /\ Goto(s, IF rooted[s] THEN "post_snapshot" ELSE "record")
  /\ UNCHANGED <<world, recorded, rooted, expected, disturbed, agreed, history>>

\* The command reads the tree as it is when it runs.
RunCommand(s) ==
  /\ pc[s] = "command"
  /\ \E verdict \in CommandVerdicts(rooted[s], repo) :
       pending' = [pending EXCEPT ![s].status = verdict]
  /\ ran' = [ran EXCEPT ![s] = repo]
  /\ Goto(s, IF rooted[s] THEN "post_snapshot" ELSE "record")
  /\ UNCHANGED <<world, recorded, rooted, expected, disturbed, agreed, history>>

\* The digest the record is bound to is taken after the command has ended.
PostSnapshot(s) ==
  /\ pc[s] = "post_snapshot"
  /\ \E d \in Snapshots : pending' = [pending EXCEPT ![s].digest = d]
  /\ Goto(s, "record")
  /\ UNCHANGED <<world, recorded, rooted, expected, ran, disturbed, agreed,
                 history>>

\* What a draft may leave unmet: the constraint ids of the contract, of which
\* "run_tests" and "scope_files" are two; the others are one "draft" here.
DraftLabels == contract.kinds \cup {"draft"}

\* check="outcomes": the draft is checked against the contract, then the gate
\* runs through the evidence the contract asks for.
CheckOutcomes(s, root, missing) ==
  /\ missing \subseteq DraftLabels
  /\ Begin(s, root)
  /\ pending' = [pending EXCEPT
       ![s] = [Row("outcomes", StatusFromBool(missing = {}), NoDigest)
                 EXCEPT !.unmet = missing]]
  /\ Goto(s, IF IsCode(contract) THEN "gate_syntax" ELSE "record")
  /\ UNCHANGED ran

-----------------------------------------------------------------------------
(* The outcome gate: syntax, then tests, then scope, as the contract asks. *)

\* Slip, for mutation: the item is prefixed with the check, not the constraint.
UnmetByCheck(row, label) ==
  [row EXCEPT !.status = "FAIL",
              !.unmet = @ \cup {IF label = "run_tests" THEN "tests" ELSE label}]

Unmet(row, label) == [row EXCEPT !.status = "FAIL", !.unmet = @ \cup {label}]

AfterTests == IF "scope_files" \in contract.kinds THEN "gate_scope" ELSE "record"

AfterSyntax == IF "run_tests" \in contract.kinds THEN "gate_tests" ELSE AfterTests

\* Reads the newest passing syntax row; only a request with a project_root
\* asks whether the row is bound to a snapshot, and to the current one.
GateSyntax(s) ==
  /\ pc[s] = "gate_syntax"
  /\ LET found == NewestPass(evidence, "syntax") IN
     \/ /\ found = {} \/ (rooted[s] /\ \E r \in found : r.digest = NoDigest)
        /\ pending' = [pending EXCEPT ![s] = Unmet(@, "syntax")]
        /\ Goto(s, AfterSyntax)
        /\ UNCHANGED expected
     \/ /\ found # {} /\ ~rooted[s]
        /\ Goto(s, AfterSyntax)
        /\ UNCHANGED <<pending, expected>>
     \/ \E r \in found :
        /\ rooted[s] /\ r.digest # NoDigest
        /\ expected' = [expected EXCEPT ![s] = r.digest]
        /\ Goto(s, "gate_syntax_snapshot")
        /\ UNCHANGED pending
  /\ UNCHANGED <<world, recorded, rooted, ran, disturbed, agreed, history>>

GateSyntaxSnapshot(s) ==
  /\ pc[s] = "gate_syntax_snapshot"
  /\ \E d \in Snapshots :
       IF d = expected[s]
       THEN /\ agreed' = [agreed EXCEPT ![s] = @ \cup {d}]
            /\ UNCHANGED pending
       ELSE /\ pending' = [pending EXCEPT ![s] = Unmet(@, "syntax")]
            /\ UNCHANGED agreed
  /\ expected' = [expected EXCEPT ![s] = NoDigest]
  /\ Goto(s, AfterSyntax)
  /\ UNCHANGED <<world, recorded, rooted, ran, disturbed, history>>

\* Reads the newest passing executed test row; it must be bound, and the
\* request must name the project_root.
GateTests(s) ==
  /\ pc[s] = "gate_tests"
  /\ LET found == NewestPass(evidence, "tests") IN
     \/ /\ found = {} \/ ~rooted[s] \/ \E r \in found : r.digest = NoDigest
        /\ pending' = [pending EXCEPT ![s] = Unmet(@, "run_tests")]
        /\ Goto(s, AfterTests)
        /\ UNCHANGED expected
     \/ \E r \in found :
        /\ rooted[s] /\ r.digest # NoDigest
        /\ expected' = [expected EXCEPT ![s] = r.digest]
        /\ Goto(s, "gate_tests_snapshot")
        /\ UNCHANGED pending
  /\ UNCHANGED <<world, recorded, rooted, ran, disturbed, agreed, history>>

GateTestsSnapshot(s) ==
  /\ pc[s] = "gate_tests_snapshot"
  /\ \E d \in Snapshots :
       IF d = expected[s]
       THEN /\ pending' = [pending EXCEPT ![s].digest = d]
            /\ agreed' = [agreed EXCEPT ![s] = @ \cup {d}]
       ELSE /\ pending' = [pending EXCEPT
                 ![s] = [Unmet(@, "run_tests") EXCEPT !.digest = d]]
            /\ UNCHANGED agreed
  /\ ran' = [ran EXCEPT ![s] = repo]
  /\ expected' = [expected EXCEPT ![s] = NoDigest]
  /\ Goto(s, AfterTests)
  /\ UNCHANGED <<world, recorded, rooted, disturbed, history>>

\* Checks the scope of the worktree against the contract's files.
GateScope(s) ==
  /\ pc[s] = "gate_scope"
  /\ \/ /\ ~rooted[s]
        /\ pending' = [pending EXCEPT ![s] = Unmet(@, "scope_files")]
        /\ Goto(s, "record")
        /\ UNCHANGED expected
     \/ \E d \in Snapshots :
        /\ rooted[s]
        /\ pending' = [pending EXCEPT
             ![s] = IF d # NoDigest /\ WithinScope(d) THEN @
                    ELSE Unmet(@, "scope_files")]
        /\ expected' = [expected EXCEPT ![s] = d]
        /\ Goto(s, "gate_diff")
  /\ UNCHANGED <<world, recorded, rooted, ran, disturbed, agreed, history>>

\* Slip, for mutation: a scope row counts whatever policy it was checked under.
GateDiffAnyPolicy(s) ==
  /\ pc[s] = "gate_diff"
  /\ \E matches \in BOOLEAN :
       /\ matches <=> (\E r \in NewestPass(evidence, "diff") : r.digest = expected[s])
       /\ IF matches
          THEN /\ agreed' = [agreed EXCEPT ![s] = @ \cup {expected[s]}]
               /\ UNCHANGED pending
          ELSE /\ pending' = [pending EXCEPT ![s] = Unmet(@, "scope_files")]
               /\ UNCHANGED agreed
  /\ Goto(s, "record")
  /\ UNCHANGED <<world, recorded, rooted, expected, ran, disturbed, history>>

\* Compares that snapshot with the newest passing scope row, policy included.
GateDiff(s) ==
  /\ pc[s] = "gate_diff"
  /\ IF \E r \in NewestPass(evidence, "diff") :
          /\ r.digest = expected[s] /\ expected[s] # NoDigest
          /\ r.policy = "contract"
     THEN /\ agreed' = [agreed EXCEPT ![s] = @ \cup {expected[s]}]
          /\ UNCHANGED pending
     ELSE /\ pending' = [pending EXCEPT ![s] = Unmet(@, "scope_files")]
          /\ UNCHANGED agreed
  /\ Goto(s, "record")
  /\ UNCHANGED <<world, recorded, rooted, expected, ran, disturbed, history>>

-----------------------------------------------------------------------------
(* The end of every call.                                                  *)

\* The locals of a finished or dead call mean nothing any more.
Discard(s) ==
  /\ rooted' = [rooted EXCEPT ![s] = FALSE]
  /\ pending' = [pending EXCEPT ![s] = Blank]
  /\ expected' = [expected EXCEPT ![s] = NoDigest]
  /\ ran' = [ran EXCEPT ![s] = NoDigest]
  /\ disturbed' = [disturbed EXCEPT ![s] = FALSE]
  /\ agreed' = [agreed EXCEPT ![s] = {}]

\* _persist_checked_result; also the history of what was recorded.
PersistCheckedResult(s) ==
  LET row == pending[s]
      passed == row.status = "PASS"
  IN /\ pc[s] = "record"
     /\ \/ \E i \in DOMAIN evidence : evidence[i] = row
        \/ Cardinality({i \in DOMAIN evidence : evidence[i].kind = row.kind})
             < MaxRows[row.kind]
     /\ evidence' = RecordEvidence(evidence, row)
     /\ tested' = IF row.kind = "tests" /\ passed
                  THEN tested \cup {<<row.digest, ran[s]>>} ELSE tested
     /\ tainted' = IF row.kind = "tests" /\ passed /\ disturbed[s]
                   THEN tainted \cup {row.digest} ELSE tainted
     /\ accepted' = IF row.kind = "outcomes" /\ passed
                    THEN {[rooted |-> rooted[s], agreed |-> agreed[s],
                           tree |-> ran[s], quiet |-> ~disturbed[s]]}
                    ELSE accepted
     /\ Goto(s, "respond")
     /\ Discard(s)
     /\ UNCHANGED <<world, contract, directive>>

\* The response carries the directive computed from a fresh query.
Respond(s) ==
  /\ pc[s] = "respond"
  /\ directive' = [directive EXCEPT ![s] = NextContinuation(contract, evidence)]
  /\ Goto(s, "idle")
  /\ UNCHANGED <<world, contract, evidence, rooted, pending, expected, ran,
                 disturbed, agreed, history>>

\* check="status": a session recovers the directive without checking anything.
Status(s) ==
  /\ pc[s] = "idle"
  /\ directive' = [directive EXCEPT ![s] = NextContinuation(contract, evidence)]
  /\ UNCHANGED <<world, contract, evidence, local, history>>

\* The server process dies during a call and is started again by the host.
Crash(s) ==
  /\ "crash" \in Events
  /\ pc[s] # "idle"
  /\ Goto(s, "idle")
  /\ Discard(s)
  /\ UNCHANGED <<world, contract, evidence, directive, history>>

-----------------------------------------------------------------------------
\* What a session does once a request is in.
Handle(s) ==
  \/ RunCommand(s) \/ PostSnapshot(s)
  \/ GateSyntax(s) \/ GateSyntaxSnapshot(s)
  \/ GateTests(s) \/ GateTestsSnapshot(s)
  \/ GateScope(s) \/ GateDiff(s)
  \/ PersistCheckedResult(s) \/ Respond(s)

\* A host may make any request at any time.
Call(s) ==
  \E q \in Requests :
    \/ q.check = "syntax" /\ CheckSyntax(s, q.root, q.valid)
    \/ q.check = "diff" /\ CheckDiff(s, q.root, q.policy)
    \/ q.check = "tests" /\ CheckTests(s, q.root)
    \/ q.check = "outcomes" /\ CheckOutcomes(s, q.root, q.missing)

Next ==
  \/ Edit \/ Commit
  \/ \E s \in Sessions : Call(s) \/ Status(s) \/ Handle(s) \/ Crash(s)

Spec == Init /\ [][Next]_vars

-----------------------------------------------------------------------------
(* Properties.                                                             *)

SessionStates ==
  {"idle", "command", "post_snapshot", "gate_syntax", "gate_syntax_snapshot",
   "gate_tests", "gate_tests_snapshot", "gate_scope", "gate_diff", "record",
   "respond"}

Acceptance == [rooted : BOOLEAN, agreed : SUBSET Digests, tree : Trees \cup {NoDigest},
               quiet : BOOLEAN]

\* Every variable has its type.
TypeOK ==
  /\ repo \in Trees /\ head \in Trees /\ moves \in 0..MaxMoves
  /\ contract \in Contracts
  /\ evidence \in Seq(Record)
  /\ pc \in [Sessions -> SessionStates]
  /\ rooted \in [Sessions -> BOOLEAN]
  /\ pending \in [Sessions -> Record]
  /\ expected \in [Sessions -> Digests]
  /\ directive \in [Sessions -> Checkpoints]
  /\ ran \in [Sessions -> Trees \cup {NoDigest}]
  /\ disturbed \in [Sessions -> BOOLEAN]
  /\ agreed \in [Sessions -> SUBSET Digests]
  /\ tested \subseteq Digests \X (Trees \cup {NoDigest})
  /\ tainted \subseteq Digests
  /\ accepted \subseteq Acceptance

\* Some passing row of the kind is bound to the digest.
Attested(kind, digest) ==
  \E i \in DOMAIN evidence :
    /\ evidence[i].kind = kind /\ evidence[i].status = "PASS"
    /\ evidence[i].digest = digest

\* Prose never replaces evidence: whatever was called, by whom and in which
\* order, an outcome passed the gate only on digests that the gate itself read
\* from the worktree and that stored passing rows of each required check carry;
\* the scope row was checked under the contract's own policy (registry.py
\* _gate_outcomes). If nothing moved the worktree during the gate, all these
\* rows are bound to one digest.
GateSound ==
  \A a \in accepted :
    /\ "run_tests" \in contract.kinds =>
         \E d \in a.agreed : d # NoDigest /\ Attested("tests", d)
    /\ "scope_files" \in contract.kinds =>
         \E d \in a.agreed :
           /\ WithinScope(d) /\ d # NoDigest
           /\ \E i \in DOMAIN evidence :
                /\ evidence[i].kind = "diff" /\ evidence[i].status = "PASS"
                /\ evidence[i].policy = "contract" /\ evidence[i].digest = d
    /\ IsCode(contract) /\ a.rooted =>
         \E d \in a.agreed : d # NoDigest /\ Attested("syntax", d)
    /\ a.quiet => \A d, e \in a.agreed : d = e

\* A passing test row that was collected while nothing moved the worktree is
\* bound to the tree the command ran on, and that tree passes (registry.py
\* TestCommandVerifier).
TestRowsSound ==
  \A p \in tested :
    /\ p[1] # NoDigest => p[2] \in Green
    /\ p[1] \notin tainted \cup {NoDigest} => p[1] \in {p[2], Clean}

\* What the promise of the gate is about, in the rows: the checks that the contract
\* asks for, and what passing rows that are bound to a digest prove.
Needed == (IF IsCode(contract) THEN {"syntax"} ELSE {})
            \cup (IF "run_tests" \in contract.kinds THEN {"tests"} ELSE {})
            \cup (IF "scope_files" \in contract.kinds THEN {"diff"} ELSE {})

Proves(row) ==
  /\ row.kind # "outcomes" /\ row.status = "PASS"
  /\ row.digest # NoDigest /\ (row.kind = "diff" => row.policy = "contract")

Proved == {<<evidence[i].kind, evidence[i].digest>> : i \in {j \in DOMAIN evidence : Proves(evidence[j])}}

Promise == INSTANCE GatePromise WITH
  Hosts <- Sessions, Proofs <- Checks \X Digests, needs <- Needed, proved <- Proved,
  relied <- {[named |-> a.rooted, digests |-> a.agreed] : a \in accepted},
  told <- {s \in Sessions : directive[s] = "done"}

\* The gate keeps its promise: whatever sessions, hosts, crashes and retries do, each
\* step proves one check more, accepts an outcome whose needs are proved by stored
\* rows of the digests compared, or tells one host how to go on, "done" only after an
\* acceptance; and no proof is lost (registry.py _gate_outcomes, continuity.py
\* next_continuation, persistent_store.py record_workflow_evidence).
KeepsPromise == Promise!PromiseSpec

\* No host is told that it may answer before some outcome passed the gate
\* (continuity.py next_continuation).
DoneIsEarned == \A s \in Sessions : directive[s] = "done" => accepted # {}

\* Evidence is never lost: a call, a crash or a retry may move a row to the
\* end, but never drops one (persistent_store.py record_workflow_evidence).
EvidenceKept == [][ToSet(evidence) \subseteq ToSet(evidence')]_vars

-----------------------------------------------------------------------------
(* What the documents say and the code does not do.                        *)

\* "All required checkpoints have current passing evidence" (continuity.py):
\* a directive never says done while the latest outcome of the run failed.
DoneMeansLatestOutcomePassed ==
  NextContinuation(contract, evidence) = "done" =>
    evidence[LatestOutcome(evidence)].status = "PASS"

\* "independently executed test evidence bound to repository state": the tree
\* that an accepted outcome was compared with is one the tests passed on.
AcceptedTreeWasTested ==
  "run_tests" \in contract.kinds =>
    \A a \in accepted : \E p \in tested : p[2] = a.tree

\* The same, for outcomes and test rows during whose collection nothing moved
\* the worktree.
QuietAcceptedTreeWasTested ==
  "run_tests" \in contract.kinds =>
    \A a \in accepted :
      a.quiet /\ a.agreed \cap tainted = {} => \E p \in tested : p[2] = a.tree
=============================================================================
