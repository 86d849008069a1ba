# Elite Reasoning MCP: TLA+ models, checks and proofs

This directory holds specifications of the parts of the Elite Reasoning MCP
server whose correctness depends on order, concurrency, failure or a boundary:
the evidence workflow behind `elite_prepare` and `elite_verify`, the store and
everything several processes do to it at once, team synchronisation, and the
decision procedures a user relies on. Every definition is translated from the
code named beside it in `PROJECT.json` (`map`).

Run a check with `tlc -config <Run>.cfg <Module>.tla`, a proof with
`tlapm <Module>.tla`.

## 1. The system

| Component | State it keeps | Operations | What makes it hard | What makes it correct |
|---|---|---|---|---|
| Gateway (`core/tools/gateway.py`) | none of its own | `elite_prepare`, `elite_verify`, `elite_memory` | a handler reads and writes the store several times | responses describe stored facts |
| Verifier registry and outcome gate (`core/verification/registry.py`) | none | `syntax`, `diff`, `tests`, `outcomes`, `evidence`, `grounding` | the working tree changes while a verifier runs; up to three snapshots and three queries in one gate | no outcome passes without current evidence |
| Git snapshot, command runner (`git_diff.py`, `command.py`) | none | digest of the working tree; an allowlisted command | Git fails, files change under it, commands time out | a record is bound to what was checked |
| Evidence store (`persistent_store.py`, workflow tables) | `workflow_runs`, `workflow_steps`, `workflow_evidence` | record, list, update | several IDE windows share one database | evidence is never lost |
| Continuity directive (`core/orchestration/continuity.py`) | none; a function of contract and evidence | `next_continuation` | recency of rows, limits of queries | a host is neither released early nor sent in circles |
| Step tracker (`update_workflow_step`) | step statuses, run status | `check=progress`, `workflow_update_step` | three autocommitted statements | the run status agrees with the steps |
| Task contracts (`reasoning/task_contract.py`) | the stored contract | compile, redact, store, read back, judge a draft | limits, overlapping patterns, redaction of JSON text | a draft is done when it does what was asked |
| Sync client (`core/tools/planning.py`) | cursor file, quarantined memory | pull, push, both | second precision, lost answers, two windows on one cursor | no record is skipped |
| Sync hub (`core/integration/sync_server.py`) | rows, content hashes (a second database), users, skills, request windows | pull, push, register, share, rate limit | handlers await a judge; a client that gives up does not stop its handler | one copy of each content, nothing refused that is not stored |
| Quality-gated memory | `memory_items` | remember, approve, forget, search | upsert by content hash, several callers | unreviewed or sensitive content stays out of context |
| Opening, migration, backup (`database.py`, `persistent_store.py`) | database file, its log, backups, ledger | open, migrate, restore | every window opens the store by itself, and may die anywhere | no acknowledged row is lost, nothing raw is called sanitized |
| Pool and transactions (`connection_pool.py`) | SQLite's lock, connections | records in several tables | rollback, death, statements outside a transaction | all or nothing |
| Rule lifecycle and buses (`core/learning`, `middleware/prevention.py`) | counters and states in `prevention_rules`, a cache per process | evaluate, judge, tick, change by hand | long sequences, stale caches | a rule changes state for a stated reason |
| Missed detections, reports (`tools/adaptive.py`, `persistent_store.py`) | detections, rules, scores, prompts, goals | report a miss, make a rule, status report | a report of nine reads | a report is true of the store |
| Past-mistake recall (`hybrid_search.py`, `injection.py`, `injection_optimizer.py`) | mistakes, indices, injection log | search, inject, report, optimize, quarantine | fused rankings, thresholds, stale statistics | the better mistake is shown, the pool does not flap |
| Middleware chain, optimizer (`core/middleware`, `core/scheduler`) | per-call context, cooldowns, goals | before, call, retry, after, scan | a retry repeats a call that has written | answers tell what happened |
| Verifier plugins and receipts (`plugins`, `verification/registry.py`, `contracts`) | a registry | register, verify, receipt, champion | any order and any names of plugins | what is called acceptable complies |
| Evidence retrieval (`core/evidence`) | none | search, read, quote, ground | engines and pages fail and change | a pass rests on pages that were read |
| Paired trial (`core/eval/blind_protocol.py`) | table of outcomes | McNemar test, ship rule | float comparisons at a threshold | evidence moves the decision its own way |
| Symbol index (`core/search/symbol_indexer.py`) | call graph of a file | blast radius | cycles, nested functions | everything upstream and nothing else |
| Profile and IDE configuration | JSON files | read, merge, replace | people and power losses | settings are kept |
| Formatting, prompts, telemetry, UI, policies | mostly none | pure functions and I/O | little | not a matter of interleaving |

How they interact: a host calls `elite_prepare`, which compiles a contract and
stores a run with pending steps. It then calls `elite_verify` again and again.
Each call runs one verifier on the working tree or on a text, stores a row of
evidence, and answers with a continuation directive computed from the contract
and the stored rows. Only the outcome gate relates rows to the present working
tree. The editor, other IDE windows (each with a server process of its own) and
Git act on the same tree and the same database at any time: windows open,
migrate and write the one store, cache its rules, optimize its pool of mistakes
and set its goals without knowing of each other. Every call passes the middleware
chain, which searches past mistakes, evaluates rules and sets off the optimizer.
Separately, a user may synchronise the local store with a team hub over HTTP; what
a pull brings goes into the quarantine of `memory_items`.

`hazards` in `PROJECT.json` lists where in the code these things can go wrong, and
the property that watches each place.

## 2. Modules

| Module | Models | Proved in |
|---|---|---|
| `EvidenceGate` | one run: evidence, four verifiers, the gate, the directive, sessions, editor, crashes | `EvidenceGateProofs` |
| `GatePromise` | what the gate promises whoever reads its answers; `EvidenceGate` implements it | `EvidenceGateProofs` |
| `CompliantHost` | a host that follows the directive; extends `EvidenceGate` with fairness and liveness | |
| `WorkflowSteps` | steps and status of one run, statement by statement | `StoreProofs` |
| `TaskContracts` | from the clauses of a prompt to the stored contract and the verdict on a draft | `JudgementsProofs` |
| `TeamSync` | sync clients with cursor files, and the hub's pull and push | `TeamSyncProofs` |
| `HubAccess` | the hub's rate limiter, size limit, credentials, users and skills | `ServicesProofs` |
| `StoreOpening` | several processes open, back up, migrate and restore one store | `StoreProofs` |
| `StoreWrites` | records in several tables, and predictions resolved by rewriting | `StoreProofs` |
| `AtomicRecords` | what a transactional write promises; `StoreWrites` implements it | `StoreProofs` |
| `QuarantinedMemory` | memory items: record, pull, look up, approve, forget | `StoreProofs` |
| `RuleLifecycle` | prevention rules, the buses that cache them, ticks and verdicts | `LearningProofs` |
| `LearningLoop` | missed detections, the rules made of them, and status reports | `LearningProofs` |
| `MistakeRecall` | search, fusion and injection of past mistakes, and their pool | `JudgementsProofs` |
| `ToolCalls` | the middleware chain, retries, the periodic scan, the optimizer's goal | `ServicesProofs` |
| `RequirementVerdicts` | the plugin registry, receipts, champions, simulated agents | `JudgementsProofs` |
| `GroundedAnswer` | retrieval of quotes and the grounding of a draft | `JudgementsProofs` |
| `TrialVerdicts` | the exact McNemar test, the ship rule, the scorecard | `JudgementsProofs` |
| `CallGraph` | call graph of a file and blast radius of a function | `ServicesProofs` |
| `ConfigFiles` | user profile and IDE configuration, with people and power losses | `ServicesProofs` |
| `Selections` | what a sort or a scan makes of a set: ranks and limits; no state | `JudgementsProofs` |

`MCEvidenceGate`, `MCWorkflowSteps`, `MCTeamSync`, `MCTaskContracts` and
`MCRequirementVerdicts` are finite instances of one module each. `MCGate` puts three
scenarios of the gate side by side (`scenario`): the third takes an `INSTANCE` of the
module with other events. `MCStore` and
`MCServices` put several side by side: what they model uses different tables or
files, so the modules share no variable, and a product of their behaviours would show
nothing each does not show by itself. Their variable `part` says which module moves;
the others stay in an initial state. `MCJudgements` joins what decides on a draft into
one part of `MCServices`, whose `judge` says which of its three modules moves. That what
moves is the module and nothing besides is itself a theorem (`MCStoreProofs`,
`MCServicesProofs`). A module with proofs may serve several components for the same
reason.

### The evidence workflow

*EvidenceGate.* A *tree* is the content of the working directory, `head` the
committed content. The digest of a snapshot is `Clean` when nothing differs from
HEAD, otherwise it identifies the tree; `NoDigest` stands for a snapshot that was
not taken or not usable. A row of evidence keeps the fields some reader looks at:
the kind of check, the status, the digest it is bound to, whether the scope policy
was the contract's own, and the prefixes of the unmet items.

A verifier of one process runs to its end without giving other calls of that
process a turn (the coroutines never await anything that suspends them), so a
*session* is a server process and serves one call at a time. Between sessions and
the editor everything interleaves where a process touches the outside: each Git
snapshot, each query, the subprocess, the insert, and the final query of the
directive is a step. `CheckSyntax`, `CheckDiff`, `CheckTests`/`RunCommand`/
`PostSnapshot`, `CheckOutcomes`/`GateSyntax`/.../`GateDiff`,
`PersistCheckedResult` and `Respond` are those steps in code order. `Crash` ends
a call anywhere.

`RecordEvidence` is `INSERT OR REPLACE`: the identifier of a record is a digest of
producer, subject and payload, so recording the same facts again deletes the old
row and inserts a newer one. Recency matters for the gate (newest passing row
among 20) and for the directive (newest rows among 200), and both limits are
parameters.

Abstractions: a draft leaves some constraint ids unmet, and only the two that
are also prefixes of gate items are told apart; two calls that differ in nothing
but the text of draft, code or command are one row. A request without
`project_root` inspects the server's own directory, about which nothing is
assumed. History variables (`ran`, `disturbed`, `agreed`, `tested`, `tainted`,
`accepted`) record what was true when; no action reads them in a guard.

*GatePromise* knows no rows, windows, calls or crashes. It has what has been proved (pairs
of a check and a digest, which only grow), the last accepted outcome with the digests it
relies on, and the hosts that were told "done"; a step proves one pair, accepts digests
for which every needed check is proved, or tells one host. `Proved` of `EvidenceGate` maps
the rows to pairs, a row that passed and is bound to a digest (under the contract's own
scope policy, if it is a diff) being a proof. `KeepsPromise` says that every step of the
gate is then such a step or a stutter.

*CompliantHost.* The calls are exactly those of `required_tool` and
`required_args`, with code that parses and a draft without unmet constraints.
Fairness is weak fairness of the two things that are the server's and the host's
duty: finishing the call a session serves, and making the next one. A session runs
until it answers, and the directive says `stop_final_response` until it is done;
both actions stay enabled until taken, so weak fairness is enough. The editor is
not fair: it may stop or go on for as long as its bound lets it.

*WorkflowSteps.* The connection pool opens SQLite connections in autocommit mode and
`update_workflow_step` opens no transaction, so its UPDATE of the step, SELECT of
all statuses and UPDATE of the run commit one by one. `Progress` is the guarded
path of `elite_verify(check="progress")`, which reads the run first;
`UpdateStep` the older tool, which asks nothing. A crash leaves what was committed.

*TaskContracts.* A text is the clauses the compiler finds in it (their wording, their
terms, whether they end with a credential), what else it asks for, its words, and what a
check of it would find besides them. `CompileTaskContract` applies the limits of terms,
clauses and constraints in the code's order; what a clause says beyond 80 characters
(`rest`) is in no constraint, and equal clauses count once while different ones with the
same terms do not. `CheckConstraint` finds a term wherever it is part of a word (`Inside`)
and looks for fixed words (`Lexicon`: markers of fake success or of a test log, URLs, tools)
among the draft's own, so that a draft may fail one constraint by obeying another; storing redacts, which may leave a text that is no JSON; reading it
back then gives an empty contract, and the draft is judged by the prompt if the host
sends it along and by itself otherwise. A run that is not persisted (an ephemeral
one) is always judged by the prompt the host sends. Sequences the compiler takes from a
text are ranks in an order (`ByKey` of `Selections`) and not recursion, so that proofs can
tell what is in them. Things the
model makes visible: "must not X" compiles to *wanted* X; "must avoid" and "must
never" match both the wanting and the forbidding pattern, so that no draft passes
such a contract although `docs/scientific_delivery_protocol.md:213` describes it as
satisfiable; the limit of eight drops `scope_files` and `run_tests` first.

*GroundedAnswer.* Pages hold sets of spans and change while a call reads them one by
one; engines and pages fail; a timer around all engines may drop what some have
answered. Of the quotations of a draft the check sees what its pattern finds (`found`):
those of 12 to 240 characters (`Pairable`). A longer or shorter one goes unchecked,
fabricated or not, and the pattern may then pair its marks with the next ones and take the
text in between for a quotation, or miss a good one; `PassMeansRead` promises
nothing of quotations for such drafts. `Search`, `ReadPage` and `Conclude`, which cuts to the quote and character limits, are
steps in code order. What the model makes visible besides: quotes are not bound to the URL cited; a
draft that cites nothing passes; a retrieval that misses a page fails an honest draft;
with `k = 3` a fourth engine never contributes. Outside the model, by reading: a URL
at the end of a sentence keeps its full stop and counts as hallucinated.

*RequirementVerdicts.* Plugins are loaded from files at any time, the built-ins when a
verifier is first asked for. A name is replaced, and with it the kinds recorded under
it. Known departures that the properties carry as exceptions: a plugin loaded before
the first use keeps its kinds under a name a built-in then takes; the champion may be
a pruned branch although others survived (`branch_pruner.py:75`). The
command of a requirement to run tests is the matched text of the prompt: "run tests",
"run pytest" and "npm test" name no program of the allowlist and fail, and only a bare
"pytest" runs. A receipt
says that all checkable constraints are satisfied also when nothing was checked.

### The store

*StoreOpening.* A file is named by the order of its creation, because open
connections stay on the file they have after the path has been replaced. `OpenStart`,
`Backup`, `Connect`, `ReadLedger`, `Sanitize`, `WriteLedger`, `Finish`, `LinkGraph`, `Raise`,
`Restore` (removal of the log), `Replace` (the rename) and `OpenCrash` are steps of each
process. An opening fails in four places: while the backup is made, within the `try`
(`Raise`, then a restore), in the restore itself (`RestoreFault`: the
backup is gone, or the copy, the removal of the log or the rename fails), and after the
`try`, when the tables of the graph are set up on a store that is already migrated
(`Fault` at `graph`, which puts nothing back). It is assumed that the removal of old
backups does not fail; what a checkpoint moved out of the log is told apart, for a
main file without its log may be what the next process finds. Backups are named by
the second and all but the newest few are removed.

*StoreWrites.* `BEGIN IMMEDIATE` takes SQLite's one write lock; a statement outside a
transaction waits for it and commits by itself. `record_mistake` looks for a duplicate
inside its transaction, and goes on to insert when the look raises or there is no
embedding to look with (`unchecked`); `record_decision` writes row and node one after the other
without one; a prediction is resolved by reading the properties of a node, changing
them and writing them back, a second time for the evidence. *AtomicRecords* has one
action: a record that is absent appears with all its parts. `RecordsAreWhole` says
that the committed tables, restricted to transactional records, implement it; a record
being written, a rollback and a death map to stutters. What no property
excludes: overlapping resolutions may leave the verdict of one with the evidence of the
other.

*QuarantinedMemory.* An item is its content hash; its grade is what matters of trust,
confidence and privacy. The same item recorded again takes the new grade and its
quarantine is computed anew, which may also take an approval back. `remember_context`
answers with the first row a search finds and may report on another item of the same
words. Forgotten items stay quoted in runs that used them (`memory_context`), which is
not part of this model. Expiry takes rows out of answers only.

*RuleLifecycle.* Each process has a bus that caches enabled rules and reloads them
every `ReloadInterval` calls, a failed reload leaving it empty. A call is two steps:
`BusBefore` counts it, may reload and evaluates the rules of the hook `before`; the tool is
awaited; `BusAfter` evaluates those of `after` that are cached by then. Other calls of the
process, reloads, ticks and changes by hand come between (`CallSlots` calls at once), and
a call whose tool fails has no second step. A tick loads all rules
and writes the state that follows from the row it loaded, statement by statement, so a
change by hand may come between. `last_triggered_at` is NULL in every row (nothing
writes the column), hence the branches on its age are never taken: an active rule becomes
dormant before it can earn trust. Seeding at each
start overwrites check, action and severity of the built-in rules, whatever the
docstring at `mcp_server.py:187` says.

*LearningLoop.* Every statement is a step: a rule is inserted in one and its detection
marked in another, and a status report is put together from nine reads. Registration
under a taken name never marks its detection, deleting a rule leaves it marked, and the
number of pending detections may thus look negative; the property says what a report
does promise.

*MistakeRecall.* Two rankings, of words and of vectors, are fused by weights that the
kind of prompt selects; one mistake of each root cause is kept and the first few are
shown and logged. Scores `weight / (60 + rank)` are compared as fractions over a common
denominator. Reported outcomes retire or boost a mistake in passes that write from
statistics read earlier. The full-text query quotes every word and asks for all of them,
so without the vector extension hardly anything is found; no search of mistakes reads
`injection_eligible` or `quarantined`, although `persistent_store.py:3218` says
"exclude from injection"; a boost makes a quarantined mistake eligible again. With two
servers, passes on stale statistics can flap, which is why the property speaks of one
optimizer.

### Synchronisation

*TeamSync.* A *brain* is a local store, a *window* a server process that serves it. A
call of `sync_team_memory` reads the cursor file, notes the time one second early,
pulls (the hub's newest rows after the cursor, one quarantined row at a time), pushes
(its newest rows after the cursor), and finally renames a new cursor file into
place. `GiveUp` ends it anywhere: an HTTP error, a refused or rate-limited request,
a timeout, a closed window. The hub's push handler lives on without its client.
Handlers run on one event loop, so a handler is interrupted only where it awaits
the external judge; with heuristics alone an item is one step. Row and hash are
written to two databases, hence `Abort` may come between them. Time is a clock
in seconds shared by hub and brains; `Delay` is the number of second boundaries
that may pass between the stamp of a row and its commit.

Abstractions: records are contents; equal content hash means equal item; a pull
and a push treat one table instead of two (anti-patterns and decisions have the
same queries, limits and cursor); the order of items in a payload is left open; the
size limit of a request body and the length limit of its lists are one limit; the
optional embedding similarity check is off; clocks agree.

*HubAccess.* Middlewares run one after the other in the event loop, so admission is one
step: eviction of old times, refusal, or a new time. Handlers of the registries run in
threads and take their time stamp before they write. The limiter reads a monotonic clock
and the registries the wall clock; the model has one clock for both, which is never set
back.

### Services

*ToolCalls.* A call runs undisturbed until a retry makes it wait; hooks never await. A
server whose optimizer has found no active goal inserts one in a second statement, so
another server may do so between. A brain may hold goals from before. Errors, cancellation and crashes come from
`MaxOutages`. A goal of the optimizer gets the characters of a JSON text for key
results, which no property is about.

*TrialVerdicts.* The p-value is a tail of binomial coefficients over a power of two;
`Significant` compares these two integers, for the p that is looked at as it is and for
the one that is first rounded to four digits. The ship rule always sees the rounded one,
the scorecard only without scipy (`Scipy`). Rates are compared as integers. Where a lift
meets a threshold exactly (0.15 with 20 cases), the code's difference of floats falls on either side depending on
the baseline, and the model lets it. The citations never decide the rule, because
`run_blind_suite` sets `halluc_t = 0`.

*CallGraph.* A file is its functions, which of them is nested in which, the bodies no
walk reaches (under an `if` or a `try`, in nested classes) and the calls. A nested
function's calls count for its owner, too. Two functions of one name, which the code
keeps under one key, are not in the model. The search is `get_blast_radius`, with the
queue as a set, since the answer is one.

*ConfigFiles.* Servers and installers read, change and rename a temporary file into
place; an editor empties a file and fills it, perhaps with JSON that is no object
(`NoObject`). A power loss brings back what has reached the disk. The profile is not
flushed, and it is replaced by defaults when it holds no object, cannot be parsed or read
(`ReadFails`), or when an older one could be read but the migrated one cannot be saved
(`SaveFails`, also after the rename, when its permissions cannot be set);
the IDE configuration is flushed and spared. Settings are those that migration keeps: it
takes out credentials, switches synchronisation at boot off and resets an IDE without a
source.

## 3. Runs

| Run | Question | Bounds |
|---|---|---|
| `gate` | Does an accepted outcome rest on compared, stored evidence, what is a passing test row bound to, and does the gate implement its promise, of which "done is earned" is a part? | `scenario` is `sloppy` (one session at a time, any request, 2 edits), `sessions` (2 compliant sessions, 1 edit) or `failures` (one session at a time; flaky, failing and unavailable commands and snapshots, edits and commits); crashes in all; 2 trees; 1 row per kind that differs from those stored; windows 2 and 3 |
| `host` | Does a compliant host reach done? | 4 contracts, 3 edits or commits, 6 rows per kind (never reached) |
| `store` | What do two processes leave of one store? | `part` is `opening`, `writes`, `memory`, `steps`, `sync`, `loop` or `recall`; see below |
| `services` | Do the services around it keep their word, and is a draft accepted for the right reasons? | `part` is `rules`, `tools`, `hub`, `trial`, `graph`, `config` or `judgements`, the last with `judge` `contracts`, `verdicts` or `grounded`; see below |
| `done_after_fail`, `test_race`, `commit_blind`, `steps_race`, `pull_gap`, `contract_torn`, `never_trusted`, `opening_race` | Where the code departs from what it or its documents say | the smallest that shows it |

The parts of `store`, with two processes each:

- `opening`: `LedgerMeansSanitized` (no database, log-less main file or backup says
  "sanitized" with a raw row in it), `LostOnlyIfRaced` (the ways an acknowledged row
  may be lost are named, and there is no other), `LoneFailureRestores`. One legacy
  row, one user row, 3 starts, 2 seconds, one backup kept.
- `writes`: `RecordsAreWhole`, `NoTwins`, `DecisionNodeFollows`, `StaysResolved`. Two
  mistakes that are near-duplicates, a decision, a run, 4 calls.
- `memory`: `VisibleIsFit`, `AnswerHolds`. Two local items of the same words, one
  pulled, three grades, 4 calls.
- `steps`: `NoSkipAhead`, `StatusWasTrue`, `LoneUpdateHeals`. 2 steps, 4 calls,
  crashes; the steps are set to passed and failed only.
- `sync`: `HashMeansStored`, `PushSkipsNothing`, `PullSkipsNothing`,
  `OneCopyUnlessRaced`. Two windows of one brain, a content the heuristics pass and
  one they do not, 2 seconds, 2 pushes, a payload limit of 1 and a query limit of 2.
  A call that only pulls is left out here; a call in both directions begins with one.
- `loop`: `ReportsHold`. 2 detections, 3 calls, a score history and two histories of
  prompts.
- `recall`: `BetterHitShown`, `PoolDoesNotFlap`. 3 mistakes of which two share a root
  cause, one injection more than the past ones, 6 outcomes; a mistake is judged after
  3 injections and has an effectiveness from the first outcome, and a pass runs as soon as
  an outcome is known (`AdjustPercent = 101`), which only adds behaviours.

The parts of `services`, with two processes where processes matter:

- `rules`: `StaleRulesFade`, `RetiredStaysOff`. One rule, triggered before or after calls,
  thresholds of 1 to 3 evaluations in the order of the code's 50, 200 and 1000, a reload
  every 2 calls, 3 calls or starts, 2 calls of a process at once, 3 verdicts, ticks or
  changes by hand.
- `tools`: `AnswerTellsAttempts`, `OneGoalPerServer`. 2 retries as in the code, 3 errors
  or crashes, a scan every 2 successes, a cooldown of an hour.
- `hub`: `LimiterExact`, `SeenIsLatest`. 2 requests in a window of a second, 4 requests
  in 3 seconds.
- `trial`: `EvidenceMovesDecision`. All tables up to 20 cases, where the significance,
  both thresholds and the exact edge of the larger one occur.
- `graph`: `RadiusIsUpstream`. All files of 3 functions and up to 3 calls.
- `config`: `SettingsKept`. One edit of each file, one fault; the defaults are what an edit
  may be lost to.
- `contracts`: `DoneMeansWhatWasAsked`, `ObedientDraftsPass`. All prompts that
  `MCTaskContracts` lists, limits of 2 terms, 2 clauses and 5 constraints so that all three
  cut, a clause that goes on beyond its limit of characters, a word within a word.
- `verdicts`: `AcceptedDraftsComply`. Plugins with the names and kinds of built-ins,
  before and after them.
- `grounded`: `PassMeansRead`. 3 pages, 2 engines, all three limits small enough to cut, a
  span that is too long for the quotation pattern.

The bounds are large enough for the events the properties are about: every action of
every module happens in some passing run; windows and limits smaller than the number of
rows make rows fall out of them; two processes suffice because each property relates
the steps of one call to what *others* did in between, and several others can be
played by one. The theorems of section 4 hold without these bounds. The two processes
of `store` and `services` are symmetric, as are the sessions of `gate`; these
runs check invariants, action properties and a refinement only, so the symmetry is
sound. The one liveness property, in `host`, is checked without symmetry.

Deadlock checking is off where the system stops of its own accord: a host that is done
(`host`), and calls, edits, starts and pushes that are bounded (`store`, `services`,
`steps_race`, `pull_gap`, `never_trusted`, `opening_race`).

What the violated runs show (`findings` in `PROJECT.json`):

1. `done_after_fail`: the final checkpoint asks for *some* passing outcome among
   the last 200 rows. After PASS and a later FAIL for the draft, the directive is
   still done.
2. `test_race`: a test record is bound to the snapshot taken after the command. An
   edit between the two passes off a tree that was never tested. `gate` shows
   the converse: without such an edit the binding is right.
3. `commit_blind`: the digest covers the differences from HEAD and not HEAD, so
   evidence of one clean commit is accepted for another.
4. `steps_race`: overlapping updates can leave a run `planned` with all steps
   passed; `store` shows that the next undisturbed update repairs it and that the
   status was true at some moment.
5. `pull_gap`: the cursor's overlap of one second does not cover a row that is
   stamped in one second and committed in the next, because the query is strict;
   `store` shows that nothing is skipped if no commit crosses a second boundary.
6. `contract_torn`: redaction of the contract's JSON text may eat a closing quote. The
   stored contract is then read as empty and a draft is judged by its own words.
7. `never_trusted`: `rule_lifecycle.py:37` promises "active -> trusted (200+ evals, <10%
   FP rate)" and `persistent_store.py:3253` that rules earn it, but the first tick after the
   50 evaluations makes the rule dormant instead: it asks whether the rule has ever fired,
   and the column it looks at is never written.
8. `opening_race`: a process whose migration fails restores its backup over rows that
   another has acknowledged; two windows that open an old store at once suffice.

Duplicates at the hub are explained by `OneCopyUnlessRaced`: two handlers awaiting a
verdict on one content, or an end between row and hash.

Each property of a passing run is shown to depend on the code by a mutant: a
slip of the kind a programmer makes, kept beside the definition it replaces, that
TLC must find to violate the property.

## 4. Proofs

All theorems hold for every value of the constants under the named assumptions of
the modules (which TLC evaluates in each run): any number of processes, records,
contents, rules and calls, and any limits and thresholds. Each rests on an inductive
invariant; a comment above each part of it says what it means.

*EvidenceGateProofs*

- `TypeCorrect`, `EvidenceIsKept`.
- `DoneEarned`: `DoneIsEarned` is not inductive, since a directive is computed from
  rows. `EarnedInv` adds that a passing outcome row, stored anywhere, implies that
  an outcome was accepted.
- `GateSoundness`: `GateInv` adds to the property on accepted outcomes what a
  *running* gate has established so far, label by label: the digests it has compared
  are attested by stored rows (`ReadInv`), the digest it is about to compare comes
  from a passing row (`PromiseInv`), and while nothing moved the worktree all digests
  it agreed on are the present one (`QuietInv`). Attested rows are never lost
  (`EvidenceIsKept`), so what a gate established stays true whatever other sessions
  do.
- `PromiseKept`: `Spec` implements `GatePromise` (`KeepsPromise`). What a table proves is
  read off the set of its rows (`ProvedByRows`), so inserting a row again, which changes
  every position, proves nothing more, and any row at most its own pair (`PersistProves`).
  An acceptance is covered because `GateInv` holds of the gate that makes it
  (`AcceptanceKept`); a directive changes for one session in one step (`OneIsDirected`) and
  says "done" only with an acceptance, which is `EarnedInv` (`TellingKept`). No step does
  two of these things.
- `TestRowsAreSound`: `PendingTestInv` says what a running test call may hold: a
  passing verdict only from a green tree, and a digest of that very tree, or a clean
  one, unless the session was disturbed.

*StoreProofs*, steps of a run

- `StepsTypeCorrect`.
- `NoStepSkipsAhead` (`SkipInv`: an update that waits to be made has its
  earlier steps among those once completed; that set only grows).
- `StatusIsTrue` (`TrueInv`: what a session has read was a state of all steps at
  one moment, so its aggregate is among those that held).
- `LoneUpdateSettles` (`LoneInv`: a session that is still alone has read the
  steps as they are).

*StoreProofs*, records of the store

- `TransactionsAreAtomic`: `WriteSpec` implements `AtomicSpec` of `AtomicRecords`. The
  committed tables change for a transactional record in `Commit` alone. `StoredWhole`
  says such a record is in the tables with all the parts of its kind or with none, and
  `WorkFits` what a writer has written so far at each label, so that what it commits is
  a shape of the record and the record was absent before.
- `OneOfTwins`: a writer that is about to write an embedding holds the lock
  (`LockFits`) since it looked, so no twin has come in between, unless its record is in
  `unchecked`.
- `NodeFollowsRow`, `ResolutionLasts` (`ResolvedSeen`: who has written the state of a
  prediction has seen it resolved in whatever it reads after that), `WritesTypeCorrect`.

*StoreProofs*, opening

- `OpenTypeCorrect`. That no more backups are kept than the limit (`FewAreKept`) is a
  matter of counting: the kept ones are told apart by how many are newer, which is a
  number below the limit. `OpenBounds` adds that no process has a file or a backup that
  was not made, for which files only grow (`FilesGrow`). The theorem needs at least one
  second, since backups are named by one.
- `NoRawRowBehindLedger`. A process that has read the ledger has every raw row of its
  file before it, and there is none when it writes the ledger (`Sanitizing`); files,
  main files, backups and the copies processes hold are all *clean* (ledger implies
  sanitized), and every step copies clean contents, so restoring, dying and racing
  change nothing.
- `LoneOpeningRestores`: `LoneShape` follows a process that is still alone through its
  backup, its failure and its restore: it finds the store as it was, and has it in its
  backup as soon as it has one. Where the restore raises, what is in place is the store it
  was migrating: no row of users is missing and no raw one was added.
- `AcknowledgedRowsStay`: `RaceShape` says that what was acknowledged and not exposed to
  another opening is in the store, in every backup that somebody can still put back, and
  in the content that is about to replace the store, unless a restore was cut short or
  read in its middle. That the newest backup is never one that is removed
  (`NewestIsKept`) is needed for both.

*TeamSyncProofs*, in layers:

- `Typed`: types, and a waiting call waits for a request the hub has. `SyncTypeCorrect`.
- `Remembers`: every hash has its row, every row has its hash or is named by a race, an
  awaited item is new to the hub, and two handlers await one item only if that is
  recorded as a race. `NothingTurnedAway`, `CopiesAreRaces`.
- `Cursors`, under `Delay = 0`: each bound that is a cursor, or that a running call may
  make one, has everything behind it at the other side, or (for a pushing call)
  underway in its own request. `NothingLeftUnpushed`, `NothingLeftUnpulled`. The run
  `pull_gap` shows that the assumption is needed: with `Delay = 1` the second is false.

*StoreProofs*, memory: `ShownMemoryIsFit` and `IdsKeepTheirMeaning`. An approval
carries an id; that the id still means the item its caller has looked at
(`IdMeansItem`) follows from ids being unique and never reused, and
`RemoteUpdatesDoubt` adds that a change of a remote row under way will put it into
quarantine; together with the types these are `FitShape`. `AnswersAreTrue`:
`AnswerShape` says at each statement of a call what it may count on as long as nobody has
overtaken it. `MemoryTypeCorrect`.

*LearningProofs*: `NobodyEarnsTrust` (what `never_trusted` shows by a trace holds of every
rule: it is trusted only if somebody made it so by hand; `TrustByHand` also covers the rows
a tick has loaded, which it writes from later), `RetirementLasts` (`RetiredIsOff`),
`StaleRulesAreDropped` (`LateSinceReload`: a call is named by the count of the bus when it
began; a rule that was off by then is cached during the call only if that count is not the
one of a reload, so the calls that used it are told apart by fewer numbers than the
interval), `RulesTypeCorrect`. The bus counts its calls modulo the
interval; the model keeps the remainder, which is what the code looks at.
`ReportsAreTrue` (`ReportInv`: a detection is marked, or about to be, only after a rule
was inserted for it, so that a report without pending ones has counted only such; and
while nothing has come between, all that a report has read is still so),
`LoopTypeCorrect`.

*ServicesProofs*, one part for each of its four modules

- `RadiusIsExact`. What has been visited has its callers visited or queued
  (`VisitedThrough`), and nothing is visited that is not in every closed set; when the
  queue is empty both together say that the answer is the least closed set.
  `GraphTypeCorrect`.
- `AnswersTell` (`CallShape`: each attempt of a call but the last failed and was
  retried, so that attempts count the transient errors and bound the writes) and
  `GoalsAreOthers` (`OneGoalPerServer` is inductive once a server about to insert is known
  to own no goal). `ToolTypeCorrect`.
- `SettingsAreKept` (`ConfigShape`): for each file, what it says of its last edit, what
  whoever is about to write it knows of that edit, and what an editor has it open for,
  each up to a cause the property names; the IDE file is always flushed.
  `ConfigTypeCorrect`.
- `LimiterIsExact` (`LimiterInv`): the deque of an address is the end of the sequence of
  all times let through, what it has dropped is older than a window, and those times are
  in order; so a window with more admissions than the limit would need a deque longer than
  the limit. `SeenTimesHold` (`RegistryInv`): while no two registrations of a user have
  overlapped, the one under way is not older than the newest that was written.
  `HubTypeCorrect`.

*JudgementsProofs*, one part for each of its five modules, after the lemmas they share

- `LeastNat` (a nonempty set of numbers has a least element; by cases on the finite
  interval below a member, from the library's theorems on finite sets, and not by an
  induction of its own), `MinIsLeast`, `ByKeyFacts` and `ByKeyOrder`: the sequence that
  `ByKey` makes of a set has only members of it, all of them if the limit allows, in the
  order of the key, and nothing whose key is below that of a member is left out. They
  stand where a recursive definition would have needed an induction over data.
- `AcceptedComply` (`VerdictShape`): once the built-ins are there, the names that
  compiled requirements carry are the built-ins', whatever was registered before or
  after; what a card says is then read off the verdicts. `VerdictTypeCorrect`.
- `DoneIsAsked` and `ObedienceIsEnough` (`ContractShape`: what is stored is nothing, or what
  the prompt compiles to with its tokens redacted). The rest of both is about the compiler:
  within the limits, every clause is among the constraints with all its terms
  (`AllArePassed`, `WholeClause`); and each constraint, whatever the limits dropped, is one
  that some clause or some other wish of the prompt demands (`CompiledIs`), so that a draft
  which obeys the prompt meets it (`ObedientPasses`). `ContractTypeCorrect`.
- `PassesMeanRead` (`GroundedShape`: what has been read is bound to pages that held it
  when they were read, within the limits; drafts all of whose quotations are `Pairable` are
  found to quote what they quote). `GroundedTypeCorrect`.
- `BetterIsShown`. Scores are fractions, and fractions are ordered (`AboveIsTransitive`,
  `AboveIsTotal`), so that score and arrival order the hits (`PrecedesOrders`) and the
  number of hits before one is a key (`HitKeyIs`). A mistake that is ahead wherever
  another was found has the greater sum of shares (`SumGrows`, for which weights must be
  positive); it is therefore earlier among the hits, and the first hit of its root cause
  is no later.
- `PoolIsSteady`, under `OneOptimizer`. The property compares two passes, and the
  outcomes they have read are gone. `PoolInv` keeps what is left of them: with `d` reports
  since a mistake was made eligible, prevented outcomes have not fallen further below the
  threshold than `d` of them can explain, and likewise since it was retired; a row
  that waits to be written carries the same. `ReportKeeps` shows that a report, which may
  replace another, moves these sums by no more than it counts. With two optimizers a row
  outlives a turn by the other, and the property is false. `RecallTypeCorrect`.

- `EvidenceDecides`, for trials of any number of cases. The coefficients are recursive
  functions and not `^` or a recursive operator; that they exist and obey Pascal's rule
  (`TriangleExists`, `CombRows`), that powers double and tails add up (`PowerDoubles`,
  `TailSums`) is proved by induction over a *set* of numbers, which needs no theorem with a
  predicate for a parameter. A case more doubles the
  power; the tail at most doubles if the rarer outcome did not grow, and at least doubles
  if it did (`TailDoubles`). So a case for the treatment keeps significance
  (`WinKeepsSignificance`) and one against it brings none (`LossMakesNoSignificance`),
  whichever of the two p-values is looked at; with the monotonicity of the two
  lifts (`WinRaises`, `LossLowers`, `TieLowers`) that is the property. `TrialTypeCorrect`.

*MCStoreProofs*, *MCServicesProofs*: `StorePartsBehave` and `ServicesPartsBehave` say that
every behaviour of a product that a run checks is one of the specification of the module
`part` (and `judge`) names, while `part` never changes; so each theorem above is one about
the product. `StoreTypeCorrect`, `ServicesTypeCorrect`.

Only model-checked: `CompliantHostFinishes`, since liveness under fairness is out of the
prover's reach. Every other property of a passing run is stated by a theorem.

## 5. Not modelled

`components` in `PROJECT.json` says for each part what is left out. In short:

- Severity inference, trigger learning, repository policy, reasoning prompts, telemetry
  reports and UI: stateless text or display.
- Code that nothing in the server calls (some of it serves evaluations): the integrity guardian, the memory bridge,
  `TrustedMemoryService`, `execute_with_retry`, `MigrationLedger`, the thoughts API,
  `query_planner`, `fact_grounder`, `rank_for_injection`. Three methods of the store
  without a caller are modelled all the same, as what a person or a plugin may do:
  `record_missed_detection` in `LearningLoop`, `quarantine_anti_pattern` and
  `release_quarantine` in `MistakeRecall`.
- Floats: PageRank over the graph store, calibration scores, the scorecards' statistics
  besides the McNemar test.
- More than 200 new hub rows in one pull: the cursor passes what was not returned.
  `PullSkipsNothing` is stated for a hub within the limit; and a push that a rejected
  record stalls is not a liveness property here, because users start pushes by hand and
  no fairness follows from the code.
- Single-statement tables behind tools of the legacy profile (calibration, council
  reviews, costs): nothing can come between their steps.

## 6. What could follow

1. An abstract specification of the run status that `WorkflowSteps` implements for serial
   updates.
2. Expiry of memory items and the fallback transaction of a store without a pool.
