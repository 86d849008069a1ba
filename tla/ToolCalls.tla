------------------------------- MODULE ToolCalls -------------------------------
(***************************************************************************)
(* A tool call on its way through the middleware chain of a server, and    *)
(* what the chain sets off after it: the usage log, the periodic scan and  *)
(* the optimization loop with the goal it writes into the shared store.    *)
(*                                                                         *)
(* A server is one asyncio loop: a call runs undisturbed until it awaits,  *)
(* which is while a retry is waited for; every hook runs without awaiting, *)
(* so a server whose optimizer is at work does nothing else. Other servers *)
(* of the same brain run at any time.                                      *)
(***************************************************************************)
EXTENDS Integers, FiniteSets

CONSTANTS
  ToolServers,   \* server processes of one brain
  ToolCallIds,   \* calls a client has open at a time
  MaxRetries,    \* RetryMiddleware.max_retries, 2
  ScanEvery,     \* PeriodicScanMiddleware.interval, 20
  CheckEvery,    \* OptimizationLoop.CHECK_INTERVAL, 10
  GoalCooldown,  \* cooldown_hours of quality_decline, 24
  MaxOutages     \* bound: errors of tools and of the store, and crashes

ASSUME ToolAssumption ==
  /\ MaxRetries \in Nat /\ MaxOutages \in Nat
  /\ {ScanEvery, CheckEvery, GoalCooldown} \subseteq Nat \ {0}

VARIABLES
  calls,     \* the call each client slot has open
  scans,     \* of each server: [counter of successes, counter of scans]
  rested,    \* of each server: hours since quality_decline fired, up to the cooldown
  pending,   \* servers whose set_goal has found no active goal
  goals,     \* active goals of that objective: who wrote each
  declined,  \* the rolling quality average is below the threshold
  outages

toolVars == <<calls, scans, rested, pending, goals, declined, outages>>

Attempts == 0..MaxRetries
\* effects: attempts that left a committed write. transient: failed attempts
\* that may be tried again. rows: rows of the usage log.
ToolCall == [at : {"free", "ready", "asleep", "hooks", "done"},
             on : ToolServers, attempt : Attempts,
             transient : 0..(MaxRetries + 1), effects : 0..(MaxRetries + 1), rows : 0..(MaxRetries + 1),
             answer : {"none", "ok", "error", "retryable", "cancelled"}]

FreeCall(s) == [at |-> "free", on |-> s, attempt |-> 0, transient |-> 0,
                effects |-> 0, rows |-> 0, answer |-> "none"]

\* A brain that was used before may hold a goal of any server.
ToolInit ==
  /\ calls \in [ToolCallIds -> {FreeCall(s) : s \in ToolServers}]
  /\ scans = [s \in ToolServers |-> [calls |-> 0, checks |-> 0]]
  /\ rested = [s \in ToolServers |-> GoalCooldown]
  /\ goals \in SUBSET {[by |-> s, twin |-> 0] : s \in ToolServers}
  /\ pending = {} /\ declined \in BOOLEAN
  /\ outages = 0

Outage == outages < MaxOutages /\ outages' = outages + 1
Awake(s) == s \notin pending
\* A hook that is running is finished before anything else of its server.
InHooks(s) == \E c \in ToolCallIds : calls[c].on = s /\ calls[c].at = "hooks"
Runs(c, place) == calls[c].at = place /\ Awake(calls[c].on)

\* The before hooks warn and count (RuleLifecycle); none answers in place of the tool.
StartCall(c, s) ==
  /\ calls[c].at = "free" /\ ~InHooks(s)
  /\ calls' = [calls EXCEPT ![c] = [FreeCall(s) EXCEPT !.at = "ready"]]
  /\ UNCHANGED <<scans, rested, pending, goals, declined, outages>>

\* An attempt; `commits` says whether it leaves a write.
Attempted(c, commits) == [calls[c] EXCEPT !.effects = IF commits THEN @ + 1 ELSE @]

Succeed(c) ==
  /\ Runs(c, "ready") /\ ~InHooks(calls[c].on)
  /\ calls' = [calls EXCEPT ![c] = [Attempted(c, TRUE) EXCEPT !.at = "hooks"]]
  /\ UNCHANGED <<scans, rested, pending, goals, declined, outages>>

\* Slip, for mutation: one attempt too many is allowed to wait.
MayRetryOnceMore(call) == call.attempt <= MaxRetries

\* RetryMiddleware.should_retry
MayRetry(call) == call.attempt < MaxRetries

\* An error of a kind that is never tried again (is_transient_error), raised
\* before or after the tool had written.
FailForGood(c) ==
  /\ Runs(c, "ready") /\ ~InHooks(calls[c].on) /\ Outage
  /\ \E commits \in BOOLEAN :
       calls' = [calls EXCEPT ![c] = [Attempted(c, commits) EXCEPT !.at = "done", !.answer = "error"]]
  /\ UNCHANGED <<scans, rested, pending, goals, declined>>

Transient(call) == [call EXCEPT !.transient = @ + 1]
Waiting(call) == [call EXCEPT !.at = "asleep", !.attempt = @ + 1]
GivenUp(call) == [call EXCEPT !.at = "done", !.answer = "retryable"]

\* A transient one: the call waits for its next attempt, or is answered with an
\* error that says it may be repeated.
FailForNow(c) ==
  /\ Runs(c, "ready") /\ ~InHooks(calls[c].on) /\ Outage
  /\ \E commits \in BOOLEAN :
       calls' = [calls EXCEPT ![c] = IF MayRetry(@) THEN Waiting(Transient(Attempted(c, commits)))
                                     ELSE GivenUp(Transient(Attempted(c, commits)))]
  /\ UNCHANGED <<scans, rested, pending, goals, declined>>

WakeUp(c) ==
  /\ Runs(c, "asleep") /\ ~InHooks(calls[c].on)
  /\ calls' = [calls EXCEPT ![c].at = "ready"]
  /\ UNCHANGED <<scans, rested, pending, goals, declined, outages>>

\* The client gives up while the retry is waited for: CancelledError passes the
\* chain, no hook runs.
Cancel(c) ==
  /\ Runs(c, "asleep") /\ ~InHooks(calls[c].on) /\ Outage
  /\ calls' = [calls EXCEPT ![c] = [calls[c] EXCEPT !.at = "done", !.answer = "cancelled"]]
  /\ UNCHANGED <<scans, rested, pending, goals, declined>>

-----------------------------------------------------------------------------
(* The after hooks, in reverse order: cost, scan and optimizer, usage log  *)

\* The counters count on; their remainder is all that matters.
Advance(n, every) == IF n + 1 = every THEN 0 ELSE n + 1
Scanned(s) == Advance(scans[s].calls, ScanEvery) = 0
Checked(s) == Scanned(s) /\ Advance(scans[s].checks, CheckEvery) = 0
Counted(s) ==
  [scans EXCEPT ![s] = [calls |-> Advance(@.calls, ScanEvery),
                        checks |-> IF Scanned(s) THEN Advance(@.checks, CheckEvery) ELSE @.checks]]

\* OptimizationLoop.tick: the quality trigger is breached and not cooling down.
Fires(s) == Checked(s) /\ declined /\ rested[s] = GoalCooldown

\* UsageLogMiddleware: the row, unless the store refuses it.
Logged(call) == [call EXCEPT !.at = "done", !.answer = "ok", !.rows = @ + 1]
Unlogged(call) == [call EXCEPT !.at = "done", !.answer = "ok"]

\* Slip, for mutation: set_goal sees the goals of the other servers only.
ActiveGoalsOfOthers(s) == goals \ {g \in goals : g.by = s}

\* set_goal: SELECT id FROM goals WHERE status = 'active' AND objective = ?
ActiveGoals(s) == goals

\* The hooks of a call that set nothing off, or find the goal already there.
Hooks(c) ==
  LET s == calls[c].on IN
  /\ Runs(c, "hooks")
  /\ ~Fires(s) \/ ActiveGoals(s) # {}
  /\ scans' = Counted(s)
  /\ rested' = IF Fires(s) THEN [rested EXCEPT ![s] = 0] ELSE rested
  /\ calls' = [calls EXCEPT ![c] = Logged(@)]
  /\ UNCHANGED <<pending, goals, declined, outages>>

\* A hook fails, the INSERT of a goal among them: what failed is skipped, the
\* call is answered all the same. An action of the optimizer that fails starts
\* its cooldown.
HooksFail(c) ==
  LET s == calls[c].on IN
  /\ calls[c].at = "hooks" /\ Outage
  /\ pending' = pending \ {s}
  /\ scans' = Counted(s)
  /\ rested' = IF Fires(s) THEN [rested EXCEPT ![s] = 0] ELSE rested
  /\ \E call \in {Logged(calls[c]), Unlogged(calls[c])} : calls' = [calls EXCEPT ![c] = call]
  /\ UNCHANGED <<goals, declined>>

\* set_goal has looked and found none ...
LookForGoal(c) ==
  LET s == calls[c].on IN
  /\ Runs(c, "hooks") /\ Fires(s) /\ ActiveGoals(s) = {}
  /\ pending' = pending \cup {s}
  /\ UNCHANGED <<calls, scans, rested, goals, declined, outages>>

\* ... and inserts, whatever another server has inserted by now.
InsertGoal(c) ==
  LET s == calls[c].on IN
  /\ s \in pending /\ calls[c].at = "hooks"
  /\ pending' = pending \ {s}
  /\ goals' = goals \cup {[by |-> s, twin |-> Cardinality({g \in goals : g.by = s})]}
  /\ rested' = [rested EXCEPT ![s] = 0]
  /\ scans' = Counted(s)
  /\ calls' = [calls EXCEPT ![c] = Logged(@)]
  /\ UNCHANGED <<declined, outages>>

-----------------------------------------------------------------------------
Forget(c) ==
  /\ calls[c].at = "done"
  /\ calls' = [calls EXCEPT ![c] = FreeCall(calls[c].on)]
  /\ UNCHANGED <<scans, rested, pending, goals, declined, outages>>

\* complete_goal, archive_goal, delete_goal
FinishGoal(g) ==
  /\ g \in goals /\ goals' = goals \ {g}
  /\ UNCHANGED <<calls, scans, rested, pending, declined, outages>>

QualityMoves ==
  /\ declined' = ~declined
  /\ UNCHANGED <<calls, scans, rested, pending, goals, outages>>

Hour ==
  /\ \E s \in ToolServers : rested[s] < GoalCooldown
  /\ rested' = [s \in ToolServers |-> IF rested[s] < GoalCooldown THEN rested[s] + 1 ELSE rested[s]]
  /\ UNCHANGED <<calls, scans, pending, goals, declined, outages>>

\* A server ends and is started again: its calls are lost, and its counters
\* and cooldowns, which are nowhere but in the process.
Restart(s) ==
  /\ Outage
  /\ calls' = [c \in ToolCallIds |-> IF calls[c].on = s THEN FreeCall(s) ELSE calls[c]]
  /\ scans' = [scans EXCEPT ![s] = [calls |-> 0, checks |-> 0]]
  /\ rested' = [rested EXCEPT ![s] = GoalCooldown]
  /\ pending' = pending \ {s}
  /\ UNCHANGED <<goals, declined>>

ToolNext ==
  \/ \E c \in ToolCallIds :
       \/ \E s \in ToolServers : StartCall(c, s)
       \/ Succeed(c) \/ FailForGood(c) \/ FailForNow(c) \/ WakeUp(c) \/ Cancel(c)
       \/ Hooks(c) \/ HooksFail(c) \/ LookForGoal(c) \/ InsertGoal(c) \/ Forget(c)
  \/ \E s \in ToolServers : Restart(s)
  \/ \E g \in goals : FinishGoal(g)
  \/ QualityMoves \/ Hour

ToolSpec == ToolInit /\ [][ToolNext]_toolVars

-----------------------------------------------------------------------------
ToolTypeOK ==
  /\ calls \in [ToolCallIds -> ToolCall]
  /\ scans \in [ToolServers -> [calls : 0..(ScanEvery - 1), checks : 0..(CheckEvery - 1)]]
  /\ rested \in [ToolServers -> 0..GoalCooldown]
  /\ pending \subseteq ToolServers /\ declined \in BOOLEAN /\ outages \in 0..MaxOutages
  /\ \A g \in goals : g.by \in ToolServers /\ g.twin \in Nat

\* What an answer tells about the attempts behind it: an error that offers to be
\* repeated has used up every retry, any other answer came before that, a tool
\* that wrote more than once was retried after an attempt that had already
\* written, and the usage log holds one row at most, and none of a call that
\* failed (MiddlewareChain.wrap, should_retry, UsageLogMiddleware.after).
AnswerTellsAttempts ==
  \A c \in ToolCallIds : LET call == calls[c] IN
    /\ call.transient <= MaxRetries + 1 /\ call.effects <= call.transient + 1
    /\ call.answer = "retryable" <=> call.transient = MaxRetries + 1
    /\ call.rows > 0 => call.rows = 1 /\ call.answer = "ok" /\ call.effects > 0

\* However the servers interleave, restart, fail and finish goals, each of them
\* owns at most one active goal: its set_goal looks and inserts without another
\* call of its own in between, so a second copy is always another server's
\* (EliteStore.set_goal, OptimizationLoop._action_quality_decline).
OneGoalPerServer ==
  /\ \A g, h \in goals : g.by = h.by => g = h
  /\ \A g \in goals : g.by \notin pending
=============================================================================
