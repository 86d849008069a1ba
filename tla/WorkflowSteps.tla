---------------------------- MODULE WorkflowSteps ----------------------------
(***************************************************************************)
(* The planned steps of one durable workflow run and the status of the run *)
(* derived from them. Server processes share the store. Each SQL statement *)
(* of an update commits on its own (the connection pool opens connections  *)
(* in autocommit mode), so the statements of two processes interleave.     *)
(*                                                                         *)
(* Evidence texts are left out: a terminal status without evidence is      *)
(* rejected before anything is read from the steps or written, and no      *)
(* handler looks at the text again.                                        *)
(***************************************************************************)
EXTENDS Naturals, FiniteSets

CONSTANTS
  Sessions,   \* server processes
  N,          \* steps of the run; build_workflow_run plans six
  Requested,  \* statuses that hosts ask for
  Tools,      \* which of "elite_verify", "workflow_update_step" hosts call
  Crashes,    \* whether a server may die between two statements
  MaxCalls    \* bound: calls that reach the store

ASSUME NAssumption == N \in Nat \ {0}
ASSUME ToolsAssumption == Tools \subseteq {"elite_verify", "workflow_update_step"}
ASSUME CallsAssumption == MaxCalls \in Nat /\ Crashes \in BOOLEAN

Steps == 1..N
Statuses == {"pending", "running", "passed", "failed", "skipped", "blocked"}
Finished == {"passed", "skipped"}
ASSUME RequestedAssumption == Requested \subseteq Statuses

RunStatuses == {"planned", "running", "blocked", "failed", "completed"}

VARIABLES
  status,      \* workflow_steps.status
  run_status,  \* workflow_runs.status
  pc,          \* the statement each session is about to execute
  call,        \* the update each session serves
  found,       \* the statuses each session has read
  calls,       \* calls so far
  \* History variables; no handler reads them.
  ever,        \* steps that have at some time been passed or skipped
  earned,      \* steps that elite_verify has marked passed or skipped
  held,        \* what the run status should have been, at any time so far
  alone,       \* no update has overlapped the session's since its UPDATE
  settled      \* the last update of a step ran alone and is complete

table == <<status, run_status>>
history == <<ever, earned, held, alone, settled>>
stepsVars == <<status, run_status, pc, call, found, calls, ever, earned, held,
          alone, settled>>

\* The status of a run whose steps have the given statuses.
Aggregate(rows) ==
  LET some(st) == \E i \in DOMAIN rows : rows[i] = st
  IN CASE some("failed") -> "failed"
       [] ~some("failed") /\ some("blocked") -> "blocked"
       [] \A i \in DOMAIN rows : rows[i] \in Finished -> "completed"
       [] OTHER -> IF some("running") THEN "running" ELSE "planned"

NoStepCall == [step |-> 1, to |-> "pending", tool |-> "elite_verify"]

Pending == [i \in Steps |-> "pending"]

-----------------------------------------------------------------------------
\* build_workflow_run: every step is pending and the run is planned.
StepsInit ==
  /\ status = Pending /\ run_status = "planned"
  /\ pc = [s \in Sessions |-> "idle"]
  /\ call = [s \in Sessions |-> NoStepCall]
  /\ found = [s \in Sessions |-> Pending]
  /\ calls = 0
  /\ ever = {} /\ earned = {} /\ held = {"planned"}
  /\ alone = [s \in Sessions |-> FALSE]
  /\ settled = TRUE

Goto(s, label) == pc' = [pc EXCEPT ![s] = label]

BeginUpdate(s, i, to, tool) ==
  /\ pc[s] = "idle" /\ tool \in Tools
  /\ calls < MaxCalls /\ calls' = calls + 1
  /\ call' = [call EXCEPT ![s] = [step |-> i, to |-> to, tool |-> tool]]
  /\ Goto(s, "update")
  /\ UNCHANGED <<table, history>>

\* Slip, for mutation: only a failed earlier step holds later ones back.
ProgressUnlessFailed(s, i, to) ==
  /\ to \in Finished => \A j \in 1..(i - 1) : status[j] # "failed"
  /\ found' = [found EXCEPT ![s] = status]
  /\ BeginUpdate(s, i, to, "elite_verify")

\* elite_verify(check="progress"): reads the run; a step may be marked passed
\* or skipped only when every earlier step is.
Progress(s, i, to) ==
  /\ to \in Finished => \A j \in 1..(i - 1) : status[j] \in Finished
  /\ found' = [found EXCEPT ![s] = status]
  /\ BeginUpdate(s, i, to, "elite_verify")

\* workflow_update_step: the older tool asks nothing about other steps.
UpdateStep(s, i, to) ==
  /\ BeginUpdate(s, i, to, "workflow_update_step")
  /\ UNCHANGED found

-----------------------------------------------------------------------------
(* EliteStore.update_workflow_step, one statement at a time.               *)

\* A session is between its UPDATE of the step and its UPDATE of the run.
Midway(s) == pc[s] \in {"select", "write"}

UpdateRow(s) ==
  LET i == call[s].step
      to == call[s].to
  IN /\ pc[s] = "update"
     /\ status' = [status EXCEPT ![i] = to]
     /\ ever' = IF to \in Finished THEN ever \cup {i} ELSE ever
     /\ earned' = IF to \in Finished /\ call[s].tool = "elite_verify"
                  THEN earned \cup {i} ELSE earned
     /\ held' = held \cup {Aggregate(status')}
     /\ alone' = [t \in Sessions |-> t = s /\ \A u \in Sessions \ {s} : ~Midway(u)]
     /\ settled' = FALSE
     /\ Goto(s, "select")
     /\ UNCHANGED <<run_status, call, found, calls>>

\* Slip, for mutation: the statuses read with the run are patched, not read again.
SelectPatched(s) ==
  /\ pc[s] = "select"
  /\ found' = [found EXCEPT ![s][call[s].step] = call[s].to]
  /\ Goto(s, "write")
  /\ UNCHANGED <<table, call, calls, history>>

Select(s) ==
  /\ pc[s] = "select"
  /\ found' = [found EXCEPT ![s] = status]
  /\ Goto(s, "write")
  /\ UNCHANGED <<table, call, calls, history>>

\* The locals of a finished or dead call mean nothing any more.
Discard(s) ==
  /\ call' = [call EXCEPT ![s] = NoStepCall]
  /\ found' = [found EXCEPT ![s] = Pending]
  /\ alone' = [alone EXCEPT ![s] = FALSE]
  /\ Goto(s, "idle")

\* Slip, for mutation: a run that was completed is not reopened.
WriteOnce(s) ==
  /\ pc[s] = "write"
  /\ run_status' = IF run_status = "completed" THEN run_status ELSE Aggregate(found[s])
  /\ settled' = alone[s]
  /\ Discard(s)
  /\ UNCHANGED <<status, calls, ever, earned, held>>

\* The response then reads run and steps again and changes nothing.
Write(s) ==
  /\ pc[s] = "write"
  /\ run_status' = Aggregate(found[s])
  /\ settled' = alone[s]
  /\ Discard(s)
  /\ UNCHANGED <<status, calls, ever, earned, held>>

\* The server dies; what it has committed stays.
StepCrash(s) ==
  /\ Crashes /\ pc[s] # "idle"
  /\ Discard(s)
  /\ UNCHANGED <<table, calls, ever, earned, held, settled>>

-----------------------------------------------------------------------------
Call(s) == \E i \in Steps, to \in Requested : Progress(s, i, to) \/ UpdateStep(s, i, to)

StepsNext == \E s \in Sessions : Call(s) \/ UpdateRow(s) \/ Select(s) \/ Write(s) \/ StepCrash(s)

StepsSpec == StepsInit /\ [][StepsNext]_stepsVars

-----------------------------------------------------------------------------
(* Properties.                                                             *)

\* Every variable has its type.
StepsTypeOK ==
  /\ status \in [Steps -> Statuses] /\ run_status \in RunStatuses
  /\ pc \in [Sessions -> {"idle", "update", "select", "write"}]
  /\ call \in [Sessions -> [step : Steps, to : Statuses,
                            tool : {"elite_verify", "workflow_update_step"}]]
  /\ found \in [Sessions -> [Steps -> Statuses]]
  /\ calls \in 0..MaxCalls
  /\ ever \subseteq Steps /\ earned \subseteq Steps /\ held \subseteq RunStatuses
  /\ alone \in [Sessions -> BOOLEAN] /\ settled \in BOOLEAN

\* No step is marked passed or skipped through elite_verify before every
\* earlier step has at some time been passed or skipped, even though the check
\* and the update are separate and other sessions write in between (gateway.py
\* check="progress").
NoSkipAhead == \A i \in earned : \A j \in 1..(i - 1) : j \in ever

\* The status of the run is one its steps really had at some single moment: it
\* is never put together from reads of different moments. In particular a run
\* is completed only if all steps were passed or skipped at once
\* (persistent_store.py update_workflow_step).
StatusWasTrue == run_status \in held

\* An update that no other update overlaps leaves the status of the run in
\* agreement with its steps, whatever races and crashes came before
\* (persistent_store.py update_workflow_step).
LoneUpdateHeals == settled => run_status = Aggregate(status)

\* tests/test_gateway_workflow_controls.py: after the last progress call every
\* step is passed and workflow_status is "completed".
CompletedWhenAllPassed ==
  (\A s \in Sessions : pc[s] = "idle") /\ (\A i \in Steps : status[i] = "passed") =>
    run_status = "completed"
=============================================================================
