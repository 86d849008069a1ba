------------------------------- MODULE MCGate -------------------------------
(***************************************************************************)
(* The gate in three scenarios side by side: under one contract two        *)
(* sessions of compliant hosts interleave; under the other one session at  *)
(* a time serves a sloppy host, with one edit more; and with one session   *)
(* of a compliant host, commands are flaky, fail to run or are not         *)
(* allowed, snapshots fail, and the worktree is committed.                 *)
(***************************************************************************)
EXTENDS MCEvidenceGate

VARIABLE scenario

GateContracts == {FullContract, TestsContract}
ContractOf == [sessions |-> TestsContract, sloppy |-> FullContract, failures |-> TestsContract]

GateInit == scenario \in DOMAIN ContractOf /\ Init /\ contract = ContractOf[scenario]

CompliantCall(s) ==
  \/ CheckSyntax(s, TRUE, TRUE) \/ CheckDiff(s, TRUE, "contract")
  \/ CheckTests(s, TRUE) \/ CheckOutcomes(s, TRUE, {})
Serve(s) == Status(s) \/ Handle(s) \/ Crash(s)

\* No other session is in a call or has received another directive than the first.
Alone(s) ==
  \A t \in Sessions \ {s} : pc[t] = "idle" /\ directive[t] = NextContinuation(contract, <<>>)

\* The same gate, where more can happen.
Failing == INSTANCE EvidenceGate WITH
  Events <- {"commit", "crash", "command", "snapshot", "flaky"}

GateNext ==
  \/ /\ scenario = "sessions"
     /\ (moves < MaxMoves - 1 /\ Edit) \/ \E s \in Sessions : CompliantCall(s) \/ Serve(s)
     /\ UNCHANGED scenario
  \/ /\ scenario = "sloppy"
     /\ Edit \/ \E s \in Sessions : Alone(s) /\ (Call(s) \/ Serve(s))
     /\ UNCHANGED scenario
  \/ /\ scenario = "failures"
     /\ \/ Failing!Edit \/ Failing!Commit
        \/ \E s \in Sessions :
             /\ Alone(s)
             /\ \/ Failing!CheckTests(s, TRUE) \/ Failing!CheckOutcomes(s, TRUE, {})
                \/ Failing!Handle(s) \/ Failing!Crash(s)
     /\ UNCHANGED scenario

GateSpec == GateInit /\ [][GateNext]_<<scenario, vars>>
=============================================================================
