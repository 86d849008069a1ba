---------------------------- MODULE MCWorkflowSteps ----------------------------
(* An instance of WorkflowSteps for TLC. *)
EXTENDS WorkflowSteps, TLC

CONSTANTS s1, s2  \* sessions

GatewayOnly == {"elite_verify"}
=============================================================================
