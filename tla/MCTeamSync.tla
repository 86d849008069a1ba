------------------------------ MODULE MCTeamSync ------------------------------
(* An instance of TeamSync for TLC. *)
EXTENDS TeamSync, TLC

CONSTANTS
  b1,         \* a brain
  w1, w2,     \* windows
  ok1, poor   \* contents: one that the heuristics let pass, one they do not

\* Two windows of one user.
SameBrain == [w \in Windows |-> b1]

AllDirections == {"pull", "push", "bidirectional"}
=============================================================================
