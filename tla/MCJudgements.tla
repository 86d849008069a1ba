------------------------------ MODULE MCJudgements ------------------------------
(***************************************************************************)
(* What decides on a draft, side by side: the contract of its prompt, the  *)
(* verifiers that plugins and the server register, and the evidence it is  *)
(* grounded in. They share no variable: `judge` says which of them moves,  *)
(* and the others stay in one of their initial states.                     *)
(***************************************************************************)
EXTENDS MCTaskContracts, MCRequirementVerdicts, GroundedAnswer

CONSTANTS g1, g2, g3  \* pages

SomeLengths == [s \in 1 .. 3 |-> s]
SomeIndex == <<<<g1, g2>>, <<g2, g3>>>>
\* The last has a quotation that is too long to be found.
SomeCitations ==
  {[urls |-> {g2, g3}, spans |-> {1}, found |-> {1}], [urls |-> {g1}, spans |-> {1, 3}, found |-> {1}]}
SomeWebs ==
  {[p \in WebPages |-> {1, 2, 3}], (g1 :> {}) @@ (g2 :> {1, 2}) @@ (g3 :> {3})}

VARIABLE judge

judgementsVars == <<judge, contractVars, verdictVars, groundedVars>>

JudgementsInit ==
  /\ judge \in {"contracts", "verdicts", "grounded"}
  /\ judge # "contracts" => prompt = CHOOSE p \in Prompts : TRUE
  /\ ContractInit /\ VerdictInit
  /\ judge # "grounded" => web = CHOOSE w \in FirstWebs : TRUE
  /\ GroundedInit

JudgementsNext ==
  \/ judge = "contracts" /\ ContractNext /\ UNCHANGED <<judge, verdictVars, groundedVars>>
  \/ judge = "verdicts" /\ VerdictNext /\ UNCHANGED <<judge, contractVars, groundedVars>>
  \/ judge = "grounded" /\ GroundedNext /\ UNCHANGED <<judge, contractVars, verdictVars>>
=============================================================================
