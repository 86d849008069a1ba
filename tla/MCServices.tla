------------------------------ MODULE MCServices ------------------------------
(***************************************************************************)
(* The services around the store side by side. They share no variable, so  *)
(* a product of their behaviours would show nothing that each does not     *)
(* show by itself: `part` says which of them moves, and the others stay in *)
(* one of their initial states.                                            *)
(***************************************************************************)
EXTENDS RuleLifecycle, ToolCalls, HubAccess, TrialVerdicts, CallGraph, ConfigFiles, MCJudgements

CONSTANTS p1, p2, k1, k2  \* processes, and the calls that run in each

VARIABLE part

servicesVars ==
  <<part, ruleVars, toolVars, hubVars, trialVars, graphVars, configVars, judgementsVars>>

\* A part that does not move is in one of its initial states.
ServicesInit ==
  /\ part \in {"rules", "tools", "hub", "trial", "graph", "config", "judgements"}
  /\ part # "judgements" => judge = "verdicts"
  /\ JudgementsInit
  /\ RuleInit
  /\ part # "tools" => declined = FALSE /\ goals = {} /\ calls = [c \in ToolCallIds |-> FreeCall(c)]
  /\ ToolInit
  /\ part # "hub" => keys = "open"
  /\ HubInit
  /\ part # "trial" => pairs = OneCase("win") /\ overspend = 0 /\ decision = "ship"
  /\ TrialInit
  /\ part # "graph" =>
       /\ owner = [f \in Functions |-> f] /\ unwalked = {} /\ written = {}
       /\ modified = CHOOSE f \in Functions : TRUE
  /\ GraphInit
  /\ part # "config" => content = [f \in ConfigFile |-> Absent]
  /\ ConfigInit

ServicesNext ==
  \/ /\ part = "rules" /\ RuleNext
     /\ UNCHANGED <<part, toolVars, hubVars, trialVars, graphVars, configVars, judgementsVars>>
  \/ /\ part = "tools" /\ ToolNext
     /\ UNCHANGED <<part, ruleVars, hubVars, trialVars, graphVars, configVars, judgementsVars>>
  \/ /\ part = "hub" /\ HubNext
     /\ UNCHANGED <<part, ruleVars, toolVars, trialVars, graphVars, configVars, judgementsVars>>
  \/ /\ part = "trial" /\ TrialNext
     /\ UNCHANGED <<part, ruleVars, toolVars, hubVars, graphVars, configVars, judgementsVars>>
  \/ /\ part = "graph" /\ GraphNext
     /\ UNCHANGED <<part, ruleVars, toolVars, hubVars, trialVars, configVars, judgementsVars>>
  \/ /\ part = "config" /\ ConfigNext
     /\ UNCHANGED <<part, ruleVars, toolVars, hubVars, trialVars, graphVars, judgementsVars>>
  \/ /\ part = "judgements" /\ JudgementsNext
     /\ UNCHANGED <<part, ruleVars, toolVars, hubVars, trialVars, graphVars, configVars>>

ServicesSpec == ServicesInit /\ [][ServicesNext]_servicesVars

\* Every variable of the service that moves keeps its type; the others keep their value.
ServicesTypeOK ==
  CASE part = "rules" -> RuleTypeOK [] part = "tools" -> ToolTypeOK
    [] part = "hub" -> HubTypeOK [] part = "trial" -> TrialTypeOK
    [] part = "graph" -> GraphTypeOK [] part = "config" -> ConfigTypeOK
    [] part = "judgements" /\ judge = "contracts" -> ContractTypeOK
    [] part = "judgements" /\ judge = "verdicts" -> VerdictTypeOK
    [] part = "judgements" /\ judge = "grounded" -> GroundedTypeOK

ProcessSymmetry == Permutations({p1, p2}) \cup Permutations({k1, k2})
=============================================================================
