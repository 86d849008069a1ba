--------------------------- MODULE MCServicesProofs ----------------------------
(***************************************************************************)
(* The services side by side. Whatever part of MCServices moves, and       *)
(* whatever judge of its judgements, it moves as its module says, so that  *)
(* each theorem about the module is one about the product, and the types   *)
(* are right in all of it.                                                 *)
(***************************************************************************)
EXTENDS MCServices, ServicesProofs, LearningProofs, JudgementsProofs

\* Every behaviour of the services is one of the module that models the part that
\* moves (rule_lifecycle.py, chain.py, sync_server.py, blind_protocol.py,
\* symbol_indexer.py, user_profile.py, task_contract.py, registry.py).
THEOREM ServicesPartsBehave ==
  ServicesSpec =>
    \/ [](part = "rules") /\ RuleSpec
    \/ [](part = "tools") /\ ToolSpec
    \/ [](part = "hub") /\ HubSpec
    \/ [](part = "trial") /\ TrialSpec
    \/ [](part = "graph") /\ GraphSpec
    \/ [](part = "config") /\ ConfigSpec
    \/ [](part = "judgements" /\ judge = "contracts") /\ ContractSpec
    \/ [](part = "judgements" /\ judge = "verdicts") /\ VerdictSpec
    \/ [](part = "judgements" /\ judge = "grounded") /\ GroundedSpec
<1>1. ServicesInit =>
        \/ part = "rules" /\ RuleInit
        \/ part = "tools" /\ ToolInit
        \/ part = "hub" /\ HubInit
        \/ part = "trial" /\ TrialInit
        \/ part = "graph" /\ GraphInit
        \/ part = "config" /\ ConfigInit
        \/ part = "judgements" /\ judge = "contracts" /\ ContractInit
        \/ part = "judgements" /\ judge = "verdicts" /\ VerdictInit
        \/ part = "judgements" /\ judge = "grounded" /\ GroundedInit
  BY DEF ServicesInit, JudgementsInit
<1>2. part = "rules" /\ [ServicesNext]_servicesVars => [RuleNext]_ruleVars /\ (part = "rules")'
  BY DEF ServicesNext, servicesVars
<1>3. part = "tools" /\ [ServicesNext]_servicesVars => [ToolNext]_toolVars /\ (part = "tools")'
  BY DEF ServicesNext, servicesVars
<1>4. part = "hub" /\ [ServicesNext]_servicesVars => [HubNext]_hubVars /\ (part = "hub")'
  BY DEF ServicesNext, servicesVars
<1>5. part = "trial" /\ [ServicesNext]_servicesVars => [TrialNext]_trialVars /\ (part = "trial")'
  BY DEF ServicesNext, servicesVars
<1>6. part = "graph" /\ [ServicesNext]_servicesVars => [GraphNext]_graphVars /\ (part = "graph")'
  BY DEF ServicesNext, servicesVars
<1>7. part = "config" /\ [ServicesNext]_servicesVars => [ConfigNext]_configVars /\ (part = "config")'
  BY DEF ServicesNext, servicesVars
<1>8. part = "judgements" /\ judge = "contracts" /\ [ServicesNext]_servicesVars
        => [ContractNext]_contractVars /\ (part = "judgements" /\ judge = "contracts")'
  BY DEF ServicesNext, servicesVars, JudgementsNext, judgementsVars
<1>9. part = "judgements" /\ judge = "verdicts" /\ [ServicesNext]_servicesVars
        => [VerdictNext]_verdictVars /\ (part = "judgements" /\ judge = "verdicts")'
  BY DEF ServicesNext, servicesVars, JudgementsNext, judgementsVars
<1>10. part = "judgements" /\ judge = "grounded" /\ [ServicesNext]_servicesVars
        => [GroundedNext]_groundedVars /\ (part = "judgements" /\ judge = "grounded")'
  BY DEF ServicesNext, servicesVars, JudgementsNext, judgementsVars
<1> QED
  BY <1>1, <1>2, <1>3, <1>4, <1>5, <1>6, <1>7, <1>8, <1>9, <1>10, PTL
     DEF ServicesSpec, RuleSpec, ToolSpec, HubSpec, TrialSpec, GraphSpec, ConfigSpec,
         ContractSpec, VerdictSpec, GroundedSpec

\* Whatever part of the services moves, its variables keep their types
\* (rule_lifecycle.py, chain.py, sync_server.py, blind_protocol.py,
\* symbol_indexer.py, user_profile.py, task_contract.py, registry.py).
THEOREM ServicesTypeCorrect == ServicesSpec => []ServicesTypeOK
<1>1. part = "rules" /\ RuleTypeOK => ServicesTypeOK
  BY DEF ServicesTypeOK
<1>2. part = "tools" /\ ToolTypeOK => ServicesTypeOK
  BY DEF ServicesTypeOK
<1>3. part = "hub" /\ HubTypeOK => ServicesTypeOK
  BY DEF ServicesTypeOK
<1>4. part = "trial" /\ TrialTypeOK => ServicesTypeOK
  BY DEF ServicesTypeOK
<1>5. part = "graph" /\ GraphTypeOK => ServicesTypeOK
  BY DEF ServicesTypeOK
<1>6. part = "config" /\ ConfigTypeOK => ServicesTypeOK
  BY DEF ServicesTypeOK
<1>7. part = "judgements" /\ judge = "contracts" /\ ContractTypeOK => ServicesTypeOK
  BY DEF ServicesTypeOK
<1>8. part = "judgements" /\ judge = "verdicts" /\ VerdictTypeOK => ServicesTypeOK
  BY DEF ServicesTypeOK
<1>9. part = "judgements" /\ judge = "grounded" /\ GroundedTypeOK => ServicesTypeOK
  BY DEF ServicesTypeOK
<1> QED
  BY <1>1, <1>2, <1>3, <1>4, <1>5, <1>6, <1>7, <1>8, <1>9, ServicesPartsBehave,
     RulesTypeCorrect, ToolTypeCorrect, HubTypeCorrect, TrialTypeCorrect, GraphTypeCorrect,
     ConfigTypeCorrect, ContractTypeCorrect, VerdictTypeCorrect, GroundedTypeCorrect, PTL
================================================================================
