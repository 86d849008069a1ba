---------------------------- MODULE LearningProofs ----------------------------
(***************************************************************************)
(* Theorems about RuleLifecycle and LearningLoop: for every number of      *)
(* rules, servers and writers, and for every threshold, limit and list of  *)
(* past prompts that RuleAssumption, TrustIsLater and LoopAssumption allow.*)
(***************************************************************************)
EXTENDS RuleLifecycle, LearningLoop, FiniteSetTheorems, SequenceTheorems, TLAPS

RuleTables == UNION {[D -> RuleRow] : D \in SUBSET RuleIds}
Ticks == [todo : SUBSET RuleIds, loaded : RuleTables]

\* The type invariant, with the functions that TLC has no need to be told of.
RuleShape ==
  /\ RuleTypeOK
  /\ rules \in RuleTables
  /\ ticking \in [RuleServers -> Ticks]

\* A retired rule is switched off, and a tick works only on rows that were not
\* retired when it loaded them.
RetiredIsOff ==
  /\ \A r \in DOMAIN rules : rules[r].state = "retired" => ~rules[r].enabled
  /\ \A p \in RuleServers : \A r \in ticking[p].todo : ticking[p].loaded[r].state # "retired"

\* A rule that was off when a call began is still in the cache only if that call
\* did not begin with a reload; so are the late calls of a process.
LateSinceReload ==
  /\ \A p \in RuleServers, r \in RuleIds : late[p][r] \subseteq 1..(ReloadInterval - 1)
  /\ \A p \in RuleServers, c \in CallSlots : \A r \in inCall[p][c].off :
       /\ ~rules[r].enabled
       /\ r \in bus[p].cached => inCall[p][c].at \in 1..(ReloadInterval - 1)

-----------------------------------------------------------------------------
(* The rows.                                                               *)

LEMMA IntervalType ==
  /\ ReloadInterval \in Nat
  /\ 0 \in 0..(ReloadInterval - 1)
  /\ \A c \in 0..(ReloadInterval - 1) :
       c + 1 = ReloadInterval \/ c + 1 \in 0..(ReloadInterval - 1)
  BY RuleAssumption

LEMMA TableType ==
  ASSUME NEW t \in RuleTables
  PROVE  /\ DOMAIN t \subseteq RuleIds
         /\ \A r \in DOMAIN t : t[r] \in RuleRow
  BY DEF RuleTables

LEMMA TableIntro ==
  ASSUME NEW D \in SUBSET RuleIds, NEW t \in [D -> RuleRow]
  PROVE  t \in RuleTables
  BY DEF RuleTables

LEMMA NextStateType ==
  ASSUME NEW row \in RuleRow
  PROVE  /\ NextState(row) \in LifecycleStates
         /\ NextState(row) = "trusted" => row.state = "trusted"
<1> USE DEF RuleRow
<1>0. row.evals > PromoteEvals \/ ~(row.evals >= TrustEvals)
  BY RuleAssumption, TrustIsLater
<1>1. CASE row.state = "probation"
  BY <1>1 DEF NextState, FromProbation, LifecycleStates
<1>2. CASE row.state = "active"
  <2>1. NextState(row) = FromActive(row)
    BY <1>2 DEF NextState
  <2>2. CASE row.evals > PromoteEvals
    BY <2>1, <2>2 DEF FromActive, LifecycleStates
  <2>3. CASE ~(row.evals > PromoteEvals)
    BY <1>0, <2>1, <2>3 DEF FromActive, LifecycleStates
  <2> QED BY <2>2, <2>3
<1>3. CASE row.state = "trusted"
  BY <1>3 DEF NextState, FromTrusted, LifecycleStates
<1>4. CASE row.state \notin {"probation", "active", "trusted"}
  BY <1>4 DEF NextState, LifecycleStates
<1> QED BY <1>1, <1>2, <1>3, <1>4

LEMMA MovedType ==
  ASSUME NEW row \in RuleRow, NEW state \in LifecycleStates
  PROVE  /\ InState(row, state) \in RuleRow
         /\ InState(row, state).state = state
         /\ InState(row, state).enabled => row.enabled /\ state # "retired"
  BY DEF RuleRow, InState

-----------------------------------------------------------------------------
(* What a step does to the table and to the ticks under way.               *)

LEMMA TableStep ==
  ASSUME RuleShape, RuleNext
  PROVE  rules' \in RuleTables /\ DOMAIN rules \subseteq DOMAIN rules'
<1> USE DEF RuleShape
<1>0. /\ DOMAIN rules \subseteq RuleIds
      /\ \A r \in DOMAIN rules : rules[r] \in RuleRow
  BY TableType
<1>1. ASSUME NEW r \in RuleIds, NEW hook \in Triggers, Register(r, hook)
      PROVE  rules' \in RuleTables /\ DOMAIN rules \subseteq DOMAIN rules'
  <2>1. NewRule(hook) \in RuleRow
    BY DEF NewRule, RuleRow, LifecycleStates
  <2>2. rules' \in [DOMAIN rules \cup {r} -> RuleRow]
    BY <1>0, <1>1, <2>1 DEF Register, Put
  <2> QED BY <1>0, <2>2, TableIntro
<1>2. ASSUME NEW r \in RuleIds, Verdict(r)
      PROVE  rules' \in RuleTables /\ DOMAIN rules \subseteq DOMAIN rules'
  <2>1. /\ [rules[r] EXCEPT !.useful = @ + 1] \in RuleRow
        /\ [rules[r] EXCEPT !.noisy = @ + 1] \in RuleRow
    BY <1>0, <1>2 DEF Verdict, RuleRow
  <2>2. rules' \in [DOMAIN rules -> RuleRow]
    BY <1>0, <1>2, <2>1 DEF Verdict
  <2> QED BY <1>0, <2>2, TableIntro
<1>3. ASSUME NEW r \in RuleIds, NEW state \in LifecycleStates, SetByHand(r, state)
      PROVE  rules' \in RuleTables /\ DOMAIN rules \subseteq DOMAIN rules'
  <2>1. InState(rules[r], state) \in RuleRow
    BY <1>0, <1>3, MovedType DEF SetByHand
  <2>2. rules' \in [DOMAIN rules -> RuleRow]
    BY <1>0, <1>3, <2>1 DEF SetByHand
  <2> QED BY <1>0, <2>2, TableIntro
<1>4. ASSUME NEW p \in RuleServers, NEW cached, NEW hook, NEW call, Emit(p, cached, hook, call)
      PROVE  rules' \in RuleTables /\ DOMAIN rules \subseteq DOMAIN rules'
  <2>1. PICK fired \in SUBSET {r \in cached : rules[r].trigger = hook},
             counted \in SUBSET {r \in cached : rules[r].trigger = hook} :
          rules' = [r \in DOMAIN rules |->
            [rules[r] EXCEPT !.fires = IF r \in fired THEN @ + 1 ELSE @,
                             !.evals = IF r \in counted THEN @ + 1 ELSE @]]
    BY <1>4 DEF Emit
  <2>2. ASSUME NEW r \in DOMAIN rules
        PROVE  [rules[r] EXCEPT !.fires = IF r \in fired THEN @ + 1 ELSE @,
                                !.evals = IF r \in counted THEN @ + 1 ELSE @] \in RuleRow
    <3> DEFINE f == IF r \in fired THEN rules[r].fires + 1 ELSE rules[r].fires
               e == IF r \in counted THEN rules[r].evals + 1 ELSE rules[r].evals
    <3>1. rules[r] \in RuleRow
      BY <1>0, <2>2
    <3>2. f \in Nat /\ e \in Nat
      BY <3>1 DEF RuleRow
    <3>3. \A x, y \in Nat : [rules[r] EXCEPT !.fires = x, !.evals = y] \in RuleRow
      BY <3>1 DEF RuleRow
    <3> QED BY <3>2, <3>3
  <2>3. rules' \in [DOMAIN rules -> RuleRow]
    BY <2>1, <2>2
  <2> QED BY <1>0, <2>3, TableIntro
<1>5. ASSUME NEW p \in RuleServers, NEW r \in RuleIds, TickRule(p, r)
      PROVE  rules' \in RuleTables /\ DOMAIN rules \subseteq DOMAIN rules'
  <2> DEFINE row == ticking[p].loaded[r]
  <2>1. row \in RuleRow /\ r \in DOMAIN rules
    BY <1>5 DEF TickRule, RuleTypeOK
  <2>2. InState(rules[r], NextState(row)) \in RuleRow
    BY <1>0, <2>1, NextStateType, MovedType
  <2>3. rules' \in [DOMAIN rules -> RuleRow] \/ rules' = rules
    BY <1>0, <1>5, <2>1, <2>2 DEF TickRule
  <2> QED BY <1>0, <2>3, TableIntro
<1>6. ASSUME NEW p \in RuleServers, StartBus(p) \/ TickLoad(p)
      PROVE  rules' \in RuleTables /\ DOMAIN rules \subseteq DOMAIN rules'
  BY <1>6 DEF StartBus, TickLoad
<1> QED BY <1>1, <1>2, <1>3, <1>4, <1>5, <1>6 DEF RuleNext, BusBefore, BusAfter, BeforeWith

Positions == 0..(ReloadInterval - 1)
BusOver(D) == [cached : SUBSET D, count : Positions]
CallOver(D) == [on : BOOLEAN, at : Positions, off : SUBSET D]

\* The bus, the calls and the late calls of a process keep their types.
BusTyped(D) ==
  /\ bus \in [RuleServers -> BusOver(D)]
  /\ inCall \in [RuleServers -> [CallSlots -> CallOver(D)]]
  /\ late \in [RuleServers -> [RuleIds -> SUBSET Positions]]

LEMMA EmitType ==
  ASSUME NEW D, BusTyped(D), NEW p \in RuleServers, NEW cached, NEW hook,
         NEW call \in CallOver(D), Emit(p, cached, hook, call)
  PROVE  late' \in [RuleServers -> [RuleIds -> SUBSET Positions]]
<1>1. PICK fired \in SUBSET {r \in cached : rules[r].trigger = hook},
           counted \in SUBSET {r \in cached : rules[r].trigger = hook} :
        late' = [late EXCEPT ![p] = [r \in RuleIds |->
          IF r \notin cached THEN {}
          ELSE IF r \in (fired \cup counted) \cap call.off THEN @[r] \cup {call.at}
          ELSE @[r]]]
  BY DEF Emit
<1>2. call.at \in Positions /\ \A r \in RuleIds : late[p][r] \in SUBSET Positions
  BY DEF CallOver, BusTyped
<1>3. [r \in RuleIds |-> IF r \notin cached THEN {}
          ELSE IF r \in (fired \cup counted) \cap call.off THEN late[p][r] \cup {call.at}
          ELSE late[p][r]] \in [RuleIds -> SUBSET Positions]
  BY <1>2
<1> QED BY <1>1, <1>3 DEF BusTyped

LEMMA BusStep ==
  ASSUME RuleShape, RuleNext
  PROVE  BusTyped(DOMAIN rules)'
<1> DEFINE D == DOMAIN rules'
<1> USE DEF RuleShape
<1>0. DOMAIN rules \subseteq D /\ BusTyped(D)
  BY TableStep DEF RuleTypeOK, BusTyped, BusOver, CallOver, Positions
<1>1. NoToolCall \in CallOver(D) /\ 0 \in Positions
  BY IntervalType DEF NoToolCall, CallOver, Positions
<1>2. ASSUME NEW p \in RuleServers, StartBus(p)
      PROVE  BusTyped(DOMAIN rules)'
  <2>1. [cached |-> Enabled(rules), count |-> 0] \in BusOver(D)
    BY <1>0, <1>1 DEF Enabled, BusOver
  <2>2. bus' = [bus EXCEPT ![p] = [cached |-> Enabled(rules), count |-> 0]]
        /\ inCall' = [inCall EXCEPT ![p] = [c \in CallSlots |-> NoToolCall]]
        /\ late' = [late EXCEPT ![p] = [r \in RuleIds |-> {}]]
    BY <1>2 DEF StartBus
  <2> QED BY <1>0, <1>1, <2>1, <2>2 DEF BusTyped
<1>3. ASSUME NEW p \in RuleServers, NEW c \in CallSlots, BusBefore(p, c)
      PROVE  BusTyped(DOMAIN rules)'
  <2>1. PICK cached \in {Enabled(rules), {}, bus[p].cached} : BeforeWith(p, c, cached)
    BY <1>3 DEF BusBefore
  <2> DEFINE call == [on |-> TRUE, at |-> NextCount(p), off |-> DOMAIN rules \ Enabled(rules)]
  <2>2. bus[p] \in BusOver(D)
    BY <1>0 DEF BusTyped
  <2>3. NextCount(p) \in Positions /\ cached \in SUBSET D
    BY <1>0, <2>1, <2>2, IntervalType DEF Enabled, NextCount, BusOver, Positions
  <2>4. call \in CallOver(D) /\ [cached |-> cached, count |-> NextCount(p)] \in BusOver(D)
    BY <1>0, <2>3 DEF CallOver, BusOver
  <2>5. /\ bus' = [bus EXCEPT ![p] = [cached |-> cached, count |-> NextCount(p)]]
        /\ inCall' = [inCall EXCEPT ![p][c] = call]
        /\ Emit(p, cached, "before", call)
    BY <2>1 DEF BeforeWith
  <2>6. late' \in [RuleServers -> [RuleIds -> SUBSET Positions]]
    BY <1>0, <2>4, <2>5, EmitType
  <2> QED BY <1>0, <2>4, <2>5, <2>6 DEF BusTyped
<1>4. ASSUME NEW p \in RuleServers, NEW c \in CallSlots, BusAfter(p, c)
      PROVE  BusTyped(DOMAIN rules)'
  <2>1. inCall[p][c] \in CallOver(D)
    BY <1>0 DEF BusTyped
  <2>2. /\ bus' = bus /\ inCall' = [inCall EXCEPT ![p][c] = NoToolCall]
        /\ Emit(p, bus[p].cached, "after", inCall[p][c])
    BY <1>4 DEF BusAfter
  <2>3. late' \in [RuleServers -> [RuleIds -> SUBSET Positions]]
    BY <1>0, <2>1, <2>2, EmitType
  <2> QED BY <1>0, <1>1, <2>2, <2>3 DEF BusTyped
<1>5. CASE UNCHANGED <<bus, inCall, late>>
  BY <1>0, <1>5 DEF BusTyped
<1>6. CASE \/ \E r \in RuleIds : \/ Verdict(r) \/ \E hook \in Triggers : Register(r, hook)
                                 \/ \E state \in LifecycleStates : SetByHand(r, state)
           \/ \E p \in RuleServers : TickLoad(p) \/ \E r \in RuleIds : TickRule(p, r)
  BY <1>5, <1>6 DEF Register, Verdict, SetByHand, TickLoad, TickRule, ruleHistory
<1> QED BY <1>2, <1>3, <1>4, <1>6 DEF RuleNext

\* What the ticks under way have loaded are rows of the table as it was, and no
\* retired ones.
TicksFit ==
  \A p \in RuleServers :
    /\ ticking[p].todo \subseteq DOMAIN ticking[p].loaded
    /\ DOMAIN ticking[p].loaded \subseteq DOMAIN rules
    /\ \A r \in DOMAIN ticking[p].loaded : ticking[p].loaded[r] \in RuleRow

LEMMA TickStep ==
  ASSUME RuleShape, RuleNext
  PROVE  ticking' \in [RuleServers -> Ticks] /\ TicksFit'
<1> USE DEF RuleShape
<1>0. /\ ticking \in [RuleServers -> Ticks] /\ TicksFit
      /\ DOMAIN rules \subseteq DOMAIN rules' /\ DOMAIN rules \subseteq RuleIds
      /\ \A r \in DOMAIN rules : rules[r] \in RuleRow
  BY TableStep, TableType DEF RuleTypeOK, TicksFit
<1>1. ASSUME NEW p \in RuleServers, NEW tick \in Ticks,
             ticking' = [ticking EXCEPT ![p] = tick],
             tick.todo \subseteq DOMAIN tick.loaded, DOMAIN tick.loaded \subseteq DOMAIN rules
      PROVE  ticking' \in [RuleServers -> Ticks] /\ TicksFit'
  <2>1. ticking' \in [RuleServers -> Ticks]
    BY <1>0, <1>1
  <2>2. \A r \in DOMAIN tick.loaded : tick.loaded[r] \in RuleRow
    BY TableType DEF Ticks
  <2>3. ASSUME NEW q \in RuleServers
        PROVE  /\ ticking'[q].todo \subseteq DOMAIN ticking'[q].loaded
               /\ DOMAIN ticking'[q].loaded \subseteq DOMAIN rules'
               /\ \A r \in DOMAIN ticking'[q].loaded : ticking'[q].loaded[r] \in RuleRow
    <3>1. CASE q = p
      <4>1. ticking'[q] = tick
        BY <1>0, <1>1, <3>1
      <4> QED BY <1>0, <1>1, <2>2, <4>1
    <3>2. CASE q # p
      <4>1. ticking'[q] = ticking[q]
        BY <1>0, <1>1, <3>2
      <4> QED BY <1>0, <4>1 DEF TicksFit
    <3> QED BY <3>1, <3>2
  <2> QED BY <2>1, <2>3 DEF TicksFit
<1>2. ASSUME NEW p \in RuleServers, StartBus(p)
      PROVE  ticking' \in [RuleServers -> Ticks] /\ TicksFit'
  <2>1. DOMAIN << >> = {} /\ << >> \in [{} -> RuleRow]
    OBVIOUS
  <2>2. NoTick \in Ticks /\ NoTick.todo = {} /\ DOMAIN NoTick.loaded = {}
    BY <2>1, TableIntro DEF NoTick, Ticks
  <2> QED BY <1>1, <1>2, <2>2 DEF StartBus
<1>3. ASSUME NEW p \in RuleServers, TickLoad(p)
      PROVE  ticking' \in [RuleServers -> Ticks] /\ TicksFit'
  <2> DEFINE tick == [todo |-> NotRetired(rules), loaded |-> [r \in NotRetired(rules) |-> rules[r]]]
  <2>1. NotRetired(rules) \in SUBSET RuleIds /\ NotRetired(rules) \subseteq DOMAIN rules
    BY <1>0 DEF NotRetired
  <2>2. tick.loaded \in [NotRetired(rules) -> RuleRow]
    BY <1>0, <2>1
  <2>3. tick \in Ticks /\ tick.todo = NotRetired(rules) /\ DOMAIN tick.loaded = NotRetired(rules)
    BY <2>1, <2>2, TableIntro DEF Ticks
  <2>4. ticking' = [ticking EXCEPT ![p] = tick]
    BY <1>3 DEF TickLoad
  <2> QED BY <1>1, <2>1, <2>3, <2>4
<1>4. ASSUME NEW p \in RuleServers, NEW r \in RuleIds, TickRule(p, r)
      PROVE  ticking' \in [RuleServers -> Ticks] /\ TicksFit'
  <2> DEFINE tick == [ticking[p] EXCEPT !.todo = @ \ {r}]
  <2>1. tick \in Ticks /\ tick.todo = ticking[p].todo \ {r} /\ tick.loaded = ticking[p].loaded
    BY <1>0 DEF Ticks
  <2>2. ticking' = [ticking EXCEPT ![p] = tick]
    BY <1>4 DEF TickRule
  <2>3. tick.todo \subseteq DOMAIN tick.loaded /\ DOMAIN tick.loaded \subseteq DOMAIN rules
    BY <1>0, <2>1 DEF TicksFit
  <2> QED BY <1>1, <2>1, <2>2, <2>3
<1>5. CASE UNCHANGED ticking
  BY <1>0, <1>5 DEF TicksFit
<1>6. CASE \/ \E r \in RuleIds : \/ Verdict(r) \/ \E hook \in Triggers : Register(r, hook)
                                 \/ \E state \in LifecycleStates : SetByHand(r, state)
           \/ \E p \in RuleServers, c \in CallSlots : BusBefore(p, c) \/ BusAfter(p, c)
  BY <1>5, <1>6 DEF Register, Verdict, SetByHand, BusBefore, BusAfter, BeforeWith
<1> QED BY <1>2, <1>3, <1>4, <1>6 DEF RuleNext

LEMMA CountStep ==
  ASSUME RuleShape, RuleNext
  PROVE  ruleCalls' \in 0..MaxRuleCalls /\ judgements' \in 0..MaxJudgements /\ byHand' \subseteq RuleIds
<1> USE RuleAssumption DEF RuleShape, RuleTypeOK
<1>0. MaxRuleCalls \in Nat /\ MaxJudgements \in Nat
  OBVIOUS
<1>1. \/ ruleCalls' = ruleCalls
      \/ ruleCalls < MaxRuleCalls /\ ruleCalls' = ruleCalls + 1
  BY DEF RuleNext, Register, Verdict, SetByHand, StartBus, BusBefore, BusAfter, BeforeWith, TickLoad, TickRule
<1>2. judgements' = judgements \/ Judged
  BY DEF RuleNext, Register, Verdict, SetByHand, StartBus, BusBefore, BusAfter, BeforeWith, TickLoad, TickRule
<1>3. byHand' = byHand \/ \E r \in RuleIds : byHand' = byHand \cup {r}
  BY DEF RuleNext, Register, Verdict, SetByHand, StartBus, BusBefore, BusAfter, BeforeWith, TickLoad, TickRule, ruleHistory
<1>4. ruleCalls' \in 0..MaxRuleCalls
  BY <1>0, <1>1
<1>5. judgements' \in 0..MaxJudgements
  BY <1>0, <1>2 DEF Judged
<1>6. byHand' \subseteq RuleIds
  BY <1>3
<1> QED BY <1>4, <1>5, <1>6

LEMMA ShapeInit == RuleInit => RuleShape
<1> SUFFICES ASSUME RuleInit PROVE RuleShape
  OBVIOUS
<1>1. DOMAIN << >> = {} /\ << >> \in [{} -> RuleRow]
  OBVIOUS
<1>2. << >> \in RuleTables
  BY <1>1, TableIntro
<1>3. NoTick \in Ticks /\ NoTick.todo = {} /\ DOMAIN NoTick.loaded = {}
  BY <1>1, <1>2 DEF NoTick, Ticks
<1>4. ticking \in [RuleServers -> Ticks] /\ \A p \in RuleServers : ticking[p] = NoTick
  BY <1>3 DEF RuleInit
<1>5. BusTyped(DOMAIN rules)
  BY <1>1, IntervalType DEF RuleInit, NoBus, NoToolCall, BusTyped, BusOver, CallOver, Positions
<1>6. /\ bus \in [RuleServers -> [cached : SUBSET DOMAIN rules, count : 0..(ReloadInterval - 1)]]
      /\ inCall \in [RuleServers -> [CallSlots ->
           [on : BOOLEAN, at : 0..(ReloadInterval - 1), off : SUBSET DOMAIN rules]]]
      /\ late \in [RuleServers -> [RuleIds -> SUBSET (0..(ReloadInterval - 1))]]
  BY <1>5 DEF BusTyped, BusOver, CallOver, Positions
<1> QED BY <1>1, <1>2, <1>3, <1>4, <1>5, <1>6, RuleAssumption DEF RuleShape, RuleTypeOK, RuleInit

LEMMA ShapeNext == RuleShape /\ [RuleNext]_ruleVars => RuleShape'
<1> SUFFICES ASSUME RuleShape, [RuleNext]_ruleVars PROVE RuleShape'
  OBVIOUS
<1>1. CASE RuleNext
  <2>1. rules' \in RuleTables /\ DOMAIN rules' \subseteq RuleIds /\ \A r \in DOMAIN rules' : rules'[r] \in RuleRow
    BY <1>1, TableStep, TableType
  <2>2. /\ bus' \in [RuleServers -> [cached : SUBSET DOMAIN rules', count : 0..(ReloadInterval - 1)]]
        /\ inCall' \in [RuleServers -> [CallSlots ->
             [on : BOOLEAN, at : 0..(ReloadInterval - 1), off : SUBSET DOMAIN rules']]]
        /\ late' \in [RuleServers -> [RuleIds -> SUBSET (0..(ReloadInterval - 1))]]
    BY <1>1, BusStep DEF BusTyped, BusOver, CallOver, Positions
  <2> QED BY <1>1, <2>1, <2>2, TickStep, CountStep DEF RuleShape, RuleTypeOK, TicksFit
<1>2. CASE UNCHANGED ruleVars
  BY <1>2 DEF ruleVars, ruleHistory, RuleShape, RuleTypeOK
<1> QED BY <1>1, <1>2

\* The variables of RuleLifecycle keep their types, for any number of rules, of
\* servers and of calls.
THEOREM RulesTypeCorrect == RuleSpec => []RuleTypeOK
<1>1. RuleShape => RuleTypeOK
  BY DEF RuleShape
<1> QED BY <1>1, ShapeInit, ShapeNext, PTL DEF RuleSpec

-----------------------------------------------------------------------------
(* Who may make a rule trusted, and what becomes of a retired one.         *)

\* The row a step leaves for a rule: a new one, or one with other counters, or
\* one moved by hand, or one moved as a row that was loaded earlier says.
RowStep(r) ==
  \/ r \notin DOMAIN rules /\ \E hook \in Triggers : rules'[r] = NewRule(hook)
  \/ r \in DOMAIN rules /\ rules'[r].state = rules[r].state /\ rules'[r].enabled = rules[r].enabled
  \/ /\ r \in DOMAIN rules /\ r \in byHand'
     /\ \E state \in LifecycleStates : rules'[r] = InState(rules[r], state)
  \/ /\ r \in DOMAIN rules
     /\ \E p \in RuleServers :
          r \in ticking[p].todo /\ rules'[r] = InState(rules[r], NextState(ticking[p].loaded[r]))

LEMMA RowsStep ==
  ASSUME RuleShape, RuleNext
  PROVE  /\ \A r \in DOMAIN rules' : RowStep(r)
         /\ byHand \subseteq byHand'
<1> USE DEF RuleShape
<1>0. /\ DOMAIN rules \subseteq RuleIds
      /\ \A r \in DOMAIN rules : rules[r] \in RuleRow
  BY TableType
<1>1. ASSUME NEW s \in RuleIds, NEW hook \in Triggers, Register(s, hook)
      PROVE  (\A r \in DOMAIN rules' : RowStep(r)) /\ byHand \subseteq byHand'
  BY <1>1 DEF Register, Put, RowStep, ruleHistory
<1>2. ASSUME NEW s \in RuleIds, Verdict(s)
      PROVE  (\A r \in DOMAIN rules' : RowStep(r)) /\ byHand \subseteq byHand'
  BY <1>0, <1>2 DEF Verdict, RowStep, ruleHistory, RuleRow
<1>3. ASSUME NEW s \in RuleIds, NEW state \in LifecycleStates, SetByHand(s, state)
      PROVE  (\A r \in DOMAIN rules' : RowStep(r)) /\ byHand \subseteq byHand'
  <2>1. rules' = [rules EXCEPT ![s] = InState(rules[s], state)] /\ byHand' = byHand \cup {s}
    BY <1>3 DEF SetByHand
  <2> QED BY <2>1 DEF RowStep
<1>4. ASSUME NEW p \in RuleServers, NEW cached, NEW hook, NEW call,
             Emit(p, cached, hook, call), byHand' = byHand
      PROVE  (\A r \in DOMAIN rules' : RowStep(r)) /\ byHand \subseteq byHand'
  <2>1. PICK fired \in SUBSET {r \in cached : rules[r].trigger = hook},
             counted \in SUBSET {r \in cached : rules[r].trigger = hook} :
          rules' = [r \in DOMAIN rules |->
            [rules[r] EXCEPT !.fires = IF r \in fired THEN @ + 1 ELSE @,
                             !.evals = IF r \in counted THEN @ + 1 ELSE @]]
    BY <1>4 DEF Emit
  <2>2. DOMAIN rules' = DOMAIN rules
    BY <2>1
  <2>3. ASSUME NEW r \in DOMAIN rules
        PROVE  rules'[r].state = rules[r].state /\ rules'[r].enabled = rules[r].enabled
    BY <1>0, <2>1, <2>3 DEF RuleRow
  <2> QED BY <1>4, <2>2, <2>3 DEF RowStep
<1>5. ASSUME NEW p \in RuleServers, NEW s \in RuleIds, TickRule(p, s)
      PROVE  (\A r \in DOMAIN rules' : RowStep(r)) /\ byHand \subseteq byHand'
  <2>1. CASE rules' = rules
    BY <1>5, <2>1 DEF TickRule, RowStep, ruleHistory
  <2>2. CASE rules' = [rules EXCEPT ![s] = InState(rules[s], NextState(ticking[p].loaded[s]))]
    BY <1>5, <2>2 DEF TickRule, RowStep, ruleHistory
  <2> QED BY <1>5, <2>1, <2>2 DEF TickRule
<1>6. ASSUME NEW p \in RuleServers, StartBus(p) \/ TickLoad(p)
      PROVE  (\A r \in DOMAIN rules' : RowStep(r)) /\ byHand \subseteq byHand'
  BY <1>6 DEF StartBus, TickLoad, RowStep, ruleHistory
<1> QED BY <1>1, <1>2, <1>3, <1>4, <1>5, <1>6 DEF RuleNext, BusBefore, BusAfter, BeforeWith

\* What a tick holds after a step, it held before, or it loaded it just now.
LEMMA HeldStep ==
  ASSUME RuleShape, RuleNext, NEW p \in RuleServers, NEW r \in ticking'[p].todo
  PROVE  \/ r \in ticking[p].todo /\ ticking'[p].loaded[r] = ticking[p].loaded[r]
         \/ r \in NotRetired(rules) /\ ticking'[p].loaded[r] = rules[r]
<1> USE DEF RuleShape
<1>0. ticking \in [RuleServers -> Ticks]
  OBVIOUS
<1>1. CASE ticking' = ticking
  BY <1>1
<1>2. ASSUME NEW q \in RuleServers, StartBus(q)
      PROVE  r \in ticking[p].todo /\ ticking'[p].loaded[r] = ticking[p].loaded[r]
  BY <1>0, <1>2 DEF StartBus, NoTick
<1>3. ASSUME NEW q \in RuleServers, TickLoad(q)
      PROVE  \/ r \in ticking[p].todo /\ ticking'[p].loaded[r] = ticking[p].loaded[r]
             \/ r \in NotRetired(rules) /\ ticking'[p].loaded[r] = rules[r]
  BY <1>0, <1>3 DEF TickLoad
<1>4. ASSUME NEW q \in RuleServers, NEW s \in RuleIds, TickRule(q, s)
      PROVE  r \in ticking[p].todo /\ ticking'[p].loaded[r] = ticking[p].loaded[r]
  BY <1>0, <1>4 DEF TickRule, Ticks
<1>5. CASE \/ \E s \in RuleIds : \/ Verdict(s) \/ \E hook \in Triggers : Register(s, hook)
                                 \/ \E state \in LifecycleStates : SetByHand(s, state)
           \/ \E q \in RuleServers, c \in CallSlots : BusBefore(q, c) \/ BusAfter(q, c)
  BY <1>1, <1>5 DEF Register, Verdict, SetByHand, BusBefore, BusAfter, BeforeWith
<1> QED BY <1>2, <1>3, <1>4, <1>5 DEF RuleNext

\* A trusted rule is one that somebody moved by hand, to that state or another.
TrustOnlyByHand ==
  \A r \in DOMAIN rules : rules[r].state = "trusted" => r \in byHand

\* Trust is the work of a hand, in the table and in what a tick has loaded.
TrustByHand ==
  /\ TrustOnlyByHand
  /\ \A p \in RuleServers : \A r \in ticking[p].todo :
       ticking[p].loaded[r].state = "trusted" => r \in byHand

LEMMA TrustNext == RuleShape /\ TrustByHand /\ [RuleNext]_ruleVars => TrustByHand'
<1> SUFFICES ASSUME RuleShape, TrustByHand, [RuleNext]_ruleVars PROVE TrustByHand'
  OBVIOUS
<1>1. CASE RuleNext
  <2>1. ASSUME NEW r \in DOMAIN rules', rules'[r].state = "trusted" PROVE r \in byHand'
    <3>1. RowStep(r) /\ byHand \subseteq byHand'
      BY <1>1, RowsStep
    <3>2. CASE \E hook \in Triggers : rules'[r] = NewRule(hook)
      BY <2>1, <3>2 DEF NewRule
    <3>3. CASE r \in DOMAIN rules /\ rules'[r].state = rules[r].state
      BY <2>1, <3>1, <3>3 DEF TrustByHand, TrustOnlyByHand
    <3>4. ASSUME r \in DOMAIN rules, NEW p \in RuleServers, r \in ticking[p].todo,
                 rules'[r] = InState(rules[r], NextState(ticking[p].loaded[r]))
          PROVE  r \in byHand'
      <4>1. ticking[p].loaded[r] \in RuleRow /\ rules[r] \in RuleRow
        BY <3>4 DEF RuleShape, RuleTypeOK
      <4>2. NextState(ticking[p].loaded[r]) \in LifecycleStates
        BY <4>1, NextStateType
      <4>3. InState(rules[r], NextState(ticking[p].loaded[r])).state = NextState(ticking[p].loaded[r])
        BY <4>1, <4>2, MovedType
      <4>4. ticking[p].loaded[r].state = "trusted"
        BY <2>1, <3>4, <4>1, <4>3, NextStateType
      <4> QED BY <3>1, <3>4, <4>4 DEF TrustByHand
    <3> QED BY <3>1, <3>2, <3>3, <3>4 DEF RowStep
  <2>2. ASSUME NEW p \in RuleServers, NEW r \in ticking'[p].todo, ticking'[p].loaded[r].state = "trusted"
        PROVE  r \in byHand'
    BY <1>1, <2>2, HeldStep, RowsStep DEF TrustByHand, TrustOnlyByHand, NotRetired
  <2> QED BY <2>1, <2>2 DEF TrustByHand, TrustOnlyByHand
<1>2. CASE UNCHANGED ruleVars
  BY <1>2 DEF ruleVars, ruleHistory, TrustByHand, TrustOnlyByHand
<1> QED BY <1>1, <1>2

\* No rule earns trust, contrary to what RulesEarnTrust demands, whatever the
\* thresholds are, as long as a rule becomes dormant before it may be trusted
\* (_next_state).
THEOREM NobodyEarnsTrust == RuleSpec => []TrustOnlyByHand
<1>1. RuleInit => TrustByHand
  BY DEF RuleInit, TrustByHand, TrustOnlyByHand, NoTick
<1>2. TrustByHand => TrustOnlyByHand
  BY DEF TrustByHand
<1> QED BY <1>1, <1>2, ShapeInit, ShapeNext, TrustNext, PTL DEF RuleSpec

LEMMA RetiredNext == RuleShape /\ RetiredIsOff /\ [RuleNext]_ruleVars => RetiredIsOff'
<1> SUFFICES ASSUME RuleShape, RetiredIsOff, [RuleNext]_ruleVars PROVE RetiredIsOff'
  OBVIOUS
<1>1. CASE RuleNext
  <2>1. ASSUME NEW r \in DOMAIN rules', rules'[r].state = "retired" PROVE ~rules'[r].enabled
    <3>1. RowStep(r)
      BY <1>1, RowsStep
    <3>2. CASE \E hook \in Triggers : rules'[r] = NewRule(hook)
      BY <2>1, <3>2 DEF NewRule
    <3>3. CASE r \in DOMAIN rules /\ rules'[r].state = rules[r].state /\ rules'[r].enabled = rules[r].enabled
      BY <2>1, <3>3 DEF RetiredIsOff
    <3>4. ASSUME r \in DOMAIN rules, NEW state \in LifecycleStates, rules'[r] = InState(rules[r], state)
          PROVE  ~rules'[r].enabled
      BY <2>1, <3>4, MovedType DEF RuleShape, RuleTypeOK
    <3>5. ASSUME r \in DOMAIN rules, NEW p \in RuleServers, r \in ticking[p].todo,
                 rules'[r] = InState(rules[r], NextState(ticking[p].loaded[r]))
          PROVE  ~rules'[r].enabled
      <4>1. NextState(ticking[p].loaded[r]) \in LifecycleStates
        BY <3>5, NextStateType DEF RuleShape, RuleTypeOK
      <4> QED BY <3>4, <3>5, <4>1
    <3> QED BY <3>1, <3>2, <3>3, <3>4, <3>5 DEF RowStep
  <2>2. ASSUME NEW p \in RuleServers, NEW r \in ticking'[p].todo
        PROVE  ticking'[p].loaded[r].state # "retired"
    BY <1>1, HeldStep DEF RetiredIsOff, NotRetired
  <2> QED BY <2>1, <2>2 DEF RetiredIsOff
<1>2. CASE UNCHANGED ruleVars
  BY <1>2 DEF ruleVars, RetiredIsOff
<1> QED BY <1>1, <1>2

LEMMA RetiredStep ==
  ASSUME RuleShape, RetiredIsOff, RuleNext, NEW r \in DOMAIN rules, rules[r].state = "retired"
  PROVE  /\ ~rules[r].enabled /\ ~rules'[r].enabled
         /\ \/ rules'[r].state = "retired"
            \/ r \in byHand'
            \/ \E p \in RuleServers : r \in ticking[p].todo /\ ticking[p].loaded[r].state # "retired"
<1>1. RowStep(r) /\ rules[r] \in RuleRow /\ ~rules[r].enabled
  BY RowsStep, TableStep DEF RetiredIsOff, RuleShape, RuleTypeOK
<1>2. \A state : InState(rules[r], state).enabled => rules[r].enabled
  BY <1>1 DEF InState, RuleRow
<1> QED BY <1>1, <1>2 DEF RowStep, RetiredIsOff

\* A retired rule stays switched off for ever, and it leaves retirement only by
\* hand or through a tick that is late (_load_all_rules, _transition).
THEOREM RetirementLasts == RuleSpec => RetiredStaysOff
<1>1. RuleInit => RetiredIsOff
  BY DEF RuleInit, RetiredIsOff, NoTick
<1>2. RuleShape /\ RetiredIsOff /\ [RuleNext]_ruleVars =>
        [\A r \in DOMAIN rules : rules[r].state = "retired" =>
           /\ ~rules[r].enabled /\ ~rules'[r].enabled
           /\ \/ rules'[r].state = "retired"
              \/ r \in byHand'
              \/ \E p \in RuleServers : r \in ticking[p].todo /\ ticking[p].loaded[r].state # "retired"]_rules
  BY RetiredStep DEF ruleVars
<1> QED BY <1>1, <1>2, ShapeInit, ShapeNext, RetiredNext, PTL DEF RuleSpec, RetiredStaysOff

-----------------------------------------------------------------------------
(* How long a process goes on using a rule that was switched off.          *)

\* A rule that is off stays off.
LEMMA OffStaysOff ==
  ASSUME RuleShape, RuleNext, NEW r \in DOMAIN rules, ~rules[r].enabled
  PROVE  ~rules'[r].enabled
<1>1. RowStep(r) /\ rules[r] \in RuleRow
  BY RowsStep, TableStep DEF RuleShape, RuleTypeOK
<1>2. \A state : InState(rules[r], state).enabled => rules[r].enabled
  BY <1>1 DEF InState, RuleRow
<1> QED BY <1>1, <1>2 DEF RowStep

LEMMA NextCountType ==
  ASSUME RuleShape, NEW p \in RuleServers
  PROVE  NextCount(p) = 0 \/ NextCount(p) \in 1..(ReloadInterval - 1)
<1>1. bus[p].count \in 0..(ReloadInterval - 1)
  BY DEF RuleShape, RuleTypeOK
<1> QED BY <1>1, RuleAssumption DEF NextCount

\* What a call that evaluates the rules given adds to the late calls.
LEMMA EmitLate ==
  ASSUME RuleShape, NEW q \in RuleServers, NEW s \in RuleIds, NEW p \in RuleServers,
         NEW cached, NEW hook, NEW call, Emit(p, cached, hook, call),
         late[q][s] \subseteq 1..(ReloadInterval - 1),
         s \in cached \cap call.off => call.at \in 1..(ReloadInterval - 1)
  PROVE  late'[q][s] \subseteq 1..(ReloadInterval - 1)
<1>1. PICK fired \in SUBSET {r \in cached : rules[r].trigger = hook},
           counted \in SUBSET {r \in cached : rules[r].trigger = hook} :
        late' = [late EXCEPT ![p] = [r \in RuleIds |->
          IF r \notin cached THEN {}
          ELSE IF r \in (fired \cup counted) \cap call.off THEN @[r] \cup {call.at}
          ELSE @[r]]]
  BY DEF Emit
<1>2. late \in [RuleServers -> [RuleIds -> SUBSET (0..(ReloadInterval - 1))]]
  BY DEF RuleShape, RuleTypeOK
<1>3. CASE p = q
  <2>1. \/ late'[q][s] = {} \/ late'[q][s] = late[q][s]
        \/ s \in cached \cap call.off /\ late'[q][s] = late[q][s] \cup {call.at}
    BY <1>1, <1>2, <1>3
  <2> QED BY <2>1
<1>4. CASE p # q
  BY <1>1, <1>2, <1>4
<1> QED BY <1>3, <1>4

\* No call that has begun after a rule was switched off still finds it in the
\* cache, unless the bus was not reloaded since.
CallsFit ==
  \A p \in RuleServers, c \in CallSlots : \A r \in inCall[p][c].off :
    r \in bus[p].cached => inCall[p][c].at \in 1..(ReloadInterval - 1)

LEMMA CallsFitNext ==
  ASSUME RuleShape, LateSinceReload, RuleNext
  PROVE  CallsFit'
<1> USE DEF RuleShape, RuleTypeOK
<1>0. /\ CallsFit
      /\ \A p \in RuleServers, c \in CallSlots : \A r \in inCall[p][c].off : ~rules[r].enabled
  BY DEF LateSinceReload, CallsFit
<1>1. CASE UNCHANGED <<bus, inCall>>
  BY <1>0, <1>1 DEF CallsFit
<1>2. ASSUME NEW p \in RuleServers, StartBus(p)
      PROVE  CallsFit'
  <2>1. /\ bus' = [bus EXCEPT ![p] = [cached |-> Enabled(rules), count |-> 0]]
        /\ inCall' = [inCall EXCEPT ![p] = [c \in CallSlots |-> NoToolCall]]
    BY <1>2 DEF StartBus
  <2> QED BY <1>0, <2>1 DEF CallsFit, NoToolCall
<1>3. ASSUME NEW p \in RuleServers, NEW d \in CallSlots, BusBefore(p, d)
      PROVE  CallsFit'
  <2>1. PICK cached : /\ cached \in IF NextCount(p) = 0 THEN {Enabled(rules), {}} ELSE {bus[p].cached}
                      /\ BeforeWith(p, d, cached)
    BY <1>3 DEF BusBefore
  <2> DEFINE call == [on |-> TRUE, at |-> NextCount(p), off |-> DOMAIN rules \ Enabled(rules)]
  <2>2. /\ bus' = [bus EXCEPT ![p] = [cached |-> cached, count |-> NextCount(p)]]
        /\ inCall' = [inCall EXCEPT ![p][d] = call]
    BY <2>1 DEF BeforeWith
  <2>3. NextCount(p) = 0 \/ NextCount(p) \in 1..(ReloadInterval - 1)
    BY NextCountType
  <2>4. ASSUME NEW q \in RuleServers, NEW c \in CallSlots, NEW r \in inCall'[q][c].off, r \in bus'[q].cached
        PROVE  inCall'[q][c].at \in 1..(ReloadInterval - 1)
    <3>1. CASE q # p
      <4>1. inCall'[q] = inCall[q] /\ bus'[q] = bus[q]
        BY <2>2, <3>1
      <4> QED BY <1>0, <2>4, <4>1 DEF CallsFit
    <3>2. CASE q = p
      <4>1. bus'[q].cached = cached /\ (inCall'[q][c] = inCall[q][c] \/ (inCall'[q][c] = call /\ c = d))
        BY <2>2, <3>2
      <4>2. ~rules[r].enabled
        BY <1>0, <2>4, <4>1 DEF Enabled
      <4>3. NextCount(p) # 0 /\ cached = bus[p].cached
        BY <2>1, <2>4, <4>1, <4>2 DEF Enabled
      <4> QED BY <1>0, <2>3, <2>4, <3>2, <4>1, <4>3 DEF CallsFit
    <3> QED BY <3>1, <3>2
  <2> QED BY <2>4 DEF CallsFit
<1>4. ASSUME NEW p \in RuleServers, NEW d \in CallSlots, BusAfter(p, d)
      PROVE  CallsFit'
  <2>1. bus' = bus /\ inCall' = [inCall EXCEPT ![p][d] = NoToolCall]
    BY <1>4 DEF BusAfter
  <2>2. ASSUME NEW q \in RuleServers, NEW c \in CallSlots
        PROVE  inCall'[q][c].off = {} \/ inCall'[q][c] = inCall[q][c]
    BY <2>1 DEF NoToolCall
  <2> QED BY <1>0, <2>1, <2>2 DEF CallsFit
<1>5. CASE \/ \E r \in RuleIds : \/ Verdict(r) \/ \E hook \in Triggers : Register(r, hook)
                                 \/ \E state \in LifecycleStates : SetByHand(r, state)
           \/ \E p \in RuleServers : TickLoad(p) \/ \E r \in RuleIds : TickRule(p, r)
  BY <1>1, <1>5 DEF Register, Verdict, SetByHand, TickLoad, TickRule
<1> QED BY <1>2, <1>3, <1>4, <1>5 DEF RuleNext

\* The rules that were off when a call began are off still.
LEMMA CallsOffNext ==
  ASSUME RuleShape, LateSinceReload, RuleNext
  PROVE  \A p \in RuleServers, c \in CallSlots : \A r \in inCall'[p][c].off : ~rules'[r].enabled
<1> USE DEF RuleShape, RuleTypeOK
<1>0. \A p \in RuleServers, c \in CallSlots : \A r \in inCall[p][c].off :
        r \in DOMAIN rules /\ ~rules[r].enabled
  BY DEF LateSinceReload
<1>1. ASSUME NEW p \in RuleServers, NEW c \in CallSlots
      PROVE  inCall'[p][c].off \subseteq inCall[p][c].off \cup (DOMAIN rules \ Enabled(rules))
  <2>1. CASE inCall' = inCall
    BY <2>1
  <2>2. ASSUME NEW q \in RuleServers, StartBus(q)
        PROVE  inCall'[p][c].off = {} \/ inCall'[p][c] = inCall[p][c]
    BY <2>2 DEF StartBus, NoToolCall
  <2>3. ASSUME NEW q \in RuleServers, NEW d \in CallSlots, BusBefore(q, d)
        PROVE  inCall'[p][c].off = DOMAIN rules \ Enabled(rules) \/ inCall'[p][c] = inCall[p][c]
    BY <2>3 DEF BusBefore, BeforeWith
  <2>4. ASSUME NEW q \in RuleServers, NEW d \in CallSlots, BusAfter(q, d)
        PROVE  inCall'[p][c].off = {} \/ inCall'[p][c] = inCall[p][c]
    BY <2>4 DEF BusAfter, NoToolCall
  <2>5. CASE \/ \E r \in RuleIds : \/ Verdict(r) \/ \E hook \in Triggers : Register(r, hook)
                                   \/ \E state \in LifecycleStates : SetByHand(r, state)
             \/ \E q \in RuleServers : TickLoad(q) \/ \E r \in RuleIds : TickRule(q, r)
    BY <2>1, <2>5 DEF Register, Verdict, SetByHand, TickLoad, TickRule
  <2> QED BY <2>2, <2>3, <2>4, <2>5 DEF RuleNext
<1>2. ASSUME NEW p \in RuleServers, NEW c \in CallSlots, NEW r \in inCall'[p][c].off
      PROVE  r \in DOMAIN rules /\ ~rules[r].enabled
  BY <1>0, <1>1, <1>2 DEF Enabled
<1> QED BY <1>2, OffStaysOff

LEMMA LateNext == RuleShape /\ LateSinceReload /\ [RuleNext]_ruleVars => LateSinceReload'
<1> SUFFICES ASSUME RuleShape, LateSinceReload, [RuleNext]_ruleVars PROVE LateSinceReload'
  OBVIOUS
<1> USE DEF RuleShape, RuleTypeOK
<1>0. CallsFit /\ \A p \in RuleServers, r \in RuleIds : late[p][r] \subseteq 1..(ReloadInterval - 1)
  BY DEF LateSinceReload, CallsFit
<1>1. ASSUME RuleNext, NEW q \in RuleServers, NEW s \in RuleIds
      PROVE  late'[q][s] \subseteq 1..(ReloadInterval - 1)
  <2>1. CASE UNCHANGED late
    BY <1>0, <2>1
  <2>2. ASSUME NEW p \in RuleServers, StartBus(p)
        PROVE  late'[q][s] \subseteq 1..(ReloadInterval - 1)
    BY <1>0, <2>2 DEF StartBus
  <2>3. ASSUME NEW p \in RuleServers, NEW d \in CallSlots, BusBefore(p, d)
        PROVE  late'[q][s] \subseteq 1..(ReloadInterval - 1)
    <3>1. PICK cached : /\ cached \in IF NextCount(p) = 0 THEN {Enabled(rules), {}} ELSE {bus[p].cached}
                        /\ BeforeWith(p, d, cached)
      BY <2>3 DEF BusBefore
    <3> DEFINE call == [on |-> TRUE, at |-> NextCount(p), off |-> DOMAIN rules \ Enabled(rules)]
    <3>2. Emit(p, cached, "before", call)
      BY <3>1 DEF BeforeWith
    <3>3. NextCount(p) = 0 \/ NextCount(p) \in 1..(ReloadInterval - 1)
      BY NextCountType
    <3>4. s \in cached \cap call.off => NextCount(p) # 0
      BY <3>1 DEF Enabled
    <3> QED BY <1>0, <3>2, <3>3, <3>4, EmitLate
  <2>4. ASSUME NEW p \in RuleServers, NEW d \in CallSlots, BusAfter(p, d)
        PROVE  late'[q][s] \subseteq 1..(ReloadInterval - 1)
    <3>1. Emit(p, bus[p].cached, "after", inCall[p][d])
      BY <2>4 DEF BusAfter
    <3>2. s \in bus[p].cached \cap inCall[p][d].off => inCall[p][d].at \in 1..(ReloadInterval - 1)
      BY <1>0 DEF CallsFit
    <3> QED BY <1>0, <3>1, <3>2, EmitLate
  <2>5. CASE \/ \E r \in RuleIds : \/ Verdict(r) \/ \E hook \in Triggers : Register(r, hook)
                                   \/ \E state \in LifecycleStates : SetByHand(r, state)
             \/ \E p \in RuleServers : TickLoad(p) \/ \E r \in RuleIds : TickRule(p, r)
    BY <2>1, <2>5 DEF Register, Verdict, SetByHand, TickLoad, TickRule, ruleHistory
  <2> QED BY <1>1, <2>2, <2>3, <2>4, <2>5 DEF RuleNext
<1>2. CASE RuleNext
  BY <1>1, <1>2, CallsFitNext, CallsOffNext DEF LateSinceReload, CallsFit
<1>3. CASE UNCHANGED ruleVars
  BY <1>3 DEF ruleVars, ruleHistory, LateSinceReload
<1> QED BY <1>2, <1>3

\* Of the calls a process begins after a rule was switched off, fewer than lie
\* between two reloads use it, although a reload may fail and may come while
\* calls are under way (EventBus._reload, PreventionRuleMiddleware).
THEOREM StaleRulesAreDropped == RuleSpec => []StaleRulesFade
<1>1. RuleInit => LateSinceReload
  BY DEF RuleInit, LateSinceReload, NoBus, NoToolCall
<1>2. LateSinceReload => StaleRulesFade
  <2> SUFFICES ASSUME LateSinceReload, NEW p \in RuleServers, NEW r \in RuleIds
               PROVE  Cardinality(late[p][r]) < ReloadInterval
    BY DEF StaleRulesFade
  <2>1. late[p][r] \subseteq 1..(ReloadInterval - 1)
    BY DEF LateSinceReload
  <2>2. ReloadInterval \in Nat /\ ReloadInterval > 0
    BY RuleAssumption
  <2>3. IsFiniteSet(1..(ReloadInterval - 1)) /\ Cardinality(1..(ReloadInterval - 1)) = ReloadInterval - 1
    BY <2>2, FS_Interval
  <2>4. IsFiniteSet(late[p][r]) /\ Cardinality(late[p][r]) \in Nat
        /\ Cardinality(late[p][r]) <= Cardinality(1..(ReloadInterval - 1))
    BY <2>1, <2>3, FS_Subset, FS_CardinalityType
  <2> QED BY <2>2, <2>3, <2>4
<1> QED BY <1>1, <1>2, ShapeInit, ShapeNext, LateNext, PTL DEF RuleSpec

-----------------------------------------------------------------------------
(* Status reports.                                                         *)

DetectionRow == [kind : DetectionKinds, automated : BOOLEAN]
Trends == {"no_data", "insufficient_data", "improving", "declining", "stable"}
ReportValues == Nat \cup Trends \cup BOOLEAN \cup (SUBSET DetectionKinds) \cup (SUBSET Wasted)
Statement == [at : {"idle", "insert", "mark", "read"}, name : HandNames \cup AutoNames \cup {0},
              source : 0 .. MaxDetections]

\* The type invariant, with the sequences and functions that TLC has no need to
\* be told of; a report that is being made is not complete.
LoopShape ==
  /\ LoopTypeOK
  /\ detections \in Seq(DetectionRow)
  /\ doing \in [LoopCallers -> Statement]
  /\ report \in [LoopCallers -> Seq(ReportValues)]
  /\ \A w \in LoopCallers :
       /\ doing[w].at = "read" => Len(report[w]) < Len(Reads)
       /\ doing[w].at = "insert" => doing[w].name \in HandNames \cup AutoNames

\* A detection is marked, or about to be, only after a rule was inserted for it.
MarkedHadRule ==
  /\ \A i \in DOMAIN detections : detections[i].automated => i \in hadRule
  /\ \A w \in LoopCallers : doing[w].at = "mark" => doing[w].source \in hadRule

\* What a report has counted is there, and where it found nothing pending each
\* of the detections it had counted before had its rule.
CountedHadRule ==
  \A w \in LoopCallers :
    /\ Len(report[w]) >= 1 => report[w][1] \in 0 .. Len(detections)
    /\ Len(report[w]) >= 7 /\ report[w][7] = 0 => 1 .. report[w][1] \subseteq hadRule

\* As long as nothing comes between, everything a report has read is still so.
UndisturbedIsFresh ==
  \A w \in LoopCallers \ disturbed : doing[w].at = "read" =>
    \A n \in 1 .. Len(report[w]) : report[w][n] = Found(Reads[n])

\* A complete report that nothing came between agrees with itself, for good.
UndisturbedAgrees ==
  \A w \in LoopCallers \ disturbed : Len(report[w]) = Len(Reads) =>
    /\ report[w][1] - report[w][2] = report[w][7]
    /\ report[w][9] /\ report[w][6] = {} => Wasted \subseteq Range(prompts)

ReportInv == LoopShape /\ MarkedHadRule /\ CountedHadRule /\ UndisturbedIsFresh /\ UndisturbedAgrees

LEMMA ReadsAre ==
  /\ Len(Reads) = 9 /\ DOMAIN Reads = 1 .. 9
  /\ Reads[1] = "total" /\ Reads[2] = "automated" /\ Reads[3] = "kinds" /\ Reads[4] = "goalTrend"
  /\ Reads[5] = "goalPending" /\ Reads[6] = "goalPrompts" /\ Reads[7] = "gapPending"
  /\ Reads[8] = "gapTrend" /\ Reads[9] = "gapPrompts"
  BY DEF Reads

\* The place of a read in a report.
LEMMA ItemPlace ==
  ASSUME NEW w \in LoopCallers
  PROVE  /\ Item(w, "total") = report[w][1] /\ Item(w, "automated") = report[w][2]
         /\ Item(w, "goalPrompts") = report[w][6] /\ Item(w, "gapPending") = report[w][7]
         /\ Item(w, "gapPrompts") = report[w][9]
<1>1. \A i \in DOMAIN Reads, read \in STRING : Reads[i] = read =>
        (CHOOSE j \in DOMAIN Reads : Reads[j] = read) = i
  <2> SUFFICES ASSUME NEW i \in DOMAIN Reads, NEW read \in STRING, Reads[i] = read
               PROVE  (CHOOSE j \in DOMAIN Reads : Reads[j] = read) = i
    OBVIOUS
  <2>1. \A j \in DOMAIN Reads : Reads[j] = read => j = i
    BY ReadsAre
  <2> QED BY <2>1
<1> QED BY <1>1, ReadsAre DEF Item

-----------------------------------------------------------------------------
(* Counting.                                                               *)

\* The places of a sequence that satisfy anything are no more than it is long.
LEMMA PlacesCount ==
  ASSUME NEW S, NEW s \in Seq(S), NEW P \in SUBSET DOMAIN s
  PROVE  /\ IsFiniteSet(P) /\ Cardinality(P) \in Nat /\ Cardinality(P) <= Len(s)
         /\ Cardinality(P) > 0 => P # {}
<1>1. Len(s) \in Nat /\ DOMAIN s = 1 .. Len(s)
  OBVIOUS
<1>2. IsFiniteSet(1 .. Len(s)) /\ Cardinality(1 .. Len(s)) = Len(s)
  <2>1. 1 \in Int /\ Len(s) \in Int
    BY <1>1
  <2>2. \A n \in Nat : IF 1 > n THEN n = 0 ELSE n - 1 + 1 = n
    OBVIOUS
  <2>3. Cardinality(1 .. Len(s)) = IF 1 > Len(s) THEN 0 ELSE Len(s) - 1 + 1
    BY <2>1, FS_Interval
  <2> QED BY <2>1, <2>2, <2>3, <1>1, FS_Interval
<1>3. IsFiniteSet(P) /\ Cardinality(P) <= Cardinality(1 .. Len(s))
  BY <1>1, <1>2, FS_Subset
<1> QED BY <1>2, <1>3, FS_CardinalityType, FS_EmptySet

LEMMA UnautomatedCount ==
  ASSUME LoopShape
  PROVE  Unautomated \in 0 .. Len(detections) /\ Len(detections) \in Nat
<1>1. detections \in Seq(DetectionRow)
  BY DEF LoopShape
<1>2. {i \in DOMAIN detections : ~detections[i].automated} \in SUBSET DOMAIN detections
  OBVIOUS
<1> QED BY <1>1, <1>2, PlacesCount DEF Unautomated

\* No detection is pending: every one is marked.
LEMMA NonePending ==
  ASSUME LoopShape, Unautomated = 0
  PROVE  \A i \in DOMAIN detections : detections[i].automated
<1>1. detections \in Seq(DetectionRow)
  BY DEF LoopShape
<1> DEFINE P == {i \in DOMAIN detections : ~detections[i].automated}
<1>2. IsFiniteSet(P) /\ Cardinality(P) = 0
  BY <1>1, PlacesCount DEF Unautomated
<1>3. P = {}
  BY <1>2, FS_EmptySet
<1> QED BY <1>3

LEMMA WindowIsPart ==
  ASSUME NEW S, NEW s \in Seq(S), NEW window \in Nat
  PROVE  /\ Newest(s, window) \in Seq(S)
         /\ \A i \in DOMAIN Newest(s, window) : Newest(s, window)[i] \in Range(s)
<1> DEFINE first == IF Len(s) > window THEN Len(s) - window + 1 ELSE 1
<1>1. Len(s) \in Nat /\ DOMAIN s = 1 .. Len(s) /\ first \in 1 .. Len(s) + 1
  OBVIOUS
<1>2. /\ SubSeq(s, first, Len(s)) \in Seq(S)
      /\ Len(SubSeq(s, first, Len(s))) = IF first <= Len(s) THEN Len(s) - first + 1 ELSE 0
      /\ \A i \in 1 .. Len(s) - first + 1 : SubSeq(s, first, Len(s))[i] = s[first + i - 1]
  BY <1>1, SubSeqProperties
<1>3. \A i \in DOMAIN SubSeq(s, first, Len(s)) : first + i - 1 \in DOMAIN s
                                           /\ SubSeq(s, first, Len(s))[i] = s[first + i - 1]
  <2> SUFFICES ASSUME NEW i \in DOMAIN SubSeq(s, first, Len(s))
               PROVE  first + i - 1 \in DOMAIN s /\ SubSeq(s, first, Len(s))[i] = s[first + i - 1]
    OBVIOUS
  <2>0. DOMAIN SubSeq(s, first, Len(s)) = 1 .. Len(SubSeq(s, first, Len(s)))
    BY <1>2, LenProperties
  <2>1. i \in 1 .. Len(SubSeq(s, first, Len(s)))
    BY <2>0
  <2> HIDE DEF first
  <2>2. first <= Len(s) /\ i \in 1 .. Len(s) - first + 1
    BY <1>1, <1>2, <2>1
  <2>3. first + i - 1 \in 1 .. Len(s)
    BY <1>1, <2>2
  <2> QED BY <1>1, <1>2, <2>2, <2>3
<1> QED BY <1>2, <1>3 DEF Newest, Range

\* Prompts that are called critical and draw no goal are wasted in all three ways:
\* two of them alone would be two fifths at most.
LEMMA CriticalIsSpread ==
  ASSUME NEW s \in Seq(Reasoning), PromptWindow \in Nat, Critical(s), PromptGoals(s) = {}
  PROVE  Wasted \subseteq Range(s)
<1> DEFINE W == Newest(s, PromptWindow)
           L == Len(W)
           Of(k) == {i \in DOMAIN W : W[i] = k}
           All == {i \in DOMAIN W : W[i] \in Wasted}
<1>1. W \in Seq(Reasoning) /\ \A i \in DOMAIN W : W[i] \in Range(s)
  BY WindowIsPart
<1>2. L \in Nat
  BY <1>1
<1> HIDE DEF W, L
<1>3. \A k \in Wasted : IsFiniteSet(Of(k)) /\ Cardinality(Of(k)) \in Nat
  BY <1>1, PlacesCount
<1>4. \A k \in Wasted : ~(5 * Cardinality(Of(k)) > L)
  <2>1. \A k \in Wasted : ~DrawsGoal(CountOf({k}, W), L)
    BY DEF PromptGoals, W, L
  <2>2. \A k : CountOf({k}, W) = Cardinality(Of(k))
    <3>1. \A k : {i \in DOMAIN W : W[i] \in {k}} = Of(k)
      OBVIOUS
    <3> QED BY <3>1 DEF CountOf
  <2> QED BY <2>1, <2>2 DEF DrawsGoal
<1>5. 2 * (L - Cardinality(All)) < L
  BY DEF Critical, CountOf, W, L
<1>6. ASSUME NEW k \in Wasted, Of(k) = {} PROVE FALSE
  <2>1. PICK a, b \in Wasted : All = Of(a) \cup Of(b)
    <3>1. CASE k = "loop"
      <4>1. All = Of("gap") \cup Of("depth")
        BY <1>6, <3>1 DEF Wasted
      <4> QED BY <4>1 DEF Wasted
    <3>2. CASE k = "gap"
      <4>1. All = Of("loop") \cup Of("depth")
        BY <1>6, <3>2 DEF Wasted
      <4> QED BY <4>1 DEF Wasted
    <3>3. CASE k = "depth"
      <4>1. All = Of("loop") \cup Of("gap")
        BY <1>6, <3>3 DEF Wasted
      <4> QED BY <4>1 DEF Wasted
    <3> QED BY <3>1, <3>2, <3>3 DEF Wasted
  <2> HIDE DEF All, Of
  <2>2. /\ Cardinality(All) = Cardinality(Of(a)) + Cardinality(Of(b)) - Cardinality(Of(a) \cap Of(b))
        /\ IsFiniteSet(Of(a) \cap Of(b))
    BY <1>3, <2>1, FS_Union, FS_Intersection
  <2>3. Cardinality(Of(a) \cap Of(b)) \in Nat
    BY <2>2, FS_CardinalityType
  <2>4. /\ Cardinality(Of(a)) \in Nat /\ ~(5 * Cardinality(Of(a)) > L)
        /\ Cardinality(Of(b)) \in Nat /\ ~(5 * Cardinality(Of(b)) > L)
    BY <1>3, <1>4
  <2>5. \A x, y, z, n, l \in Nat :
          n = x + y - z /\ ~(5 * x > l) /\ ~(5 * y > l) => ~(2 * (l - n) < l)
    OBVIOUS
  <2>6. Cardinality(All) \in Nat
    BY <1>1, PlacesCount DEF All
  <2> QED BY <2>2, <2>3, <2>4, <2>5, <2>6, <1>2, <1>5
<1>7. \A k \in Wasted : \E i \in DOMAIN W : W[i] = k
  BY <1>6
<1> QED BY <1>1, <1>7

-----------------------------------------------------------------------------
(* The steps.                                                              *)

LEMMA ReportInit == LoopInit => ReportInv
<1> SUFFICES ASSUME LoopInit PROVE ReportInv
  OBVIOUS
<1>1. detections \in Seq(DetectionRow) /\ Len(detections) = 0 /\ DOMAIN detections = {}
  BY DEF LoopInit
<1>2. NotBusy \in Statement /\ doing \in [LoopCallers -> Statement] /\ \A w \in LoopCallers : doing[w] = NotBusy
  BY LoopAssumption DEF LoopInit, NotBusy, Statement
<1>3. report \in [LoopCallers -> Seq(ReportValues)] /\ \A w \in LoopCallers : Len(report[w]) = 0
  <2>1. << >> \in Seq(ReportValues) /\ Len(<< >>) = 0
    BY EmptySeq
  <2> QED BY <2>1 DEF LoopInit
<1>4. NotBusy.at = "idle"
  BY DEF NotBusy
<1>5. scores \in Seq(Nat) /\ prompts \in Seq(Reasoning)
  BY LoopAssumption DEF LoopInit, Reasoning, Wasted
<1>6. LoopShape
  BY <1>1, <1>2, <1>3, <1>4, <1>5, ReadsAre, LoopAssumption
     DEF LoopShape, LoopTypeOK, LoopInit, Statement
<1> QED BY <1>1, <1>2, <1>3, <1>4, <1>6, ReadsAre
        DEF ReportInv, MarkedHadRule, CountedHadRule, UndisturbedIsFresh, UndisturbedAgrees

\* Whatever is read is a finding.
LEMMA FoundType ==
  ASSUME LoopShape, NEW n \in 1 .. 9
  PROVE  Found(Reads[n]) \in ReportValues
<1>1. Unautomated \in Nat /\ Len(detections) - Unautomated \in Nat /\ Len(detections) \in Nat
  BY UnautomatedCount
<1>2. Trend(scores) \in Trends
  BY DEF Trend, Trends
<1>3. Recurring \in SUBSET DetectionKinds /\ PromptGoals(prompts) \in SUBSET Wasted
  BY DEF Recurring, PromptGoals
<1>4. Critical(prompts) \in BOOLEAN
  BY DEF Critical
<1>5. CASE n \in {1, 2, 5, 7}
  BY <1>1, <1>5, ReadsAre DEF Found, ReportValues
<1>6. CASE n \in {4, 8}
  BY <1>2, <1>6, ReadsAre DEF Found, ReportValues
<1>7. CASE n = 3
  <2>1. Found(Reads[n]) = Recurring
    BY <1>7, ReadsAre DEF Found
  <2> QED BY <2>1, <1>3 DEF ReportValues
<1>8. CASE n = 6
  <2>1. Found(Reads[n]) = PromptGoals(prompts)
    BY <1>8, ReadsAre DEF Found
  <2> QED BY <2>1, <1>3 DEF ReportValues
<1>9. CASE n = 9
  <2>1. Found(Reads[n]) = Critical(prompts)
    BY <1>9, ReadsAre DEF Found
  <2> QED BY <2>1, <1>4 DEF ReportValues
<1> QED BY <1>5, <1>6, <1>7, <1>8, <1>9

LEMMA ReadStep ==
  ASSUME LoopShape, NEW w \in LoopCallers, ReadNext(w)
  PROVE  \E n \in 1 .. 9 :
           /\ Len(report[w]) = n - 1 /\ doing[w].at = "read"
           /\ report' = [report EXCEPT ![w] = Append(report[w], Found(Reads[n]))]
           /\ report'[w] \in Seq(ReportValues) /\ Len(report'[w]) = n /\ report'[w][n] = Found(Reads[n])
           /\ \A i \in 1 .. n - 1 : report'[w][i] = report[w][i]
           /\ IF n = 9 THEN Done(w) ELSE doing' = doing
           /\ UNCHANGED <<detections, ruleNames, hadRule, scores, prompts, disturbed, loopCalls>>
<1> DEFINE n == Len(report[w]) + 1
           found == Found(Reads[n])
<1>1. report[w] \in Seq(ReportValues) /\ Len(report[w]) \in Nat /\ Len(report[w]) < 9 /\ doing[w].at = "read"
  BY ReadsAre DEF LoopShape, ReadNext
<1>2. n \in 1 .. 9 /\ Len(report[w]) = n - 1
  BY <1>1
<1>3. found \in ReportValues
  BY <1>2, FoundType
<1>4. /\ report' = [report EXCEPT ![w] = Append(report[w], found)]
      /\ report'[w] = Append(report[w], found)
  BY DEF ReadNext, LoopShape
<1> HIDE DEF found
<1>5. /\ Append(report[w], found) \in Seq(ReportValues) /\ Len(Append(report[w], found)) = n
      /\ Append(report[w], found)[n] = found
      /\ \A i \in 1 .. n - 1 : Append(report[w], found)[i] = report[w][i]
  BY <1>1, <1>2, <1>3, AppendProperties
<1>6. /\ IF n = 9 THEN Done(w) ELSE doing' = doing
      /\ UNCHANGED <<detections, ruleNames, hadRule, scores, prompts, disturbed, loopCalls>>
  BY <1>4, <1>5, ReadsAre DEF ReadNext
<1> QED BY <1>1, <1>2, <1>4, <1>5, <1>6 DEF found

\* The part of LoopShape that is about the callers.
CallerShape ==
  /\ doing \in [LoopCallers -> Statement] /\ report \in [LoopCallers -> Seq(ReportValues)]
  /\ \A v \in LoopCallers :
       /\ doing[v].at = "read" => Len(report[v]) < Len(Reads)
       /\ doing[v].at = "insert" => doing[v].name \in HandNames \cup AutoNames
       /\ doing[v].at \in {"idle", "insert", "mark", "read"}
       /\ doing[v].source \in 0 .. MaxDetections
       /\ Len(report[v]) <= Len(Reads)

LEMMA ShapeOfCallers == LoopShape => CallerShape
  BY DEF LoopShape, LoopTypeOK, CallerShape

\* What every statement does to them.
LEMMA CallerStep ==
  ASSUME LoopShape, NEW w \in LoopCallers, NEW row \in Statement, row.at # "read",
         row.at = "insert" => row.name \in HandNames \cup AutoNames,
         doing' = [doing EXCEPT ![w] = row], report' = report
  PROVE  CallerShape'
<1>1. doing \in [LoopCallers -> Statement]
  BY DEF LoopShape
<1>2. \A v \in LoopCallers : doing'[v] = IF v = w THEN row ELSE doing[v]
  BY <1>1
<1>3. doing' \in [LoopCallers -> Statement]
  BY <1>1
<1>4. \A v \in LoopCallers :
        /\ doing'[v].at = "read" => doing[v].at = "read"
        /\ doing'[v].at = "insert" => doing'[v].name \in HandNames \cup AutoNames
  BY <1>2 DEF LoopShape
<1>5. \A v \in LoopCallers : doing'[v].at \in {"idle", "insert", "mark", "read"} /\ doing'[v].source \in 0 .. MaxDetections
  BY <1>3 DEF Statement
<1> QED BY <1>3, <1>4, <1>5 DEF LoopShape, LoopTypeOK, CallerShape

LEMMA IdleIsStatement == NotBusy \in Statement /\ NotBusy.at = "idle"
<1>1. 0 \in 0 .. MaxDetections
  BY LoopAssumption
<1> QED BY <1>1 DEF Statement, NotBusy

LEMMA DoneStep ==
  ASSUME LoopShape, NEW w \in LoopCallers, Done(w), report' = report
  PROVE  CallerShape'
<1>1. NotBusy \in Statement /\ NotBusy.at # "read" /\ (NotBusy.at = "insert" => NotBusy.name \in HandNames \cup AutoNames)
  BY IdleIsStatement
<1>2. doing' = [doing EXCEPT ![w] = NotBusy]
  BY DEF Done
<1> QED BY <1>1, <1>2, CallerStep

LEMMA BeginStep ==
  ASSUME LoopShape, NEW w \in LoopCallers, BeginReport(w)
  PROVE  CallerShape'
<1>1. << >> \in Seq(ReportValues) /\ Len(<< >>) = 0
  BY EmptySeq
<1>2. 0 \in 0 .. MaxDetections
  BY LoopAssumption
<1>3. /\ doing' = [doing EXCEPT ![w] = [at |-> "read", name |-> 0, source |-> 0]]
      /\ report' = [report EXCEPT ![w] = << >>]
  BY DEF BeginReport, Do
<1>4. [at |-> "read", name |-> 0, source |-> 0] \in Statement
  BY <1>2 DEF Statement
<1>5. doing \in [LoopCallers -> Statement] /\ report \in [LoopCallers -> Seq(ReportValues)]
  BY DEF LoopShape
<1>6. doing' \in [LoopCallers -> Statement] /\ report' \in [LoopCallers -> Seq(ReportValues)]
  BY <1>1, <1>3, <1>4, <1>5
<1>7. /\ doing'[w].at = "read" /\ report'[w] = << >>
      /\ \A v \in LoopCallers \ {w} : doing'[v] = doing[v] /\ report'[v] = report[v]
  BY <1>3, <1>5
<1>8. \A v \in LoopCallers : doing'[v].at \in {"idle", "insert", "mark", "read"} /\ doing'[v].source \in 0 .. MaxDetections
  BY <1>6 DEF Statement
<1>9. ASSUME NEW v \in LoopCallers
      PROVE  /\ doing'[v].at = "read" => Len(report'[v]) < Len(Reads)
             /\ doing'[v].at = "insert" => doing'[v].name \in HandNames \cup AutoNames
             /\ Len(report'[v]) <= Len(Reads)
  <2>1. CASE v = w
    BY <1>1, <1>7, <2>1, ReadsAre
  <2>2. CASE v # w
    BY <1>7, <2>2, ShapeOfCallers DEF CallerShape
  <2> QED BY <2>1, <2>2
<1> QED BY <1>6, <1>8, <1>9 DEF CallerShape

LEMMA CrashStep ==
  ASSUME LoopShape, NEW w \in LoopCallers, LoopCrash(w)
  PROVE  CallerShape'
<1>1. << >> \in Seq(ReportValues) /\ Len(<< >>) = 0
  BY EmptySeq
<1>3. doing' = [doing EXCEPT ![w] = NotBusy] /\ report' = [report EXCEPT ![w] = << >>]
  BY DEF LoopCrash, Done
<1>4. NotBusy \in Statement /\ NotBusy.at = "idle"
  BY IdleIsStatement
<1>5. doing \in [LoopCallers -> Statement] /\ report \in [LoopCallers -> Seq(ReportValues)]
  BY DEF LoopShape
<1>6. doing' \in [LoopCallers -> Statement] /\ report' \in [LoopCallers -> Seq(ReportValues)]
  BY <1>1, <1>3, <1>4, <1>5
<1>7. /\ doing'[w].at = "idle" /\ report'[w] = << >>
      /\ \A v \in LoopCallers \ {w} : doing'[v] = doing[v] /\ report'[v] = report[v]
  BY <1>3, <1>4, <1>5
<1>8. \A v \in LoopCallers : doing'[v].at \in {"idle", "insert", "mark", "read"} /\ doing'[v].source \in 0 .. MaxDetections
  BY <1>6 DEF Statement
<1>9. ASSUME NEW v \in LoopCallers
      PROVE  /\ doing'[v].at = "read" => Len(report'[v]) < Len(Reads)
             /\ doing'[v].at = "insert" => doing'[v].name \in HandNames \cup AutoNames
             /\ Len(report'[v]) <= Len(Reads)
  <2>1. CASE v = w
    BY <1>1, <1>7, <2>1, ReadsAre
  <2>2. CASE v # w
    BY <1>7, <2>2, ShapeOfCallers DEF CallerShape
  <2> QED BY <2>1, <2>2
<1> QED BY <1>6, <1>8, <1>9 DEF CallerShape

LEMMA ReaderStep ==
  ASSUME LoopShape, NEW w \in LoopCallers, ReadNext(w)
  PROVE  CallerShape'
<1>1. PICK n \in 1 .. 9 :
           /\ report' = [report EXCEPT ![w] = Append(report[w], Found(Reads[n]))]
           /\ report'[w] \in Seq(ReportValues) /\ Len(report'[w]) = n
           /\ IF n = 9 THEN Done(w) ELSE doing' = doing
  BY ReadStep
<1>3. NotBusy \in Statement /\ NotBusy.at = "idle"
  BY IdleIsStatement
<1>4. doing \in [LoopCallers -> Statement] /\ report \in [LoopCallers -> Seq(ReportValues)]
  BY DEF LoopShape
<1>5. \A v \in LoopCallers \ {w} : doing'[v] = doing[v] /\ report'[v] = report[v]
  BY <1>1, <1>4 DEF Done
<1>6. doing' \in [LoopCallers -> Statement] /\ report' \in [LoopCallers -> Seq(ReportValues)]
  BY <1>1, <1>3, <1>4 DEF Done
<1>7. IF n = 9 THEN doing'[w] = NotBusy ELSE doing'[w] = doing[w]
  BY <1>1, <1>4 DEF Done
<1>8. \A v \in LoopCallers : doing'[v].at \in {"idle", "insert", "mark", "read"} /\ doing'[v].source \in 0 .. MaxDetections
  BY <1>6 DEF Statement
<1>9. ASSUME NEW v \in LoopCallers
      PROVE  /\ doing'[v].at = "read" => Len(report'[v]) < Len(Reads)
             /\ doing'[v].at = "insert" => doing'[v].name \in HandNames \cup AutoNames
             /\ Len(report'[v]) <= Len(Reads)
  <2>1. CASE v = w
    BY <1>1, <1>3, <1>7, <2>1, ReadsAre, ShapeOfCallers DEF CallerShape
  <2>2. CASE v # w
    BY <1>5, <2>2, ShapeOfCallers DEF CallerShape
  <2> QED BY <2>1, <2>2
<1> QED BY <1>6, <1>8, <1>9 DEF CallerShape

LEMMA CallersNext == LoopShape /\ LoopNext => CallerShape'
<1> SUFFICES ASSUME LoopShape, LoopNext PROVE CallerShape'
  OBVIOUS
<1>0. \A n \in 0 .. MaxDetections : n \in Nat
  BY LoopAssumption
<1>s. doing \in [LoopCallers -> Statement]
  BY DEF LoopShape
<1>1. PICK w \in LoopCallers :
        \/ \E kind \in DetectionKinds, suggests \in BOOLEAN : RecordDetection(w, kind, suggests)
        \/ \E name \in HandNames \cup AutoNames, source \in 0 .. MaxDetections : RegisterRule(w, name, source)
        \/ InsertRule(w) \/ NameTaken(w) \/ MarkDetection(w)
        \/ \E name \in HandNames \cup AutoNames : DeleteRule(w, name)
        \/ \E score \in {1, 9} : RecordScore(w, score)
        \/ \E reasoning \in Reasoning : RecordPrompt(w, reasoning)
        \/ BeginReport(w) \/ ReadNext(w) \/ LoopCrash(w)
  BY DEF LoopNext
<1>2. ASSUME NEW kind \in DetectionKinds, NEW suggests \in BOOLEAN, RecordDetection(w, kind, suggests)
      PROVE  CallerShape'
  <2> DEFINE id == Len(detections) + 1
             row == [at |-> "insert", name |-> <<kind, id>>, source |-> id]
  <2>1. id \in 1 .. MaxDetections /\ id \in 0 .. MaxDetections
    BY <1>2, UnautomatedCount, LoopAssumption DEF RecordDetection
  <2>2. <<kind, id>> \in AutoNames
    BY <2>1 DEF AutoNames
  <2>3. row \in Statement /\ row.at # "read" /\ row.name \in HandNames \cup AutoNames
    BY <2>1, <2>2 DEF Statement
  <2>4. report' = report /\ (Done(w) \/ doing' = [doing EXCEPT ![w] = row])
    BY <1>2 DEF RecordDetection, Do
  <2> HIDE DEF row
  <2> QED BY <2>3, <2>4, CallerStep, DoneStep
<1>3. ASSUME NEW name \in HandNames \cup AutoNames, NEW source \in 0 .. MaxDetections,
             RegisterRule(w, name, source)
      PROVE  CallerShape'
  <2> DEFINE row == [at |-> "insert", name |-> name, source |-> source]
  <2>1. row \in Statement /\ row.at # "read" /\ row.name \in HandNames \cup AutoNames
    BY DEF Statement
  <2>2. report' = report /\ doing' = [doing EXCEPT ![w] = row]
    BY <1>3 DEF RegisterRule, Do
  <2> HIDE DEF row
  <2> QED BY <2>1, <2>2, CallerStep
<1>4. CASE InsertRule(w)
  <2> DEFINE row == [at |-> "mark", name |-> doing[w].name, source |-> doing[w].source]
  <2>1. row \in Statement /\ row.at = "mark"
    BY <1>s DEF Statement
  <2>2. report' = report /\ (Done(w) \/ doing' = [doing EXCEPT ![w] = row])
    BY <1>4 DEF InsertRule, Do
  <2> HIDE DEF row
  <2>3. row.at # "read" /\ (row.at = "insert" => row.name \in HandNames \cup AutoNames)
    BY <2>1
  <2> QED BY <2>1, <2>2, <2>3, CallerStep, DoneStep
<1>5. CASE NameTaken(w) \/ MarkDetection(w)
  BY <1>5, DoneStep DEF NameTaken, MarkDetection
<1>6. ASSUME UNCHANGED <<doing, report>> PROVE CallerShape'
  BY <1>6, ShapeOfCallers DEF CallerShape
<1>7. CASE \/ \E name \in HandNames \cup AutoNames : DeleteRule(w, name)
           \/ \E score \in {1, 9} : RecordScore(w, score)
           \/ \E reasoning \in Reasoning : RecordPrompt(w, reasoning)
  <2>1. UNCHANGED <<doing, report>>
    BY <1>7 DEF DeleteRule, RecordScore, RecordPrompt
  <2> QED BY <2>1, <1>6
<1>8. CASE BeginReport(w) \/ ReadNext(w) \/ LoopCrash(w)
  BY <1>8, BeginStep, ReaderStep, CrashStep
<1> QED BY <1>1, <1>2, <1>3, <1>4, <1>5, <1>7, <1>8

\* What a step may do to the detections and the rules inserted for them: rows are
\* added, and a row is marked that had its rule.
LEMMA DetectionsNext ==
  ASSUME LoopShape, MarkedHadRule, LoopNext
  PROVE  /\ detections' \in Seq(DetectionRow) /\ Len(detections) <= Len(detections')
         /\ Len(detections') <= MaxDetections
         /\ hadRule \subseteq hadRule' /\ hadRule' \subseteq 1 .. MaxDetections
         /\ \A i \in DOMAIN detections' : detections'[i].automated => i \in hadRule
<1>0. detections \in Seq(DetectionRow) /\ Len(detections) \in Nat /\ DOMAIN detections = 1 .. Len(detections)
  BY DEF LoopShape
<1>1. CASE UNCHANGED <<detections, hadRule>>
  BY <1>0, <1>1 DEF LoopShape, LoopTypeOK, MarkedHadRule
<1>2. ASSUME NEW w \in LoopCallers, NEW kind \in DetectionKinds, NEW suggests \in BOOLEAN,
             RecordDetection(w, kind, suggests)
      PROVE  /\ detections' \in Seq(DetectionRow) /\ Len(detections) <= Len(detections')
             /\ Len(detections') <= MaxDetections
             /\ hadRule \subseteq hadRule' /\ hadRule' \subseteq 1 .. MaxDetections
             /\ \A i \in DOMAIN detections' : detections'[i].automated => i \in hadRule
  <2> DEFINE row == [kind |-> kind, automated |-> FALSE]
  <2>1. row \in DetectionRow /\ row.automated = FALSE
    BY DEF DetectionRow
  <2>2. detections' = Append(detections, row) /\ hadRule' = hadRule /\ Len(detections) + 1 <= MaxDetections
    BY <1>2 DEF RecordDetection
  <2> HIDE DEF row
  <2>3. /\ Append(detections, row) \in Seq(DetectionRow) /\ Len(Append(detections, row)) = Len(detections) + 1
        /\ \A i \in 1 .. Len(detections) : Append(detections, row)[i] = detections[i]
        /\ Append(detections, row)[Len(detections) + 1] = row
    BY <1>0, <2>1, AppendProperties
  <2>4. DOMAIN detections' = 1 .. Len(detections) + 1
    BY <2>2, <2>3
  <2>5. ASSUME NEW i \in DOMAIN detections', detections'[i].automated PROVE i \in hadRule
    <3>1. i # Len(detections) + 1
      BY <2>1, <2>2, <2>3, <2>5
    <3>2. i \in DOMAIN detections /\ detections'[i] = detections[i]
      BY <1>0, <2>2, <2>3, <2>4, <3>1
    <3> QED BY <2>5, <3>2 DEF MarkedHadRule
  <2> QED BY <1>0, <2>2, <2>3, <2>5 DEF LoopShape, LoopTypeOK
<1>3. ASSUME NEW w \in LoopCallers, MarkDetection(w)
      PROVE  /\ detections' \in Seq(DetectionRow) /\ Len(detections) <= Len(detections')
             /\ Len(detections') <= MaxDetections
             /\ hadRule \subseteq hadRule' /\ hadRule' \subseteq 1 .. MaxDetections
             /\ \A i \in DOMAIN detections' : detections'[i].automated => i \in hadRule
  <2>1. /\ doing[w].at = "mark" /\ hadRule' = hadRule
        /\ detections' = [i \in DOMAIN detections |->
             IF i = doing[w].source THEN [detections[i] EXCEPT !.automated = TRUE] ELSE detections[i]]
    BY <1>3 DEF MarkDetection
  <2>2. \A i \in DOMAIN detections : detections[i] \in DetectionRow
    BY <1>0
  <2>3. \A i \in DOMAIN detections : detections'[i] \in DetectionRow
    BY <2>1, <2>2 DEF DetectionRow
  <2>4. detections' \in [1 .. Len(detections) -> DetectionRow]
    BY <1>0, <2>1, <2>3
  <2>5. detections' \in Seq(DetectionRow)
    BY <1>0, <2>4, SeqDef
  <2>6. DOMAIN detections' = 1 .. Len(detections) /\ Len(detections') = Len(detections)
    BY <1>0, <2>4, <2>5
  <2>7. ASSUME NEW i \in DOMAIN detections', detections'[i].automated PROVE i \in hadRule
    BY <1>0, <2>1, <2>6, <2>7 DEF MarkedHadRule
  <2> QED BY <2>1, <2>5, <2>6, <2>7 DEF LoopShape, LoopTypeOK
<1>4. ASSUME NEW w \in LoopCallers, InsertRule(w)
      PROVE  /\ detections' \in Seq(DetectionRow) /\ Len(detections) <= Len(detections')
             /\ Len(detections') <= MaxDetections
             /\ hadRule \subseteq hadRule' /\ hadRule' \subseteq 1 .. MaxDetections
             /\ \A i \in DOMAIN detections' : detections'[i].automated => i \in hadRule
  <2>1. detections' = detections /\ hadRule' = hadRule \cup ({doing[w].source} \ {0})
    BY <1>4 DEF InsertRule
  <2>2. doing[w].source \in 0 .. MaxDetections
    BY DEF LoopShape, LoopTypeOK
  <2>3. \A n \in 0 .. MaxDetections : n # 0 => n \in 1 .. MaxDetections
    BY LoopAssumption
  <2>4. hadRule \subseteq 1 .. MaxDetections
    BY DEF LoopShape, LoopTypeOK
  <2>5. hadRule' \subseteq 1 .. MaxDetections
    BY <2>1, <2>2, <2>3, <2>4
  <2> QED BY <1>0, <2>1, <2>5 DEF LoopShape, LoopTypeOK, MarkedHadRule
<1>5. \/ UNCHANGED <<detections, hadRule>>
      \/ \E w \in LoopCallers :
           \/ \E kind \in DetectionKinds, suggests \in BOOLEAN : RecordDetection(w, kind, suggests)
           \/ MarkDetection(w) \/ InsertRule(w)
  BY DEF LoopNext, RegisterRule, NameTaken, DeleteRule, RecordScore, RecordPrompt, BeginReport, ReadNext, LoopCrash
<1> QED BY <1>1, <1>2, <1>3, <1>4, <1>5

\* Prompts and scores are added only, and names of rules are names.
LEMMA RowsNext ==
  ASSUME LoopShape, LoopNext
  PROVE  /\ scores' \in Seq(Nat) /\ prompts' \in Seq(Reasoning)
         /\ Range(prompts) \subseteq Range(prompts')
         /\ ruleNames' \subseteq HandNames \cup AutoNames
         /\ disturbed' \subseteq LoopCallers
         /\ loopCalls' \in 0 .. MaxLoopCalls
<1>0. scores \in Seq(Nat) /\ prompts \in Seq(Reasoning) /\ ruleNames \subseteq HandNames \cup AutoNames
      /\ disturbed \subseteq LoopCallers /\ loopCalls \in 0 .. MaxLoopCalls
  BY DEF LoopShape, LoopTypeOK
<1>1. \/ loopCalls' = loopCalls
      \/ loopCalls < MaxLoopCalls /\ loopCalls' = loopCalls + 1
  BY DEF LoopNext, LoopCall, RecordDetection, RegisterRule, InsertRule, NameTaken, MarkDetection, DeleteRule,
         RecordScore, RecordPrompt, BeginReport, ReadNext, LoopCrash
<1>2. loopCalls' \in 0 .. MaxLoopCalls
  BY <1>0, <1>1, LoopAssumption
<1>3. scores' = scores \/ \E score \in {1, 9} : scores' = Append(scores, score)
  BY DEF LoopNext, RecordDetection, RegisterRule, InsertRule, NameTaken, MarkDetection, DeleteRule,
         RecordScore, RecordPrompt, BeginReport, ReadNext, LoopCrash
<1>4. scores' \in Seq(Nat)
  <2>1. \A score \in Nat : Append(scores, score) \in Seq(Nat)
    BY <1>0, AppendProperties
  <2> QED BY <1>0, <1>3, <2>1
<1>5. prompts' = prompts \/ \E reasoning \in Reasoning : prompts' = Append(prompts, reasoning)
  BY DEF LoopNext, RecordDetection, RegisterRule, InsertRule, NameTaken, MarkDetection, DeleteRule,
         RecordScore, RecordPrompt, BeginReport, ReadNext, LoopCrash
<1>6. prompts' \in Seq(Reasoning) /\ Range(prompts) \subseteq Range(prompts')
  <2>1. ASSUME NEW reasoning \in Reasoning, prompts' = Append(prompts, reasoning)
        PROVE  prompts' \in Seq(Reasoning) /\ Range(prompts) \subseteq Range(prompts')
    <3>1. /\ Append(prompts, reasoning) \in Seq(Reasoning)
          /\ Len(Append(prompts, reasoning)) = Len(prompts) + 1
          /\ \A i \in 1 .. Len(prompts) : Append(prompts, reasoning)[i] = prompts[i]
      BY <1>0, AppendProperties
    <3>2. \A i \in DOMAIN prompts : i \in DOMAIN prompts' /\ prompts'[i] = prompts[i]
      BY <1>0, <2>1, <3>1
    <3> QED BY <2>1, <3>1, <3>2 DEF Range
  <2> QED BY <1>0, <1>5, <2>1
<1>7. ruleNames' \subseteq HandNames \cup AutoNames
  <2>1. \/ ruleNames' \subseteq ruleNames
        \/ \E w \in LoopCallers : doing[w].at = "insert" /\ ruleNames' = ruleNames \cup {doing[w].name}
    BY DEF LoopNext, RecordDetection, RegisterRule, InsertRule, NameTaken, MarkDetection, DeleteRule,
         RecordScore, RecordPrompt, BeginReport, ReadNext, LoopCrash
  <2>2. \A w \in LoopCallers : doing[w].at = "insert" => doing[w].name \in HandNames \cup AutoNames
    BY DEF LoopShape
  <2> QED BY <1>0, <2>1, <2>2
<1>8. disturbed' \subseteq LoopCallers
  BY <1>0 DEF LoopNext, Disturb, RecordDetection, RegisterRule, InsertRule, NameTaken, MarkDetection, DeleteRule,
         RecordScore, RecordPrompt, BeginReport, ReadNext, LoopCrash
<1> QED BY <1>2, <1>4, <1>6, <1>7, <1>8

LEMMA LoopShapeNext ==
  ASSUME LoopShape, MarkedHadRule, LoopNext
  PROVE  LoopShape'
<1>1. detections' \in Seq(DetectionRow)
  BY DetectionsNext
<1>2. \A i \in DOMAIN detections' : detections'[i].kind \in DetectionKinds /\ detections'[i].automated \in BOOLEAN
  <2>1. \A i \in DOMAIN detections' : detections'[i] \in DetectionRow
    BY <1>1
  <2>2. \A d \in DetectionRow : d.kind \in DetectionKinds /\ d.automated \in BOOLEAN
    BY DEF DetectionRow
  <2> QED BY <2>1, <2>2
<1>0. Len(detections') <= MaxDetections /\ hadRule' \subseteq 1 .. MaxDetections
  BY DetectionsNext
<1>3. /\ scores' \in Seq(Nat) /\ prompts' \in Seq(Reasoning)
      /\ ruleNames' \subseteq HandNames \cup AutoNames /\ disturbed' \subseteq LoopCallers
      /\ loopCalls' \in 0 .. MaxLoopCalls
  BY RowsNext
<1>4. CallerShape'
  BY CallersNext
<1>5. LoopTypeOK'
  BY <1>0, <1>2, <1>3, <1>4 DEF CallerShape, LoopTypeOK
<1> QED BY <1>1, <1>4, <1>5 DEF CallerShape, LoopShape

LEMMA MarkedNext ==
  ASSUME LoopShape, MarkedHadRule, LoopNext
  PROVE  MarkedHadRule'
<1>1. ASSUME NEW v \in LoopCallers, doing'[v].at = "mark" PROVE doing'[v].source \in hadRule'
  <2>0. doing \in [LoopCallers -> Statement]
    BY DEF LoopShape
  <2>1. \/ doing'[v] = doing[v]
        \/ InsertRule(v)
    <3>1. PICK w \in LoopCallers :
            \/ doing' = doing \/ Done(w) \/ InsertRule(w)
            \/ \E at \in {"insert", "read"} : \E name, source : Do(w, at, name, source)
      BY DEF LoopNext, RecordDetection, RegisterRule, NameTaken, MarkDetection, DeleteRule,
             RecordScore, RecordPrompt, BeginReport, ReadNext, LoopCrash
    <3>2. CASE v = w
      BY <1>1, <2>0, <3>1, <3>2 DEF Do, Done, NotBusy
    <3>3. CASE v # w
      BY <2>0, <3>1, <3>3 DEF Do, Done, InsertRule
    <3> QED BY <3>2, <3>3
  <2>2. CASE doing'[v] = doing[v]
    BY <1>1, <2>2, DetectionsNext DEF MarkedHadRule
  <2>3. CASE InsertRule(v)
    <3>1. CASE doing[v].source = 0
      BY <1>1, <2>0, <2>3, <3>1 DEF InsertRule, Done, NotBusy
    <3>2. CASE doing[v].source # 0
      <4>1. doing'[v].source = doing[v].source
        BY <2>0, <2>3, <3>2 DEF InsertRule, Do
      <4> QED BY <2>3, <3>2, <4>1 DEF InsertRule
    <3> QED BY <3>1, <3>2
  <2> QED BY <2>1, <2>2, <2>3
<1> QED BY <1>1, DetectionsNext DEF MarkedHadRule

-----------------------------------------------------------------------------
(* What reports hold.                                                      *)

\* Between two states a report is the same, is empty, or has one more finding.
LEMMA ReportMoves ==
  ASSUME LoopShape, LoopNext, NEW v \in LoopCallers
  PROVE  \/ report'[v] = report[v]
         \/ Len(report'[v]) = 0
         \/ ReadNext(v)
<1>0. report \in [LoopCallers -> Seq(ReportValues)]
  BY DEF LoopShape
<1>1. PICK w \in LoopCallers : report' = report \/ report' = [report EXCEPT ![w] = << >>] \/ ReadNext(w)
  BY DEF LoopNext, RecordDetection, RegisterRule, InsertRule, NameTaken, MarkDetection, DeleteRule,
         RecordScore, RecordPrompt, BeginReport, LoopCrash
<1>2. Len(<< >>) = 0
  OBVIOUS
<1>3. CASE v = w
  BY <1>0, <1>1, <1>2, <1>3
<1>4. CASE v # w
  BY <1>0, <1>1, <1>4 DEF ReadNext
<1> QED BY <1>3, <1>4

LEMMA CountedNext ==
  ASSUME LoopShape, MarkedHadRule, CountedHadRule, LoopNext
  PROVE  CountedHadRule'
<1> SUFFICES ASSUME NEW v \in LoopCallers
             PROVE  /\ Len(report'[v]) >= 1 => report'[v][1] \in 0 .. Len(detections')
                    /\ Len(report'[v]) >= 7 /\ report'[v][7] = 0 => 1 .. report'[v][1] \subseteq hadRule'
  BY DEF CountedHadRule
<1>0. report[v] \in Seq(ReportValues) /\ Len(detections) \in Nat /\ detections' \in Seq(DetectionRow)
  BY DetectionsNext DEF LoopShape
<1>1. Len(detections) <= Len(detections') /\ hadRule \subseteq hadRule' /\ Len(detections') \in Nat
  BY <1>0, DetectionsNext
<1>2. CASE report'[v] = report[v]
  <2>1. Len(report[v]) >= 1 => report[v][1] \in 0 .. Len(detections')
    BY <1>0, <1>1 DEF CountedHadRule
  <2> QED BY <1>1, <1>2, <2>1 DEF CountedHadRule
<1>3. CASE Len(report'[v]) = 0
  BY <1>3
<1>4. CASE ReadNext(v)
  <2>1. PICK n \in 1 .. 9 :
           /\ Len(report[v]) = n - 1 /\ Len(report'[v]) = n /\ report'[v][n] = Found(Reads[n])
           /\ \A i \in 1 .. n - 1 : report'[v][i] = report[v][i]
    BY <1>4, ReadStep
  <2>2. detections' = detections /\ hadRule' = hadRule
    BY <1>4 DEF ReadNext
  <2>3. CASE n = 1
    <3>1. report'[v][1] = Len(detections)
      BY <2>1, <2>3, ReadsAre DEF Found
    <3> QED BY <1>0, <2>1, <2>2, <2>3, <3>1
  <2>4. CASE n # 1 /\ n # 7
    <3>1. report'[v][1] = report[v][1] /\ Len(report[v]) >= 1
      BY <2>1, <2>4
    <3>2. Len(report'[v]) >= 7 => Len(report[v]) >= 7 /\ report'[v][7] = report[v][7]
      BY <2>1, <2>4
    <3> QED BY <2>2, <3>1, <3>2 DEF CountedHadRule
  <2>5. CASE n = 7
    <3>1. report'[v][1] = report[v][1] /\ Len(report[v]) >= 1
      BY <2>1, <2>5
    <3>2. report'[v][7] = Unautomated
      BY <2>1, <2>5, ReadsAre DEF Found
    <3>3. report[v][1] \in 0 .. Len(detections)
      BY <3>1 DEF CountedHadRule
    <3>4. ASSUME report'[v][7] = 0 PROVE 1 .. report[v][1] \subseteq hadRule
      <4>1. \A i \in DOMAIN detections : detections[i].automated
        BY <3>2, <3>4, NonePending
      <4>2. \A i \in DOMAIN detections : i \in hadRule
        BY <4>1 DEF MarkedHadRule
      <4>3. DOMAIN detections = 1 .. Len(detections)
        BY DEF LoopShape
      <4> QED BY <1>0, <3>3, <4>2, <4>3
    <3> QED BY <2>2, <3>1, <3>3, <3>4
  <2> QED BY <2>3, <2>4, <2>5
<1> QED BY <1>2, <1>3, <1>4, ReportMoves

\* Nothing comes between the reads of a report that stays undisturbed.
LEMMA CalmReader ==
  ASSUME LoopShape, LoopNext, NEW v \in LoopCallers \ disturbed', doing'[v].at = "read"
  PROVE  \/ Len(report'[v]) = 0
         \/ /\ v \notin disturbed /\ doing[v].at = "read" /\ UNCHANGED <<detections, scores, prompts>>
            /\ report'[v] = report[v] \/ ReadNext(v)
<1>0. doing \in [LoopCallers -> Statement] /\ report \in [LoopCallers -> Seq(ReportValues)]
  BY DEF LoopShape
<1>1. Len(<< >>) = 0
  OBVIOUS
<1>2. PICK w \in LoopCallers :
        \/ Disturb /\ \/ doing' = doing \/ Done(w)
                      \/ \E at \in {"insert", "mark"} : \E name, source : Do(w, at, name, source)
        \/ \E name, source : RegisterRule(w, name, source)
        \/ BeginReport(w) \/ ReadNext(w) \/ LoopCrash(w)
  BY DEF LoopNext, RecordDetection, InsertRule, NameTaken, MarkDetection, DeleteRule, RecordScore, RecordPrompt
<1>3. CASE Disturb /\ \/ doing' = doing \/ Done(w)
                      \/ \E at \in {"insert", "mark"} : \E name, source : Do(w, at, name, source)
  <2>1. doing[v].at = "read"
    BY <1>0, <1>3 DEF Done, Do, NotBusy
  <2> QED BY <1>3, <2>1 DEF Disturb
<1>4. CASE \E name, source : RegisterRule(w, name, source)
  BY <1>0, <1>4 DEF RegisterRule, Do
<1>5. CASE BeginReport(w)
  <2>1. /\ report' = [report EXCEPT ![w] = << >>] /\ disturbed' = disturbed \ {w}
        /\ UNCHANGED <<detections, scores, prompts>>
        /\ v # w => doing'[v] = doing[v]
    BY <1>0, <1>5 DEF BeginReport, Do
  <2> QED BY <1>0, <1>1, <2>1
<1>6. CASE ReadNext(w)
  <2>1. UNCHANGED <<detections, scores, prompts, disturbed>>
    BY <1>6 DEF ReadNext
  <2>2. CASE v = w
    BY <1>6, <2>1, <2>2 DEF ReadNext
  <2>3. CASE v # w
    BY <1>0, <1>6, <2>1, <2>3 DEF ReadNext, Done
  <2> QED BY <2>2, <2>3
<1>7. CASE LoopCrash(w)
  <2>1. UNCHANGED <<detections, scores, prompts, disturbed>>
    BY <1>7 DEF LoopCrash
  <2>2. v # w
    BY <1>0, <1>7 DEF LoopCrash, Done, NotBusy
  <2> QED BY <1>0, <1>7, <2>1, <2>2 DEF LoopCrash, Done
<1> QED BY <1>2, <1>3, <1>4, <1>5, <1>6, <1>7

\* What is found depends on the rows alone.
LEMMA FoundStays ==
  ASSUME UNCHANGED <<detections, scores, prompts>>, NEW n \in 1 .. 9
  PROVE  Found(Reads[n])' = Found(Reads[n])
  BY DEF Found, Reads, Unautomated, Recurring, Trend, PromptGoals, Critical

LEMMA FreshNext ==
  ASSUME LoopShape, UndisturbedIsFresh, LoopNext
  PROVE  UndisturbedIsFresh'
<1> SUFFICES ASSUME NEW v \in LoopCallers \ disturbed', doing'[v].at = "read", NEW n \in 1 .. Len(report'[v])
             PROVE  report'[v][n] = Found(Reads[n])'
  BY DEF UndisturbedIsFresh
<1>0. report[v] \in Seq(ReportValues) /\ Len(report[v]) <= 9
  BY ReadsAre DEF LoopShape, LoopTypeOK
<1>1. Len(report'[v]) # 0
  OBVIOUS
<1>2. /\ v \notin disturbed /\ doing[v].at = "read" /\ UNCHANGED <<detections, scores, prompts>>
      /\ report'[v] = report[v] \/ ReadNext(v)
  BY <1>1, CalmReader
<1>3. \A i \in 1 .. Len(report[v]) : report[v][i] = Found(Reads[i])
  BY <1>2 DEF UndisturbedIsFresh
<1>4. n \in 1 .. 9 => Found(Reads[n])' = Found(Reads[n])
  BY <1>2, FoundStays
<1>5. CASE report'[v] = report[v]
  BY <1>0, <1>3, <1>4, <1>5
<1>6. CASE ReadNext(v)
  <2>1. PICK k \in 1 .. 9 :
           /\ Len(report[v]) = k - 1 /\ Len(report'[v]) = k /\ report'[v][k] = Found(Reads[k])
           /\ \A i \in 1 .. k - 1 : report'[v][i] = report[v][i]
    BY <1>6, ReadStep
  <2>2. n \in 1 .. 9 /\ (n = k \/ n \in 1 .. k - 1)
    BY <2>1
  <2> QED BY <1>3, <1>4, <2>1, <2>2
<1> QED BY <1>2, <1>5, <1>6

\* The last read completes a report that agrees with itself if it was undisturbed.
LEMMA AgreesNext ==
  ASSUME LoopShape, UndisturbedIsFresh, UndisturbedAgrees, LoopNext
  PROVE  UndisturbedAgrees'
<1> SUFFICES ASSUME NEW v \in LoopCallers \ disturbed', Len(report'[v]) = 9
             PROVE  /\ report'[v][1] - report'[v][2] = report'[v][7]
                    /\ report'[v][9] /\ report'[v][6] = {} => Wasted \subseteq Range(prompts')
  BY ReadsAre DEF UndisturbedAgrees
<1>0. report[v] \in Seq(ReportValues) /\ Range(prompts) \subseteq Range(prompts')
  BY RowsNext DEF LoopShape
<1>1. CASE ReadNext(v)
  <2>1. PICK k \in 1 .. 9 :
           /\ Len(report[v]) = k - 1 /\ Len(report'[v]) = k /\ report'[v][k] = Found(Reads[k])
           /\ \A i \in 1 .. k - 1 : report'[v][i] = report[v][i]
    BY <1>1, ReadStep
  <2>2. k = 9 /\ Len(report[v]) = 8 /\ v \notin disturbed /\ doing[v].at = "read"
    BY <1>1, <2>1 DEF ReadNext
  <2>3. \A i \in 1 .. 9 : report'[v][i] = Found(Reads[i])
    <3>1. \A i \in 1 .. 8 : report[v][i] = Found(Reads[i])
      BY <2>2 DEF UndisturbedIsFresh
    <3>2. \A i \in 1 .. 8 : report'[v][i] = report[v][i]
      BY <2>1, <2>2
    <3>3. \A i \in 1 .. 9 : i \in 1 .. 8 \/ i = 9
      OBVIOUS
    <3> QED BY <2>1, <2>2, <3>1, <3>2, <3>3
  <2>4. /\ report'[v][1] = Len(detections) /\ report'[v][2] = Len(detections) - Unautomated
        /\ report'[v][7] = Unautomated
    BY <2>3, ReadsAre DEF Found
  <2>5. report'[v][1] - report'[v][2] = report'[v][7]
    BY <2>4, UnautomatedCount
  <2>6. report'[v][6] = PromptGoals(prompts) /\ report'[v][9] = Critical(prompts)
    BY <2>3, ReadsAre DEF Found
  <2>7. prompts \in Seq(Reasoning) /\ PromptWindow \in Nat
    BY LoopAssumption DEF LoopShape, LoopTypeOK
  <2>8. Critical(prompts) /\ PromptGoals(prompts) = {} => Wasted \subseteq Range(prompts)
    BY <2>7, CriticalIsSpread
  <2> QED BY <1>0, <2>5, <2>6, <2>8
<1>2. CASE report'[v] = report[v] /\ ~ReadNext(v)
  <2>1. v \notin disturbed
    <3>1. \/ disturbed \subseteq disturbed'
          \/ \E w \in LoopCallers : BeginReport(w) /\ disturbed' = disturbed \ {w}
      BY DEF LoopNext, Disturb, RecordDetection, RegisterRule, InsertRule, NameTaken, MarkDetection, DeleteRule,
         RecordScore, RecordPrompt, BeginReport, ReadNext, LoopCrash
    <3>2. ~BeginReport(v)
      <4>1. Len(<< >>) = 0
        OBVIOUS
      <4>2. report \in [LoopCallers -> Seq(ReportValues)]
        BY DEF LoopShape
      <4>3. ASSUME BeginReport(v) PROVE Len(report'[v]) = 0
        <5>1. report'[v] = << >>
          BY <4>2, <4>3 DEF BeginReport
        <5> QED BY <4>1, <5>1
      <4>4. 9 # 0
        OBVIOUS
      <4> QED BY <4>3, <4>4
    <3> QED BY <3>1, <3>2
  <2> QED BY <1>0, <1>2, <2>1, ReadsAre DEF UndisturbedAgrees
<1> QED BY <1>1, <1>2, ReportMoves

LEMMA ReportInvNext == ReportInv /\ [LoopNext]_loopVars => ReportInv'
<1> SUFFICES ASSUME ReportInv, [LoopNext]_loopVars PROVE ReportInv'
  OBVIOUS
<1>1. CASE LoopNext
  BY <1>1, LoopShapeNext, MarkedNext, CountedNext, FreshNext, AgreesNext DEF ReportInv
<1>2. CASE UNCHANGED loopVars
  <2>1. LoopShape'
    BY <1>2 DEF loopVars, ReportInv, LoopShape, LoopTypeOK
  <2>2. MarkedHadRule' /\ CountedHadRule' /\ UndisturbedAgrees'
    BY <1>2 DEF loopVars, ReportInv, MarkedHadRule, CountedHadRule, UndisturbedAgrees
  <2>3. UndisturbedIsFresh'
    <3> SUFFICES ASSUME NEW v \in LoopCallers \ disturbed, doing[v].at = "read", NEW n \in 1 .. Len(report[v])
                 PROVE  report[v][n] = Found(Reads[n])'
      BY <1>2 DEF loopVars, UndisturbedIsFresh
    <3>1. n \in 1 .. 9
      BY ReadsAre DEF ReportInv, LoopShape
    <3>2. Found(Reads[n])' = Found(Reads[n])
      BY <1>2, <3>1, FoundStays DEF loopVars
    <3> QED BY <3>2 DEF ReportInv, UndisturbedIsFresh
  <2> QED BY <2>1, <2>2, <2>3 DEF ReportInv
<1> QED BY <1>1, <1>2

\* The variables of LearningLoop keep their types, for any number of callers,
\* detections and rules.
THEOREM LoopTypeCorrect == LoopSpec => []LoopTypeOK
<1>1. ReportInv => LoopTypeOK
  BY DEF ReportInv, LoopShape
<1> QED BY <1>1, ReportInit, ReportInvNext, PTL DEF LoopSpec

\* A finished status report that finds no detection pending counted detections
\* that all had their rule, and one that nothing came between agrees with itself,
\* however many callers write and report at once (get_autonomous_status).
THEOREM ReportsAreTrue == LoopSpec => []ReportsHold
<1>1. ASSUME ReportInv PROVE ReportsHold
  <2> SUFFICES ASSUME NEW w \in LoopCallers, Reported(w)
               PROVE  /\ Item(w, "gapPending") = 0 => 1 .. Item(w, "total") \subseteq hadRule
                      /\ w \notin disturbed =>
                           /\ Item(w, "total") - Item(w, "automated") = Item(w, "gapPending")
                           /\ (Item(w, "gapPrompts") /\ Item(w, "goalPrompts") = {}) => Wasted \subseteq Range(prompts)
    BY DEF ReportsHold
  <2>1. Len(report[w]) = 9
    BY ReadsAre DEF Reported
  <2>2. report[w][7] = 0 => 1 .. report[w][1] \subseteq hadRule
    BY <1>1, <2>1 DEF ReportInv, CountedHadRule
  <2>3. w \notin disturbed =>
          /\ report[w][1] - report[w][2] = report[w][7]
          /\ report[w][9] /\ report[w][6] = {} => Wasted \subseteq Range(prompts)
    BY <1>1, <2>1, ReadsAre DEF ReportInv, UndisturbedAgrees
  <2> QED BY <2>2, <2>3, ItemPlace
<1> QED BY <1>1, ReportInit, ReportInvNext, PTL DEF LoopSpec
=============================================================================
