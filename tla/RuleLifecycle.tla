----------------------------- MODULE RuleLifecycle -----------------------------
(***************************************************************************)
(* Prevention rules: registered from missed detections and at every start  *)
(* of a server, cached and evaluated by the event bus of each process,     *)
(* judged by users, moved between lifecycle states by RuleLifecycle.tick   *)
(* and by hand.                                                            *)
(*                                                                         *)
(* last_triggered_at is NULL in every row: the column is added to the      *)
(* table and nothing writes it, so the branches of _next_state on its age  *)
(* are never taken.                                                        *)
(*                                                                         *)
(* A tool call is two steps of its process: `before`, then the tool, which *)
(* is awaited, then `after`, which works with the rules cached by then.    *)
(* Several calls are under way at once; a call whose tool fails has no     *)
(* `after`.                                                                *)
(***************************************************************************)
EXTENDS Integers, FiniteSets

CONSTANTS
  RuleServers,     \* server processes
  RuleIds,         \* rules
  CallSlots,       \* tool calls that one process has under way at once
  PromoteEvals,    \* PROBATION_MIN_EVALS, 50
  PromotePercent,  \* PROBATION_PROMOTION_FIRE_RATE, 5
  RetireEvals,     \* RETIREMENT_EVALS, 1000
  DemotePercent,   \* FP_RATE_FOR_DEMOTION, 70
  TrustEvals,      \* TRUSTED_MIN_EVALS, 200
  TrustPercent,    \* TRUSTED_MAX_FP_RATE, 10
  DistrustFires,   \* total_fires > 10
  DistrustPercent, \* TRUSTED_DEMOTION_FP_RATE, 20
  ReloadInterval,  \* calls between reloads of the bus, 50
  MaxRuleCalls,    \* bound: tool calls
  MaxJudgements    \* bound: verdicts, ticks and changes by hand

ASSUME RuleAssumption ==
  /\ {PromoteEvals, PromotePercent, RetireEvals, DemotePercent, TrustEvals, TrustPercent,
      DistrustFires, DistrustPercent, ReloadInterval, MaxRuleCalls, MaxJudgements} \subseteq Nat
  /\ ReloadInterval > 0

\* What makes a rule dormant before it can be trusted.
ASSUME TrustIsLater == PromoteEvals < TrustEvals

VARIABLES
  rules,      \* the table: rule |-> row
  bus,        \* the EventBus of each process
  inCall,     \* the tool calls under way in each process
  ticking,    \* the RuleLifecycle.tick each process is in
  ruleCalls, judgements,
  late,       \* history: calls since the last reload that began after a rule was off and used it
  byHand      \* history: rules somebody moved by hand

ruleHistory == <<late, byHand>>
ruleVars == <<rules, bus, inCall, ticking, ruleCalls, judgements, ruleHistory>>

LifecycleStates == {"probation", "active", "trusted", "dormant", "retired"}
\* The hook whose events a rule is triggered by: its trigger_event is never updated.
Triggers == {"before", "after"}
RuleRow == [trigger : Triggers, state : LifecycleStates, enabled : BOOLEAN,
            evals : Nat, fires : Nat, useful : Nat, noisy : Nat]
NewRule(hook) == [trigger |-> hook, state |-> "probation", enabled |-> TRUE,
                  evals |-> 0, fires |-> 0, useful |-> 0, noisy |-> 0]

Enabled(table) == {r \in DOMAIN table : table[r].enabled}
NotRetired(table) == {r \in DOMAIN table : table[r].state # "retired"}

-----------------------------------------------------------------------------
(* RuleLifecycle._next_state: a function of the row                        *)

NoisyOver(row, percent) == row.noisy * 100 > percent * (row.useful + row.noisy)
NoisyUnder(row, percent) == row.noisy * 100 < percent * (row.useful + row.noisy)

FromProbation(row) ==
  IF row.evals < PromoteEvals THEN "probation"
  ELSE IF row.fires * 100 >= PromotePercent * (IF row.evals = 0 THEN 1 ELSE row.evals) THEN "active"
  ELSE IF row.evals >= RetireEvals THEN "retired"
  ELSE "probation"

FromActive(row) ==
  IF row.evals > PromoteEvals THEN "dormant"
  ELSE IF NoisyOver(row, DemotePercent) THEN "probation"
  ELSE IF row.evals >= TrustEvals /\ NoisyUnder(row, TrustPercent) THEN "trusted"
  ELSE "active"

FromTrusted(row) ==
  IF row.useful + row.noisy > DistrustFires /\ NoisyOver(row, DistrustPercent)
    THEN "active" ELSE "trusted"

\* dormant: both ways out ask for last_triggered_at.
NextState(row) ==
  CASE row.state = "probation" -> FromProbation(row)
    [] row.state = "active" -> FromActive(row)
    [] row.state = "trusted" -> FromTrusted(row)
    [] OTHER -> row.state

\* Slip, for mutation: the switch follows the state.
InStateAndSwitched(row, state) == [row EXCEPT !.state = state, !.enabled = state # "retired"]

\* _transition: retirement switches the rule off, nothing switches it on.
InState(row, state) == [row EXCEPT !.state = state, !.enabled = @ /\ state # "retired"]

-----------------------------------------------------------------------------
NoTick == [todo |-> {}, loaded |-> <<>>]
NoBus == [cached |-> {}, count |-> 0]
\* at: the count of the bus when the call began; off: the rules that were off by then.
NoToolCall == [on |-> FALSE, at |-> 0, off |-> {}]

RuleInit ==
  /\ rules = <<>>
  /\ bus = [p \in RuleServers |-> NoBus]
  /\ inCall = [p \in RuleServers |-> [c \in CallSlots |-> NoToolCall]]
  /\ ticking = [p \in RuleServers |-> NoTick]
  /\ ruleCalls = 0 /\ judgements = 0
  /\ late = [p \in RuleServers |-> [r \in RuleIds |-> {}]] /\ byHand = {}

Put(r, row) == [s \in DOMAIN rules \cup {r} |-> IF s = r THEN row ELSE rules[s]]

\* register_prevention_rule: a rule of that name keeps its counters and state.
Register(r, hook) ==
  /\ r \notin DOMAIN rules
  /\ rules' = Put(r, NewRule(hook))
  /\ UNCHANGED <<bus, inCall, ticking, ruleCalls, judgements, ruleHistory>>

\* EventBus.__init__, when a server starts; the calls of its predecessor are gone.
StartBus(p) ==
  /\ ruleCalls < MaxRuleCalls /\ ruleCalls' = ruleCalls + 1
  /\ bus' = [bus EXCEPT ![p] = [cached |-> Enabled(rules), count |-> 0]]
  /\ inCall' = [inCall EXCEPT ![p] = [c \in CallSlots |-> NoToolCall]]
  /\ ticking' = [ticking EXCEPT ![p] = NoTick]
  /\ late' = [late EXCEPT ![p] = [r \in RuleIds |-> {}]]
  /\ UNCHANGED <<rules, judgements, byHand>>

\* The bus counts every call and reloads when the count is a multiple of the
\* interval; count is that count modulo the interval.
NextCount(p) == IF bus[p].count + 1 = ReloadInterval THEN 0 ELSE bus[p].count + 1

\* EventBus.emit: those of the cached rules that match an event of the hook are
\* evaluated, some fire; each count is one UPDATE, which may be refused and is
\* then given up.
Emit(p, cached, hook, call) ==
  \E fired, counted \in SUBSET {r \in cached : rules[r].trigger = hook} :
    /\ rules' = [r \in DOMAIN rules |->
         [rules[r] EXCEPT !.fires = IF r \in fired THEN @ + 1 ELSE @,
                          !.evals = IF r \in counted THEN @ + 1 ELSE @]]
    /\ late' = [late EXCEPT ![p] = [r \in RuleIds |->
         IF r \notin cached THEN {}
         ELSE IF r \in (fired \cup counted) \cap call.off THEN @[r] \cup {call.at}
         ELSE @[r]]]

\* A call begins with the rules given in the bus.
BeforeWith(p, c, cached) ==
  LET call == [on |-> TRUE, at |-> NextCount(p), off |-> DOMAIN rules \ Enabled(rules)]
  IN /\ ruleCalls < MaxRuleCalls /\ ruleCalls' = ruleCalls + 1
     /\ ~inCall[p][c].on
     /\ inCall' = [inCall EXCEPT ![p][c] = call]
     /\ bus' = [bus EXCEPT ![p] = [cached |-> cached, count |-> NextCount(p)]]
     /\ Emit(p, cached, "before", call)
     /\ UNCHANGED <<ticking, judgements, byHand>>

\* Slip, for mutation: a reload that fails leaves the rules as they were.
BusBeforeKeepingOldRules(p, c) ==
  \E cached \in IF NextCount(p) = 0 THEN {Enabled(rules), bus[p].cached} ELSE {bus[p].cached} :
    BeforeWith(p, c, cached)

\* PreventionRuleMiddleware.before; a reload that fails empties the bus.
BusBefore(p, c) ==
  \E cached \in IF NextCount(p) = 0 THEN {Enabled(rules), {}} ELSE {bus[p].cached} :
    BeforeWith(p, c, cached)

\* PreventionRuleMiddleware.after, with the rules the bus holds by now; or the
\* call ends without it, which uses no rule.
BusAfter(p, c) ==
  /\ inCall[p][c].on
  /\ inCall' = [inCall EXCEPT ![p][c] = NoToolCall]
  /\ Emit(p, bus[p].cached, "after", inCall[p][c])
  /\ UNCHANGED <<bus, ticking, ruleCalls, judgements, byHand>>

-----------------------------------------------------------------------------
Judged == judgements < MaxJudgements /\ judgements' = judgements + 1

\* record_rule_outcome
Verdict(r) ==
  /\ Judged /\ r \in DOMAIN rules
  /\ \/ rules' = [rules EXCEPT ![r].useful = @ + 1]
     \/ rules' = [rules EXCEPT ![r].noisy = @ + 1]
  /\ UNCHANGED <<bus, inCall, ticking, ruleCalls, ruleHistory>>

\* update_rule_lifecycle: dormant is not among its states, and no state
\* switches a rule on again.
SetByHand(r, state) ==
  /\ Judged /\ r \in DOMAIN rules /\ state \in LifecycleStates \ {"dormant"}
  /\ rules' = [rules EXCEPT ![r] = InState(@, state)]
  /\ byHand' = byHand \cup {r}
  /\ UNCHANGED <<bus, inCall, ticking, ruleCalls, late>>

\* _load_all_rules: the rows that are not retired, as they are now.
TickLoad(p) ==
  /\ Judged /\ ticking[p].todo = {}
  /\ ticking' = [ticking EXCEPT ![p] = [todo |-> NotRetired(rules),
                                        loaded |-> [r \in NotRetired(rules) |-> rules[r]]]]
  /\ UNCHANGED <<rules, bus, inCall, ruleCalls, ruleHistory>>

\* The next rule: _transition writes the state that follows from the row as it
\* was loaded, whatever it is by now; an error is logged and the next one comes.
TickRule(p, r) ==
  /\ r \in ticking[p].todo
  /\ ticking' = [ticking EXCEPT ![p].todo = @ \ {r}]
  /\ LET row == ticking[p].loaded[r]
     IN \/ NextState(row) # row.state /\ rules' = [rules EXCEPT ![r] = InState(@, NextState(row))]
        \/ UNCHANGED rules
  /\ UNCHANGED <<bus, inCall, ruleCalls, judgements, ruleHistory>>

RuleNext ==
  \/ \E r \in RuleIds :
       \/ Verdict(r)
       \/ \E hook \in Triggers : Register(r, hook)
       \/ \E state \in LifecycleStates : SetByHand(r, state)
  \/ \E p \in RuleServers :
       \/ StartBus(p) \/ TickLoad(p)
       \/ \E c \in CallSlots : BusBefore(p, c) \/ BusAfter(p, c)
       \/ \E r \in RuleIds : TickRule(p, r)

RuleSpec == RuleInit /\ [][RuleNext]_ruleVars

-----------------------------------------------------------------------------
RuleTypeOK ==
  /\ DOMAIN rules \subseteq RuleIds
  /\ \A r \in DOMAIN rules : rules[r] \in RuleRow
  /\ bus \in [RuleServers -> [cached : SUBSET DOMAIN rules, count : 0..(ReloadInterval - 1)]]
  /\ inCall \in [RuleServers -> [CallSlots ->
       [on : BOOLEAN, at : 0..(ReloadInterval - 1), off : SUBSET DOMAIN rules]]]
  /\ \A p \in RuleServers :
       /\ ticking[p].todo \subseteq DOMAIN ticking[p].loaded
       /\ DOMAIN ticking[p].loaded \subseteq DOMAIN rules
       /\ \A r \in DOMAIN ticking[p].loaded : ticking[p].loaded[r] \in RuleRow
  /\ ruleCalls \in 0..MaxRuleCalls /\ judgements \in 0..MaxJudgements
  /\ late \in [RuleServers -> [RuleIds -> SUBSET (0..(ReloadInterval - 1))]] /\ byHand \subseteq RuleIds

\* Of the calls a process begins after a rule was switched off, fewer than lie
\* between two reloads of its bus use that rule, although nobody tells the
\* process, a reload may fail, and the bus may be reloaded while calls are under
\* way (EventBus._reload, PreventionRuleMiddleware). A call that had begun before
\* the rule was switched off may still use it once, in its `after`.
StaleRulesFade ==
  \A p \in RuleServers, r \in RuleIds : Cardinality(late[p][r]) < ReloadInterval

\* "active -> trusted (200+ evals, <10% FP rate)", "Rules must earn their way to
\* 'trusted' via demonstrated value": where a tick moves an active rule that has
\* earned it, it moves it to trusted. The code asks first whether the rule has
\* never had the time of a firing recorded and more than 50 evaluations, and
\* makes it dormant (_next_state).
RulesEarnTrust ==
  [][\A p \in RuleServers, r \in RuleIds :
       LET row == ticking[p].loaded[r]
       IN /\ r \in ticking[p].todo \ ticking'[p].todo /\ ticking'[p].loaded = ticking[p].loaded
          /\ row.state = "active" /\ row.evals >= TrustEvals /\ NoisyUnder(row, TrustPercent)
          /\ rules[r].state = "active" /\ rules'[r].state # "active"
          => rules'[r].state = "trusted"]_ruleVars

\* A rule leaves retirement by hand, or because a tick that had loaded it
\* before finishes later; it remains switched off in either case
\* (_load_all_rules, _transition).
RetiredStaysOff ==
  [][\A r \in DOMAIN rules : rules[r].state = "retired" =>
       /\ ~rules[r].enabled /\ ~rules'[r].enabled
       /\ \/ rules'[r].state = "retired"
          \/ r \in byHand'
          \/ \E p \in RuleServers : r \in ticking[p].todo /\ ticking[p].loaded[r].state # "retired"]_rules
=============================================================================
