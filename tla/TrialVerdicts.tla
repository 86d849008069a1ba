----------------------------- MODULE TrialVerdicts -----------------------------
(***************************************************************************)
(* The paired trial that decides whether the server ships: a table of      *)
(* cases that the baseline and the treatment pass or fail, grown case by   *)
(* case, the exact McNemar test on it, the registered ship rule and the    *)
(* scorecard's verdict.                                                    *)
(*                                                                         *)
(* Rates are compared as integers. Only where a lift meets a threshold     *)
(* exactly does the code's difference of two floats fall on either side,   *)
(* depending on the baseline: 8/20 - 5/20 is above 0.15, 7/20 - 4/20 below.*)
(***************************************************************************)
EXTENDS Integers, Sequences

CONSTANTS
  MaxCases,      \* bound: cases of the trial
  MaxOverspend,  \* bound: balance of tokens beside the allowed quarter
  Scipy          \* whether scipy is installed: the scorecard rounds a p of its own

ASSUME TrialAssumption == MaxCases \in Nat \ {0} /\ MaxOverspend \in Nat /\ Scipy \in BOOLEAN

VARIABLES
  pairs,       \* cases by outcome; win: the treatment alone passed, loss: the baseline alone
  overspend,   \* 4 * tokens of the treatment - 5 * tokens of the baseline
  decision     \* what the ship rule says of the table

trialVars == <<pairs, overspend, decision>>

Outcomes == {"win", "loss", "both", "neither"}
Cases(table) == table["win"] + table["loss"] + table["both"] + table["neither"]
Lift(table) == table["win"] - table["loss"]

-----------------------------------------------------------------------------
\* math.comb, by Pascal's rule, and the powers of two.
Comb[n \in 0..MaxCases] ==
  LET above == Comb[n - 1]
      row == <<1>> \o [k \in 1..n - 1 |-> above[k - 1] + above[k]] \o <<1>>
  IN [k \in 0..n |-> row[k + 1]]

PowerOfTwo[n \in 0..MaxCases] == IF n = 0 THEN 1 ELSE 2 * PowerOfTwo[n - 1]

\* The sum of _binom_pmf up to k, times 2^n.
BinomialTail(n) ==
  LET upTo[k \in 0..n] == Comb[n][k] + IF k = 0 THEN 0 ELSE upTo[k - 1]
  IN upTo

\* mcnemar_exact, compute_mcnemar_exact: p <= 0.05, where p = min(1, 2 * tail), and
\* rounded to four digits p < 0.05005; no power of two makes the two sides equal.
Significant(table, rounded) ==
  LET n == table["win"] + table["loss"]
      least == IF table["win"] < table["loss"] THEN table["win"] ELSE table["loss"]
      most == IF rounded THEN (1001 * PowerOfTwo[n]) \div 40000 ELSE PowerOfTwo[n] \div 40
  IN n > 0 /\ BinomialTail(n)[least] <= most

\* Whether a lift reaches the percentage, as the floats have it.
Reaches(table, percent) ==
  LET margin == 100 * Lift(table) - percent * Cases(table)
  IN IF margin = 0 THEN BOOLEAN ELSE {margin > 0}

\* Slip, for mutation: a significant result ships whatever its direction.
DecisionsEitherWay(table, spent) ==
  {IF spent > 0 THEN "reject" ELSE IF Significant(table, TRUE) \/ large THEN "ship"
   ELSE IF enough THEN "hold" ELSE "reject" :
     enough \in Reaches(table, 8), large \in Reaches(table, 15)}

\* ship_decision. Citations never decide: run_blind_suite counts the fake ones of
\* the baseline and takes those of the treatment to be none.
Decisions(table, spent) ==
  {IF ~enough \/ spent > 0 THEN "reject" ELSE IF Significant(table, TRUE) \/ large THEN "ship" ELSE "hold" :
     enough \in Reaches(table, 8), large \in Reaches(table, 15)}

\* evaluate_statistical_scorecard
ScorecardVerdict(table) ==
  CASE Significant(table, ~Scipy) /\ Lift(table) >= 0 -> "PRIMARY_ENDPOINT_SIGNIFICANT"
    [] ~Significant(table, ~Scipy) /\ Lift(table) > 0 -> "INTERNAL_PILOT_DIRECTIONAL"
    [] OTHER -> "INCONCLUSIVE"

-----------------------------------------------------------------------------
OneCase(outcome) == [o \in Outcomes |-> IF o = outcome THEN 1 ELSE 0]

\* A table needs a case: both functions raise ValueError without one.
TrialInit ==
  /\ \E outcome \in Outcomes : pairs = OneCase(outcome)
  /\ overspend \in -MaxOverspend..MaxOverspend
  /\ decision \in Decisions(pairs, overspend)

\* run_blind_suite on one case more.
AddCase(outcome, spent) ==
  /\ Cases(pairs) < MaxCases
  /\ overspend + spent \in -MaxOverspend..MaxOverspend
  /\ pairs' = [pairs EXCEPT ![outcome] = @ + 1]
  /\ overspend' = overspend + spent
  /\ decision' \in Decisions(pairs', overspend')

TrialNext == \E outcome \in Outcomes, spent \in {-1, 0, 1} : AddCase(outcome, spent)
TrialSpec == TrialInit /\ [][TrialNext]_trialVars

-----------------------------------------------------------------------------
TrialTypeOK ==
  /\ pairs \in [Outcomes -> 0..MaxCases] /\ Cases(pairs) \in 1..MaxCases
  /\ overspend \in -MaxOverspend..MaxOverspend /\ decision \in {"ship", "hold", "reject"}

Rank(d) == CASE d = "reject" -> 0 [] d = "hold" -> 1 [] OTHER -> 2

\* The ship rule follows the evidence although it combines a p-value, two lift
\* thresholds and a token budget: a case only the treatment passes, within the
\* budget, never makes the decision worse, one only the baseline passes never
\* makes it better, and one that does not tell the two apart never promotes a
\* table whose cost stays the same. Nor does a case that speaks for the treatment
\* take the scorecard's significance away (ship_decision, mcnemar_exact,
\* evaluate_statistical_scorecard).
EvidenceMovesDecision ==
  [][/\ (pairs'["win"] > pairs["win"] /\ overspend' <= overspend) => Rank(decision') >= Rank(decision)
     /\ (pairs'["loss"] > pairs["loss"] /\ overspend' >= overspend) => Rank(decision') <= Rank(decision)
     /\ (Lift(pairs') = Lift(pairs) /\ overspend' >= overspend) => Rank(decision') <= Rank(decision)
     /\ (pairs'["win"] > pairs["win"] /\ ScorecardVerdict(pairs) = "PRIMARY_ENDPOINT_SIGNIFICANT") =>
          ScorecardVerdict(pairs') = ScorecardVerdict(pairs)]_trialVars
=============================================================================
