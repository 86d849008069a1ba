------------------------------ MODULE MistakeRecall ------------------------------
(***************************************************************************)
(* Past mistakes that come back to the prompt (middleware/injection.py,    *)
(* memory/hybrid_search.py): a prompt is searched in the full-text index   *)
(* and in the vectors, the two rankings are fused, one mistake of each     *)
(* root cause is kept and the first three are shown and logged.  The       *)
(* outcomes that are reported of the shown ones decide, in passes of the   *)
(* optimizer (learning/injection_optimizer.py), whether a mistake stays    *)
(* eligible; a person may quarantine one and release it.                   *)
(***************************************************************************)
EXTENDS Integers, FiniteSets, SequencesExt, Selections

CONSTANTS
  Mistakes,      \* rows of anti_patterns; a store has finitely many
  MistakeWords,  \* [Mistakes -> set of words]
  Cause,         \* [Mistakes -> root cause]
  HasVector,     \* mistakes whose embedding was stored
  PromptTexts,   \* the sets of words prompts may hold
  Weights,       \* weights of the two rankings, in tenths: <<15, 7>>, <<10, 10>>, <<7, 15>>
  RankOffset,    \* k_rrf: 60
  ShowLimit,     \* max_items: 3
  PastEvents,    \* events a store may hold already
  Optimizers,    \* schedulers of the servers
  JudgeAfter,    \* MIN_INJECTIONS_TO_JUDGE: 20
  NeutralBelow,  \* outcomes below which effectiveness is neutral: 5
  FloorPercent, BoostPercent, \* EFFECTIVENESS_FLOOR 30, BOOST_THRESHOLD 70
  AdjustPercent, \* injection_ineffective: prevention rate below 40
  MaxEvents, MaxResolutions   \* bounds of the model

InjectionOutcomes == {"unknown", "prevented", "recurred"}

ASSUME RecallAssumption ==
  /\ MistakeWords \in [Mistakes -> SUBSET UNION {MistakeWords[p] : p \in Mistakes}]
  /\ IsFiniteSet(Mistakes) /\ HasVector \subseteq Mistakes
  /\ Weights \subseteq (Nat \ {0}) \X (Nat \ {0})
  /\ PastEvents \subseteq Seq([shown : SUBSET Mistakes, outcome : InjectionOutcomes])
  /\ \A n \in {RankOffset, ShowLimit, JudgeAfter, NeutralBelow, FloorPercent, BoostPercent,
               AdjustPercent, MaxEvents, MaxResolutions} : n \in Nat
  /\ JudgeAfter > 0 /\ FloorPercent \in 1 .. BoostPercent /\ BoostPercent <= 100

VARIABLES
  recalled,    \* the last prompt: its two rankings and what was shown
  events,      \* the rows of injection_events: the mistakes shown and the outcome
  eligible,    \* [p] injection_eligible
  quarantined, \* mistakes a person has quarantined
  rows,        \* [o] what o's pass has decided and not written yet: the mistake, its
               \*   eligibility and the outcomes that had been reported of it
  reported,    \* [p] outcomes reported of p so far
  turned       \* [p] how many there were for the pass that last turned p's eligibility

recallVars == <<recalled, events, eligible, quarantined, rows, reported, turned>>

NothingRecalled == [words |-> <<>>, vectors |-> <<>>, shown |-> <<>>]

RecallTypeOK ==
  /\ recalled.words \in Seq(Mistakes) /\ recalled.vectors \in Seq(HasVector)
  /\ recalled.shown \in Seq(Mistakes) /\ Len(recalled.shown) <= ShowLimit
  /\ \A i \in DOMAIN events : events[i].outcome \in InjectionOutcomes /\ events[i].shown \subseteq Mistakes
  /\ eligible \in [Mistakes -> BOOLEAN] /\ quarantined \subseteq Mistakes
  /\ \A o \in Optimizers : rows[o] \subseteq Mistakes \X BOOLEAN \X (0 .. MaxResolutions)
  /\ reported \in [Mistakes -> 0 .. MaxResolutions]
  /\ turned \in [Mistakes -> Int]

RecallInit ==
  /\ recalled = NothingRecalled /\ events \in PastEvents
  /\ eligible = [p \in Mistakes |-> TRUE] /\ quarantined = {}
  /\ rows = [o \in Optimizers |-> {}]
  /\ reported = [p \in Mistakes |-> 0] /\ turned = [p \in Mistakes |-> -JudgeAfter]

-----------------------------------------------------------------------------
RankIn(ranking, p) == CHOOSE i \in DOMAIN ranking : ranking[i] = p
In(ranking, p) == p \in Range(ranking)

\* The fused score of p as a fraction <<n, d>>: a share of each ranking p is in.
Share(weight, ranking, p) ==
  IF In(ranking, p) THEN <<weight, RankOffset + RankIn(ranking, p)>> ELSE <<0, 1>>
Score(weight, words, vectors, p) ==
  LET w == Share(weight[1], words, p)
      v == Share(weight[2], vectors, p)
  IN  <<w[1] * v[2] + v[1] * w[2], w[2] * v[2]>>
\* The mutated form: the rank among the vectors replaces the share of the words.
LastScore(weight, words, vectors, p) ==
  IF In(vectors, p) THEN Share(weight[2], vectors, p) ELSE Share(weight[1], words, p)
FusedScore(weight, words, vectors, p) == Score(weight, words, vectors, p)

\* Of two hits the one with the greater score comes first, between equals the one
\* that arrived first, those of the words before the others.
Arrival(words, vectors, p) ==
  IF In(words, p) THEN RankIn(words, p) ELSE Len(words) + RankIn(vectors, p)
Precedes(weight, words, vectors, p, q) ==
  LET s == FusedScore(weight, words, vectors, p)
      t == FusedScore(weight, words, vectors, q)
  IN  \/ s[1] * t[2] > t[1] * s[2]
      \/ s[1] * t[2] = t[1] * s[2] /\ Arrival(words, vectors, p) < Arrival(words, vectors, q)

\* HybridSearch.search: the first hits by score, twice as many as are shown.
Fused(weight, words, vectors) ==
  LET hits == Range(words) \cup Range(vectors)
  IN  ByKey([p \in hits |-> Cardinality({q \in hits : Precedes(weight, words, vectors, q, p)})],
            2 * ShowLimit)

\* AntiPatternInjectionMiddleware.after: the first of each root cause, and the first
\* few of these.
Chosen(hits) ==
  LET firsts == {i \in DOMAIN hits : \A j \in DOMAIN hits : j < i => Cause[hits[j]] # Cause[hits[i]]}
      kept == ByKey([i \in firsts |-> i], ShowLimit)
  IN  [n \in DOMAIN kept |-> hits[kept[n]]]

\* What a search finds, in some order, up to its limit, three times that of the fusion.
FoundIn(S) == {SubSeq(s, 1, Min({Len(s), 6 * ShowLimit})) : s \in SetToSeqs(S)}

\* The full-text index wants every word of the prompt, each being quoted.
WordMatches(text) == {p \in Mistakes : text \subseteq MistakeWords[p]}
WordRankings(text) == {<<>>} \cup FoundIn(WordMatches(text))
VectorRankings == {<<>>} \cup FoundIn(HasVector)

-----------------------------------------------------------------------------
\* orchestrate_request_tool answers a prompt: either search may fail and find
\* nothing; with nothing from both the full-text search is tried once more. What
\* is shown is logged, or the row fails and is given up.
Inject(text, weight, words, vectors) ==
  LET hits == Fused(weight, words, vectors)
      shown == Chosen(hits)
  IN  /\ Len(events) < MaxEvents
      /\ recalled' = [words |-> words, vectors |-> vectors, shown |-> shown]
      /\ \/ shown # <<>> /\ events' = Append(events, [shown |-> Range(shown), outcome |-> "unknown"])
         \/ UNCHANGED events
      /\ UNCHANGED <<eligible, quarantined, rows, reported, turned>>

\* resolve_injection: an outcome, a later one in place of an earlier.
Resolve(i, outcome) ==
  /\ \A p \in events[i].shown : reported[p] < MaxResolutions
  /\ events' = [events EXCEPT ![i].outcome = outcome]
  /\ reported' = [p \in Mistakes |-> IF p \in events[i].shown THEN reported[p] + 1 ELSE reported[p]]
  /\ UNCHANGED <<recalled, eligible, quarantined, rows, turned>>

With(outcome) == {i \in DOMAIN events : events[i].outcome = outcome}
\* get_injection_prevention_rate, held against the trigger injection_ineffective.
Ineffective ==
  LET total == Cardinality(With("prevented") \cup With("recurred"))
  IN  total > 0 /\ 100 * Cardinality(With("prevented")) < AdjustPercent * total

Prevented(p) == Cardinality({i \in With("prevented") : p \in events[i].shown})
OutcomesOf(p) == Prevented(p) + Cardinality({i \in With("recurred") : p \in events[i].shown})
\* The mutated form: MIN_INJECTIONS_TO_JUDGE is not asked for.
RetiresEarly(p) == OutcomesOf(p) >= NeutralBelow /\ 100 * Prevented(p) < FloorPercent * OutcomesOf(p)
Retires(p) ==
  /\ OutcomesOf(p) >= NeutralBelow /\ OutcomesOf(p) >= JudgeAfter
  /\ 100 * Prevented(p) < FloorPercent * OutcomesOf(p)
Boosts(p) == OutcomesOf(p) >= NeutralBelow /\ 100 * Prevented(p) > BoostPercent * OutcomesOf(p)

\* adjust_injection_pool: the statistics are read once, then a row each is written.
BeginPass(o) ==
  /\ rows[o] = {} /\ Ineffective
  /\ rows' = [rows EXCEPT ![o] =
       {<<p, FALSE, reported[p]>> : p \in {q \in Mistakes : Retires(q)}}
         \cup {<<p, TRUE, reported[p]>> : p \in {q \in Mistakes : Boosts(q) /\ ~Retires(q)}}]
  /\ UNCHANGED <<recalled, events, eligible, quarantined, reported, turned>>

WriteRow(o, row) ==
  /\ row \in rows[o]
  /\ rows' = [rows EXCEPT ![o] = @ \ {row}]
  /\ eligible' = [eligible EXCEPT ![row[1]] = row[2]]
  /\ turned' = [turned EXCEPT ![row[1]] = IF eligible[row[1]] = row[2] THEN @ ELSE row[3]]
  /\ UNCHANGED <<recalled, events, quarantined, reported>>

\* The server ends, or a write fails: the rest of the pass is lost.
CutPass(o) ==
  /\ rows[o] # {}
  /\ rows' = [rows EXCEPT ![o] = {}]
  /\ UNCHANGED <<recalled, events, eligible, quarantined, reported, turned>>

\* quarantine_anti_pattern and release_quarantine.
QuarantineMistake(p) ==
  /\ p \notin quarantined
  /\ quarantined' = quarantined \cup {p} /\ eligible' = [eligible EXCEPT ![p] = FALSE]
  /\ turned' = [turned EXCEPT ![p] = -JudgeAfter]
  /\ UNCHANGED <<recalled, events, rows, reported>>
ReleaseQuarantine(p) ==
  /\ p \in quarantined
  /\ quarantined' = quarantined \ {p} /\ eligible' = [eligible EXCEPT ![p] = TRUE]
  /\ turned' = [turned EXCEPT ![p] = -JudgeAfter]
  /\ UNCHANGED <<recalled, events, rows, reported>>

RecallNext ==
  \/ \E text \in PromptTexts, weight \in Weights :
       \E words \in WordRankings(text), vectors \in VectorRankings :
         Inject(text, weight, words, vectors)
  \/ \E i \in DOMAIN events, outcome \in InjectionOutcomes \ {"unknown"} : Resolve(i, outcome)
  \/ \E o \in Optimizers : BeginPass(o) \/ CutPass(o) \/ \E row \in rows[o] : WriteRow(o, row)
  \/ \E p \in Mistakes : QuarantineMistake(p) \/ ReleaseQuarantine(p)

RecallSpec == RecallInit /\ [][RecallNext]_recallVars

-----------------------------------------------------------------------------
Ahead(ranking, p, q) == In(ranking, p) /\ RankIn(ranking, p) < RankIn(ranking, q)

\* Fusing, cutting and removing doubles never shows a mistake in place of a
\* better one: when both searches rank p before q wherever they found q, q is
\* not shown unless p is, or another mistake of p's root cause.
BetterHitShown ==
  \A p \in Mistakes, q \in Range(recalled.shown) :
    (\A ranking \in {recalled.words, recalled.vectors} : In(ranking, q) => Ahead(ranking, p, q))
      => \E r \in Range(recalled.shown) : Cause[r] = Cause[p]

\* The pool does not flap: before the passes of one optimizer turn a mistake's
\* eligibility, and turn it back without a person's doing, more outcomes of it
\* must have been reported than the floor and the threshold leave between them
\* of the injections that are judged (8 of 20).
PoolDoesNotFlap ==
  [][\A o \in Optimizers : \A row \in rows[o] :
       WriteRow(o, row) /\ eligible[row[1]] # row[2] =>
         100 * (row[3] - turned[row[1]]) > (BoostPercent - FloorPercent) * JudgeAfter]_recallVars
=============================================================================
