------------------------------ MODULE LearningLoop ------------------------------
(***************************************************************************)
(* What the server learns from a miss and what it reports of it: missed    *)
(* detections and the prevention rules made of them                        *)
(* (persistent_store.py, tools/adaptive.py), quality scores, the kinds of  *)
(* the user's prompts, and the status report put together from all of      *)
(* them.  Every SQL statement commits by itself, so each is a step here: a *)
(* rule is inserted in one and its detection marked in another, and a      *)
(* status report is made of reads that other callers' writes come between. *)
(***************************************************************************)
EXTENDS Integers, FiniteSets, Sequences, SequencesExt

CONSTANTS
  LoopCallers,    \* threads of the servers that share the store
  DetectionKinds, \* the detection_type of a missed detection
  HandNames,      \* names a caller gives to rules of its own
  PastScores,     \* quality scores a store may hold already, oldest first
  PastPrompts,    \* reasoning types of prompts a store may hold already
  TrendWindow,    \* scores a trend is made of: 20
  PromptWindow,   \* prompts that are analysed: 50
  MaxDetections, MaxLoopCalls  \* bounds of the model

ASSUME LoopAssumption ==
  /\ TrendWindow \in Nat /\ PromptWindow \in Nat
  /\ MaxDetections \in Nat /\ MaxLoopCalls \in Nat
  /\ \A s \in PastScores : s \in Seq(Nat)
  /\ \A s \in PastPrompts : s \in Seq({"loop", "gap", "depth", "substantive"})

Wasted == {"loop", "gap", "depth"}
Reasoning == Wasted \cup {"substantive"}
\* What a status report reads, in the order of its queries.
Reads == <<"total", "automated", "kinds", "goalTrend", "goalPending", "goalPrompts",
           "gapPending", "gapTrend", "gapPrompts">>
AutoNames == DetectionKinds \X (1 .. MaxDetections)

VARIABLES
  detections, \* the rows of missed_detections: kind and automated, by id
  ruleNames,  \* the names of the rows of prevention_rules
  hadRule,    \* ids of detections a rule was inserted for
  scores, prompts, \* rows of quality_scores and prompt_sessions, oldest first
  doing,      \* [w] the statement w is about to execute
  report,     \* [w] what w's status report has read so far, in the order of Reads
  disturbed,  \* callers whose report had a write of another come between
  loopCalls

loopVars == <<detections, ruleNames, hadRule, scores, prompts, doing, report, disturbed, loopCalls>>

NotBusy == [at |-> "idle", name |-> 0, source |-> 0]

LoopTypeOK ==
  /\ \A i \in DOMAIN detections :
       detections[i].kind \in DetectionKinds /\ detections[i].automated \in BOOLEAN
  /\ Len(detections) <= MaxDetections
  /\ ruleNames \subseteq HandNames \cup AutoNames
  /\ hadRule \subseteq 1 .. MaxDetections
  /\ scores \in Seq(Nat) /\ prompts \in Seq(Reasoning)
  /\ \A w \in LoopCallers :
       /\ doing[w].at \in {"idle", "insert", "mark", "read"}
       /\ doing[w].source \in 0 .. MaxDetections
       /\ Len(report[w]) <= Len(Reads)
  /\ disturbed \subseteq LoopCallers
  /\ loopCalls \in 0 .. MaxLoopCalls

LoopInit ==
  /\ detections = <<>> /\ ruleNames = {} /\ hadRule = {}
  /\ scores \in PastScores /\ prompts \in PastPrompts
  /\ doing = [w \in LoopCallers |-> NotBusy]
  /\ report = [w \in LoopCallers |-> <<>>]
  /\ disturbed = {} /\ loopCalls = 0

Newest(s, window) == SubSeq(s, IF Len(s) > window THEN Len(s) - window + 1 ELSE 1, Len(s))
SumOf(s) == FoldLeft(LAMBDA x, y : x + y, 0, s)

\* get_quality_trend: the newer half of the scores against the older one.
Trend(s) ==
  LET window == Newest(s, TrendWindow)
      mid == Len(window) \div 2
      rest == Len(window) - mid
      recent == SumOf(SubSeq(window, rest + 1, Len(window))) * rest
      older == SumOf(SubSeq(window, 1, rest)) * mid
  IN  IF window = <<>> THEN "no_data"
      ELSE IF Len(window) < 4 THEN "insufficient_data"
      ELSE IF recent > older THEN "improving" ELSE IF recent < older THEN "declining" ELSE "stable"

CountOf(kinds, s) == Cardinality({i \in DOMAIN s : s[i] \in kinds})
\* More than a fifth of the analysed prompts.
DrawsGoal(count, total) == 5 * count > total
PromptGoals(s) ==
  LET window == Newest(s, PromptWindow)
  IN  {k \in Wasted : DrawsGoal(CountOf({k}, window), Len(window))}
\* The health score: less than half of the analysed prompts had substance.
Critical(s) ==
  LET window == Newest(s, PromptWindow)
  IN  2 * (Len(window) - CountOf(Wasted, window)) < Len(window)

Unautomated == Cardinality({i \in DOMAIN detections : ~detections[i].automated})
Recurring ==
  {k \in DetectionKinds : Cardinality({i \in DOMAIN detections : detections[i].kind = k}) >= 2}

Found(read) ==
  CASE read = "total" -> Len(detections)
    [] read = "automated" -> Len(detections) - Unautomated
    [] read = "kinds" -> Recurring
    [] read \in {"goalTrend", "gapTrend"} -> Trend(scores)
    [] read \in {"goalPending", "gapPending"} -> Unautomated
    [] read = "goalPrompts" -> PromptGoals(prompts)
    [] read = "gapPrompts" -> Critical(prompts)

-----------------------------------------------------------------------------
LoopCall(w) == doing[w].at = "idle" /\ loopCalls < MaxLoopCalls /\ loopCalls' = loopCalls + 1
\* A write disturbs the reports that have begun and not ended.
Disturb ==
  disturbed' = disturbed \cup {w \in LoopCallers : doing[w].at = "read"}
Do(w, at, name, source) ==
  doing' = [doing EXCEPT ![w] = [at |-> at, name |-> name, source |-> source]]
Done(w) == doing' = [doing EXCEPT ![w] = NotBusy]

\* record_missed_detection: the row; a miss that suggests a rule goes on to insert one.
RecordDetection(w, kind, suggests) ==
  LET id == Len(detections) + 1
  IN  /\ LoopCall(w) /\ id <= MaxDetections
      /\ detections' = Append(detections, [kind |-> kind, automated |-> FALSE])
      /\ IF suggests THEN Do(w, "insert", <<kind, id>>, id) ELSE Done(w)
      /\ Disturb
      /\ UNCHANGED <<ruleNames, hadRule, scores, prompts, report>>

\* The tool register_prevention_rule: any name, any source id; 0 is none.
RegisterRule(w, name, source) ==
  /\ LoopCall(w)
  /\ Do(w, "insert", name, source)
  /\ UNCHANGED <<detections, ruleNames, hadRule, scores, prompts, report, disturbed>>

\* register_prevention_rule: the INSERT.
InsertRule(w) ==
  LET name == doing[w].name
      source == doing[w].source
  IN  /\ doing[w].at = "insert" /\ name \notin ruleNames
      /\ ruleNames' = ruleNames \cup {name}
      /\ hadRule' = hadRule \cup ({source} \ {0})
      /\ IF source = 0 THEN Done(w) ELSE Do(w, "mark", name, source)
      /\ Disturb
      /\ UNCHANGED <<detections, scores, prompts, report, loopCalls>>

\* The mutated form: a name that is taken marks the detection as well.
MarkTakenName(w) ==
  /\ doing[w].at = "insert" /\ doing[w].name \in ruleNames
  /\ IF doing[w].source = 0 THEN Done(w) ELSE Do(w, "mark", doing[w].name, doing[w].source)
  /\ Disturb
  /\ UNCHANGED <<detections, ruleNames, hadRule, scores, prompts, report, loopCalls>>

\* The name is taken: the rule there is overwritten and the detection is not marked.
NameTaken(w) ==
  /\ doing[w].at = "insert" /\ doing[w].name \in ruleNames
  /\ Done(w)
  /\ Disturb
  /\ UNCHANGED <<detections, ruleNames, hadRule, scores, prompts, report, loopCalls>>

\* The UPDATE of the source detection; an id without a row updates nothing.
MarkDetection(w) ==
  /\ doing[w].at = "mark"
  /\ detections' = [i \in DOMAIN detections |->
       IF i = doing[w].source THEN [detections[i] EXCEPT !.automated = TRUE] ELSE detections[i]]
  /\ Done(w)
  /\ Disturb
  /\ UNCHANGED <<ruleNames, hadRule, scores, prompts, report, loopCalls>>

DeleteRule(w, name) ==
  /\ LoopCall(w) /\ name \in ruleNames
  /\ ruleNames' = ruleNames \ {name}
  /\ Disturb
  /\ UNCHANGED <<detections, hadRule, scores, prompts, doing, report>>

RecordScore(w, score) ==
  /\ LoopCall(w)
  /\ scores' = Append(scores, score)
  /\ Disturb
  /\ UNCHANGED <<detections, ruleNames, hadRule, prompts, doing, report>>

RecordPrompt(w, reasoning) ==
  /\ LoopCall(w)
  /\ prompts' = Append(prompts, reasoning)
  /\ Disturb
  /\ UNCHANGED <<detections, ruleNames, hadRule, scores, doing, report>>

\* get_autonomous_status: the diagnosis, the goals and the gap scan, read by read.
BeginReport(w) ==
  /\ LoopCall(w)
  /\ Do(w, "read", 0, 0)
  /\ report' = [report EXCEPT ![w] = <<>>]
  /\ disturbed' = disturbed \ {w}
  /\ UNCHANGED <<detections, ruleNames, hadRule, scores, prompts>>

ReadNext(w) ==
  LET read == Reads[Len(report[w]) + 1]
  IN  /\ doing[w].at = "read"
      /\ report' = [report EXCEPT ![w] = Append(@, Found(read))]
      /\ IF Len(report'[w]) = Len(Reads) THEN Done(w) ELSE UNCHANGED doing
      /\ UNCHANGED <<detections, ruleNames, hadRule, scores, prompts, disturbed, loopCalls>>

\* The process ends between two statements.
LoopCrash(w) ==
  /\ doing[w].at # "idle"
  /\ Done(w)
  /\ report' = [report EXCEPT ![w] = <<>>]
  /\ UNCHANGED <<detections, ruleNames, hadRule, scores, prompts, disturbed, loopCalls>>

LoopNext ==
  \E w \in LoopCallers :
    \/ \E kind \in DetectionKinds, suggests \in BOOLEAN : RecordDetection(w, kind, suggests)
    \/ \E name \in HandNames \cup AutoNames, source \in 0 .. MaxDetections : RegisterRule(w, name, source)
    \/ InsertRule(w) \/ NameTaken(w) \/ MarkDetection(w)
    \/ \E name \in HandNames \cup AutoNames : DeleteRule(w, name)
    \/ \E score \in {1, 9} : RecordScore(w, score)
    \/ \E reasoning \in Reasoning : RecordPrompt(w, reasoning)
    \/ BeginReport(w) \/ ReadNext(w) \/ LoopCrash(w)

LoopSpec == LoopInit /\ [][LoopNext]_loopVars

-----------------------------------------------------------------------------
Reported(w) == doing[w].at = "idle" /\ Len(report[w]) = Len(Reads)
Item(w, read) == report[w][CHOOSE i \in DOMAIN Reads : Reads[i] = read]

\* What a finished status report says is so, whatever was written while it was
\* put together: no detection waiting for a rule means that every detection it
\* counted had one inserted (not only found its name taken).  And a report that
\* nothing came between agrees with itself: the diagnosis, the goals and the
\* scan count the same detections, and prompts that are called critical draw a
\* goal, unless the waste is spread over all three patterns.
ReportsHold ==
  \A w \in LoopCallers : Reported(w) =>
    /\ Item(w, "gapPending") = 0 => 1 .. Item(w, "total") \subseteq hadRule
    /\ w \notin disturbed =>
         /\ Item(w, "total") - Item(w, "automated") = Item(w, "gapPending")
         /\ (Item(w, "gapPrompts") /\ Item(w, "goalPrompts") = {}) =>
              Wasted \subseteq Range(prompts)
=============================================================================
