----------------------------- MODULE GroundedAnswer -----------------------------
(***************************************************************************)
(* The checks `evidence` and `grounding` of verify (evidence/*.py and      *)
(* verification/registry.py): a query is sent to the search engines, the   *)
(* first pages are read one after the other, up to two spans that overlap  *)
(* the query are quoted from each, the quotes are cut to a budget, and the *)
(* draft's citations are held against what is left.  Pages change while    *)
(* they are read, engines and pages fail, and a timer drops whatever the   *)
(* engines have answered.                                                  *)
(***************************************************************************)
EXTENDS Integers, Sequences, Functions, Selections

CONSTANTS
  WebPages,    \* pages, by their URL
  FirstWebs,   \* what the pages may hold at first
  Spans,       \* sentences that overlap the query, numbered best first
  Length,      \* [Spans -> Nat] their characters, with those of the URL
  Index,       \* [engine -> sequence of pages]; engines are 1, 2, ...
  Pairable,    \* the spans of 12 to 240 characters, which _QUOTE_RE can find
  Citations,   \* drafts: the URLs they cite, the spans they quote, and what _QUOTE_RE finds
  SourceLimit, \* k: pages that are read, 3
  SpanLimit,   \* spans quoted from a page: 2
  QuoteLimit,  \* MAX_QUOTES: 6
  CharBudget,  \* MAX_CHARS: 1200
  MaxVerifies, MaxPageChanges  \* bounds of the model

ASSUME GroundedAssumption ==
  /\ Spans \subseteq Nat /\ Length \in [Spans -> Nat] /\ IsFiniteSet(Spans)
  /\ FirstWebs \subseteq [WebPages -> SUBSET Spans] /\ IsFiniteSet(WebPages)
  /\ Index \in Seq(Seq(WebPages))
  /\ Pairable \subseteq Spans
  /\ \A c \in Citations : c.spans \subseteq Spans /\ (c.spans \subseteq Pairable => c.found = c.spans)
  /\ \A n \in {SourceLimit, SpanLimit, QuoteLimit, CharBudget, MaxVerifies, MaxPageChanges} : n \in Nat

VARIABLES
  web,     \* [page] the spans the page holds now
  verify,  \* the verification under way: check, draft, pages left to read, quotes so far
  texts,   \* the pairs <page, span> of the pages as they were read by it
  finding, \* what the last verification answered
  verifies, pageChanges

groundedVars == <<web, verify, texts, finding, verifies, pageChanges>>

Checks == {"evidence", "grounding"}
NoCitation == [urls |-> {}, spans |-> {}, found |-> {}]
Unasked == [check |-> "none", draft |-> NoCitation, stage |-> "idle", left |-> <<>>, quotes |-> <<>>]
NoFinding == [check |-> "none", status |-> "NONE", draft |-> NoCitation, quotes |-> <<>>]

GroundedTypeOK ==
  /\ web \in [WebPages -> SUBSET Spans]
  /\ verify.check \in Checks \cup {"none"} /\ verify.stage \in {"idle", "search", "read"}
  /\ verify.left \in Seq(WebPages) /\ Len(verify.left) <= SourceLimit
  /\ verify.quotes \in Seq(WebPages \X Spans)
  /\ texts \subseteq WebPages \X Spans
  /\ finding.status \in {"NONE", "PASS", "FAIL", "UNKNOWN"}
  /\ finding.quotes \in Seq(WebPages \X Spans) /\ Len(finding.quotes) <= QuoteLimit
  /\ verifies \in 0 .. MaxVerifies /\ pageChanges \in 0 .. MaxPageChanges

GroundedInit ==
  /\ web \in FirstWebs
  /\ verify = Unasked /\ texts = {} /\ finding = NoFinding
  /\ verifies = 0 /\ pageChanges = 0

-----------------------------------------------------------------------------
\* search_and_triangulate: one result of each engine per pass, no URL twice,
\* until there are k of them. A result is an engine and a place in its list.
Sources(answers) ==
  LET results == UNION {{<<e, i>> : i \in DOMAIN answers[e]} : e \in DOMAIN answers}
      PageOf(r) == answers[r[1]][r[2]]
      Turn(r) == r[2] * Len(answers) + r[1]
      pages == {PageOf(r) : r \in results}
  IN  ByKey([p \in pages |-> Min({Turn(r) : r \in {q \in results : PageOf(q) = p}})], SourceLimit)

\* extract_quotes: the best spans of a text.
BestOf(page, text) ==
  LET kept == ByKey([s \in text |-> s], SpanLimit)
  IN  [i \in DOMAIN kept |-> <<page, kept[i]>>]

\* _truncate_quotes: up to the first quote that exceeds the budget. The characters
\* are counted one by one.
Fits(quotes) ==
  /\ Len(quotes) <= QuoteLimit
  /\ Cardinality(UNION {{i} \X (1 .. Length[quotes[i][2]]) : i \in DOMAIN quotes}) <= CharBudget
Truncated(quotes) ==
  SubSeq(quotes, 1, Max({n \in 0 .. Len(quotes) : Fits(SubSeq(quotes, 1, n))}))

QuotedPages(quotes) == {q[1] : q \in Range(quotes)}
\* The mutated form: quotes are counted, not the pages they are from.
DegradedByQuotes(quotes) == Len(quotes) < 2
Degraded(quotes) == Cardinality(QuotedPages(quotes)) < 2

\* grounding_check and GroundingVerifier: a URL that is not in the evidence fails, and
\* so does a quotation that _QUOTE_RE finds. It misses those that are too short or too
\* long, and may then pair the marks around them wrongly, for text in between or for
\* nothing. Thin evidence leaves the draft undecided.
GroundingStatus(draft, quotes) ==
  IF ~ draft.urls \subseteq QuotedPages(quotes) \/ ~ draft.found \subseteq {q[2] : q \in Range(quotes)}
    THEN "FAIL" ELSE IF Degraded(quotes) THEN "UNKNOWN" ELSE "PASS"
\* EvidenceVerifier.
EvidenceStatus(quotes) == IF quotes # <<>> /\ ~ Degraded(quotes) THEN "PASS" ELSE "UNKNOWN"

-----------------------------------------------------------------------------
\* The check `evidence` takes no draft.
BeginVerify(check, draft) ==
  /\ verify.stage = "idle" /\ verifies < MaxVerifies
  /\ check = "evidence" => draft = NoCitation
  /\ verify' = [Unasked EXCEPT !.check = check, !.draft = draft, !.stage = "search"]
  /\ texts' = {} /\ verifies' = verifies + 1
  /\ UNCHANGED <<web, finding, pageChanges>>

\* Each engine answers or fails; what it lists it lists in its own order.
Search(failed) ==
  /\ verify.stage = "search"
  /\ verify' = [verify EXCEPT !.stage = "read",
       !.left = Sources([e \in DOMAIN Index |-> IF e \in failed THEN <<>> ELSE Index[e]])]
  /\ UNCHANGED <<web, texts, finding, verifies, pageChanges>>

\* The timer around all engines fires: the answers that have arrived are dropped too.
SearchTimeout ==
  /\ verify.stage = "search"
  /\ verify' = [verify EXCEPT !.stage = "read", !.left = <<>>]
  /\ UNCHANGED <<web, texts, finding, verifies, pageChanges>>

\* deep_read_url answers, directly or through the reader, and spans are quoted.
ReadPage ==
  LET page == Head(verify.left)
  IN  /\ verify.stage = "read" /\ verify.left # <<>>
      /\ verify' = [verify EXCEPT !.left = Tail(@), !.quotes = @ \o BestOf(page, web[page])]
      /\ texts' = texts \cup ({page} \X web[page])
      /\ UNCHANGED <<web, finding, verifies, pageChanges>>

\* Neither the page nor the reader answers.
PageUnreadable ==
  /\ verify.stage = "read" /\ verify.left # <<>>
  /\ verify' = [verify EXCEPT !.left = Tail(@)]
  /\ UNCHANGED <<web, texts, finding, verifies, pageChanges>>

Conclude ==
  LET quotes == Truncated(verify.quotes)
  IN  /\ verify.stage = "read" /\ verify.left = <<>>
      /\ finding' = [check |-> verify.check, draft |-> verify.draft, quotes |-> quotes,
           status |-> IF verify.check = "evidence" THEN EvidenceStatus(quotes)
                      ELSE GroundingStatus(verify.draft, quotes)]
      /\ verify' = Unasked
      /\ UNCHANGED <<web, texts, verifies, pageChanges>>

PageChanges(page, text) ==
  /\ pageChanges < MaxPageChanges /\ text # web[page]
  /\ web' = [web EXCEPT ![page] = text]
  /\ pageChanges' = pageChanges + 1
  /\ UNCHANGED <<verify, texts, finding, verifies>>

GroundedNext ==
  \/ \E check \in Checks, draft \in Citations \cup {NoCitation} : BeginVerify(check, draft)
  \/ \E failed \in SUBSET DOMAIN Index : Search(failed)
  \/ SearchTimeout \/ ReadPage \/ PageUnreadable \/ Conclude
  \/ \E page \in WebPages, text \in SUBSET Spans : PageChanges(page, text)

GroundedSpec == GroundedInit /\ [][GroundedNext]_groundedVars

-----------------------------------------------------------------------------
\* A retrieval that passes rests on two pages at least, each read by this very
\* call and quoted as it was then; a draft that passes besides cites no page, and
\* quotes no span, that this call has not seen with its own eyes, whatever failed
\* on the way and whatever an earlier call had shown. Quotations are held against what
\* was seen only if all of the draft's have 12 to 240 characters (_QUOTE_RE): a longer
\* or a shorter one that no page holds passes, by itself or for the marks it shifts.
PassMeansRead ==
  (finding.status = "PASS" /\ verify.stage = "idle") =>
    /\ \E p, q \in WebPages : p # q /\ {p, q} \subseteq {t[1] : t \in texts}
    /\ Range(finding.quotes) \subseteq texts
    /\ finding.check = "grounding" =>
         /\ finding.draft.urls \subseteq {t[1] : t \in texts}
         /\ finding.draft.spans \subseteq Pairable => finding.draft.spans \subseteq {t[2] : t \in texts}
=============================================================================
