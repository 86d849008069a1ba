----------------------------- MODULE TaskContracts -----------------------------
(***************************************************************************)
(* What elite_prepare makes of a prompt - the task contract - what becomes *)
(* of it in the store, and how a later elite_verify judges a draft by it.  *)
(* The evidence that the outcome gate asks for besides is in EvidenceGate. *)
(*                                                                         *)
(* A text is reduced to the clauses the compiler finds in it, in order,    *)
(* each in a sentence of its own, to what else it asks for, to its words,  *)
(* and to what a check of it would find besides the words.                 *)
(***************************************************************************)
EXTENDS Sequences, Selections

CONSTANTS
  Terms,          \* words of four letters and more, and phrases that have none
  Inside,         \* the terms that a word holds, as parts of it
  Files,          \* the words that are names of files
  Lexicon,        \* what checks look for: markers of fake success, of a test log, URLs, tools
  Values, TermsOf,\* what a clause says in its first 80 characters, and the terms in it
  Tokens,         \* terms that redact_text replaces wherever they stand
  Marker,         \* what it replaces them by
  Avoid,          \* the word itself in "must avoid", "must never"
  Prompts, Drafts,
  TermLimit,      \* 6: terms of a clause
  ClauseLimit,    \* 6: clauses of one pattern
  ContractLimit   \* 8: constraints of a contract

\* What a text asks for besides its clauses and its files. "code" and "simple" lead to
\* a constraint only together with "tests", or when nothing else is asked for.
Checkable == {"max_words", "format", "scope_files", "cite_quotes", "run_tests", "answer_directly"}
Asks == {"max_words", "format", "research", "code", "tests", "simple"}

\* How a clause is worded: "must", "never", "must avoid", or "must not"; the terms of it
\* beyond 80 characters; and whether it ends with a credential, as in "log in with
\* password: x". Behind "must avoid" there is a word of four letters, and the six
\* characters that "avoid " itself takes of the 80 are not counted.
Clauses ==
  [wording : {"must", "never", "must avoid", "must not"}, value : Values,
   rest : SUBSET Terms, secret : BOOLEAN]

\* `files` are the first six it may touch, `goal` those of its first four words that
\* are longer than three letters; `faults` are those of its layout, its length and its
\* ending, and a missing quotation.
Text ==
  [clauses : Seq(Clauses), asks : SUBSET Asks, files : Seq(Files), goal : Seq(Terms),
   words : SUBSET (Terms \cup {Avoid, Marker}), faults : SUBSET Checkable]

ASSUME TermsAssumption == /\ Tokens \cup Files \subseteq Terms
                          /\ Avoid \notin Terms /\ Marker \notin Terms \cup {Avoid}
ASSUME InsideAssumption == /\ Inside \in [Terms \cup {Avoid, Marker} -> SUBSET (Terms \cup {Avoid, Marker})]
                           /\ \A w \in DOMAIN Inside : w \in Inside[w]
ASSUME LexiconAssumption ==
  Lexicon \in [{"fake_success", "test_log", "url", "tool"} -> SUBSET Terms]
ASSUME ValuesAssumption == TermsOf \in [Values -> Seq(Terms) \ {<<>>}]
ASSUME TextsAssumption == Prompts \cup Drafts \subseteq Text
ASSUME ContractLimitsAssumption == {TermLimit, ClauseLimit, ContractLimit} \subseteq Nat \ {0}

VARIABLES
  stage,    \* of the run: "new", "persisted" or "ephemeral"
  prompt,
  shown,    \* the constraints elite_prepare answers with
  stored,   \* those in workflow_runs.task_contract; none when it is no JSON any more
  draft,    \* the last draft, and the verdict on it
  verdict

contractVars == <<stage, prompt, shown, stored, draft, verdict>>

-----------------------------------------------------------------------------
(* compile_task_contract                                                   *)

Constraint(kind, terms) == [kind |-> kind, terms |-> terms]
FirstOf(seq, n) == SubSeq(seq, 1, IF Len(seq) < n THEN Len(seq) ELSE n)

\* _clause_matches: what was said at which clause, each once, in the order of the
\* text and up to the limit.
ClauseMatches(said) ==
  ByKey([v \in {said[i] : i \in DOMAIN said} |-> Min({i \in DOMAIN said : said[i] = v})], ClauseLimit)

Worded(t, wordings) == {i \in DOMAIN t.clauses : t.clauses[i].wording \in wordings}
Said(t, i) == <<t.clauses[i].wording, t.clauses[i].value>>

\* Slip, for mutation: the pattern for what is wanted finds "never" too.
MustPhrasesOrNever(t) == ClauseMatches([i \in DOMAIN t.clauses |-> Said(t, i)])

\* _must_phrases: what follows a "must", the words "avoid" and "never" included;
\* "not" is too short for a term.
MustPhrases(t) == ClauseMatches([i \in Worded(t, {"must", "must avoid", "must not"}) |-> Said(t, i)])

\* _negations
Negations(t) == ClauseMatches([i \in Worded(t, {"never", "must avoid"}) |-> t.clauses[i].value])

\* The terms a constraint has of a clause.
WantedOf(said) ==
  FirstOf((IF said[1] = "must avoid" THEN <<Avoid>> ELSE <<>>) \o TermsOf[said[2]], TermLimit)
BannedOf(value) == FirstOf(TermsOf[value], TermLimit)

\* The constraints besides the clauses, in the order of the compiler.
Further(t) ==
  LET asked ==
        [max_words |-> "max_words" \in t.asks,
         format |-> "format" \in t.asks,
         scope_files |-> t.files # <<>>,
         cite_quotes |-> "research" \in t.asks,
         run_tests |-> {"code", "tests"} \subseteq t.asks,
         answer_directly |-> "simple" \in t.asks /\ t.asks \cap {"code", "research"} = {}]
      order == <<"max_words", "format", "scope_files", "cite_quotes", "run_tests", "answer_directly">>
      kinds == ByKey([n \in {m \in 1 .. 6 : asked[order[m]]} |-> n], 6)
  IN [i \in DOMAIN kinds |->
        Constraint(order[kinds[i]], IF order[kinds[i]] = "scope_files" THEN t.files ELSE <<>>)]

AllConstraints(t) ==
  [i \in DOMAIN MustPhrases(t) |-> Constraint("must_include", WantedOf(MustPhrases(t)[i]))]
  \o [i \in DOMAIN Negations(t) |-> Constraint("must_not", BannedOf(Negations(t)[i]))]
  \o Further(t)

\* What is past the limit is dropped; a text that asks for nothing is to be addressed,
\* which its first words stand for, if they are long enough.
CompileTaskContract(t) ==
  IF AllConstraints(t) = <<>> THEN <<Constraint("must_include", t.goal)>>
  ELSE FirstOf(AllConstraints(t), ContractLimit)

-----------------------------------------------------------------------------
(* check_constraint, check_draft                                           *)

\* _has_terms: a term is found wherever it is a part of a word.
Held(d) == UNION {Inside[w] : w \in d.words}
HitCount(d, terms) == Cardinality({i \in DOMAIN terms : terms[i] \in Held(d)})
Few(terms) == IF Len(terms) < 2 THEN Len(terms) ELSE 2
NoneOf(d, kind) == Held(d) \cap Lexicon[kind] = {}

\* Slip, for mutation: a draft may hold what it must not if it holds little of it.
CheckWithTwoHits(d, c) ==
  CASE c.kind = "must_include" -> HitCount(d, c.terms) >= Few(c.terms)
    [] c.kind = "must_not" -> HitCount(d, c.terms) < Few(c.terms) /\ NoneOf(d, "fake_success")
    [] c.kind = "scope_files" -> d.words \cap Files \subseteq Range(c.terms)
    [] OTHER -> c.kind \notin d.faults

CheckConstraint(d, c) ==
  CASE c.kind = "must_include" -> HitCount(d, c.terms) >= Few(c.terms)
    [] c.kind = "must_not" -> HitCount(d, c.terms) = 0 /\ NoneOf(d, "fake_success")
    [] c.kind = "scope_files" -> d.words \cap Files \subseteq Range(c.terms)
    [] c.kind = "run_tests" -> ~NoneOf(d, "test_log") /\ "run_tests" \notin d.faults
    [] c.kind = "cite_quotes" -> ~NoneOf(d, "url") /\ "cite_quotes" \notin d.faults
    [] c.kind = "answer_directly" -> NoneOf(d, "tool") /\ "answer_directly" \notin d.faults
    [] OTHER -> c.kind \notin d.faults

CheckDraft(d, contract) == \A i \in DOMAIN contract : CheckConstraint(d, contract[i])

-----------------------------------------------------------------------------
(* record_workflow_run, get_workflow_run, _resolve_contract                *)

\* redact_text runs over the JSON text of the contract. A credential that ends a
\* source span takes the quote behind it along, and the text is no JSON any more.
TornContract(t) == \E i \in DOMAIN t.clauses : t.clauses[i].secret

Redacted(c) ==
  [c EXCEPT !.terms = [i \in DOMAIN @ |-> IF @[i] \in Tokens THEN Marker ELSE @[i]]]

Persisted(t) ==
  [json |-> ~TornContract(t),
   constraints |-> [i \in DOMAIN CompileTaskContract(t) |-> Redacted(CompileTaskContract(t)[i])]]

\* _load_object: a text that is no JSON is taken for an empty contract.
GetWorkflowRun(row) == IF row.json THEN row.constraints ELSE <<>>

\* _resolve_contract, contract_from_dict: a stored contract without constraints is
\* compiled again, and so is that of a run that is not stored: from the query if the
\* host sends one, which is the prompt, otherwise from the draft itself.
Resolved(d, asked) ==
  IF stored # <<>> THEN stored ELSE CompileTaskContract(IF asked THEN prompt ELSE d)

ContractInit ==
  /\ stage = "new" /\ prompt \in Prompts
  /\ shown = <<>> /\ stored = <<>>
  /\ draft = prompt /\ verdict = "REPEAT"

BuildWorkflowRun(persist) ==
  /\ shown' = CompileTaskContract(prompt)
  /\ stored' = IF persist THEN GetWorkflowRun(Persisted(prompt)) ELSE <<>>

\* elite_prepare
PrepareRun(persist) ==
  /\ stage = "new" /\ stage' = IF persist THEN "persisted" ELSE "ephemeral"
  /\ BuildWorkflowRun(persist)
  /\ UNCHANGED <<prompt, draft, verdict>>

\* verify_outcomes, without the evidence gate. For a run that is not durable the host
\* is told to send the prompt along.
VerifyOutcomes(d, asked) ==
  /\ stage # "new" /\ (stage = "ephemeral" => asked)
  /\ draft' = d
  /\ verdict' = IF CheckDraft(d, Resolved(d, asked)) THEN "DONE" ELSE "REPEAT"
  /\ UNCHANGED <<stage, prompt, shown, stored>>

ContractNext ==
  \/ \E persist \in BOOLEAN : PrepareRun(persist)
  \/ \E d \in Drafts, asked \in BOOLEAN : VerifyOutcomes(d, asked)

ContractSpec == ContractInit /\ [][ContractNext]_contractVars
-----------------------------------------------------------------------------
IsContract(c) ==
  c \in Seq([kind : Checkable \cup {"must_include", "must_not"}, terms : Seq(Terms \cup {Avoid, Marker})])

ContractTypeOK ==
  /\ stage \in {"new", "persisted", "ephemeral"}
  /\ prompt \in Prompts /\ (draft \in Prompts \/ draft \in Drafts)
  /\ verdict \in {"DONE", "REPEAT"}
  /\ IsContract(shown) /\ IsContract(stored) /\ Len(shown) <= ContractLimit

UsesWording(t, w) == \E i \in DOMAIN t.clauses : t.clauses[i].wording = w
ClauseTerms(t, i) == Range(TermsOf[t.clauses[i].value]) \cup t.clauses[i].rest

\* Redaction finds nothing, and the limits drop nothing, in such a text.
WithoutTokens(t) ==
  /\ (Range(t.goal) \cup Range(t.files)) \cap Tokens = {}
  /\ \A i \in DOMAIN t.clauses : Range(TermsOf[t.clauses[i].value]) \cap Tokens = {}
FitsContract(t) ==
  /\ Len(t.clauses) <= ClauseLimit /\ Len(AllConstraints(t)) <= ContractLimit
  /\ ~TornContract(t) /\ WithoutTokens(t)
  /\ \A i \in DOMAIN t.clauses : t.clauses[i].rest = {} /\ Len(TermsOf[t.clauses[i].value]) <= TermLimit

\* A draft is accepted only if it does what the prompt asked for: it holds none of the
\* terms that a clause forbids, not even within a word; all of every clause that
\* wants some, or two (a term that stands there twice being two); and it passes what
\* the other constraints are about; from the words of the prompt through the stored
\* contract to the verdict (compile_task_contract, record_workflow_run, check_draft).
\* Excepted are what "must not" forbids, which the compiler takes for wanted, and
\* prompts with credentials or beyond the limits: of six terms and 80 characters of
\* a clause, six clauses, and eight constraints.
DoneMeansWhatWasAsked ==
  verdict = "DONE" /\ FitsContract(prompt) =>
    /\ \A i \in Worded(prompt, {"never", "must avoid", "must not"}) :
         ~UsesWording(prompt, "must not") => Held(draft) \cap ClauseTerms(prompt, i) = {}
    /\ \A i \in Worded(prompt, {"must"}) :
         \/ ClauseTerms(prompt, i) \subseteq Held(draft)
         \/ HitCount(draft, TermsOf[prompt.clauses[i].value]) >= 2
    /\ \A i \in DOMAIN Further(prompt) : CheckConstraint(draft, Further(prompt)[i])

\* A draft does what a text says: everything that a clause wants, nothing that one
\* forbids, and no fake success then.
Obeys(d, t) ==
  /\ \A i \in Worded(t, {"must"}) : ClauseTerms(t, i) \subseteq Held(d)
  /\ \A i \in Worded(t, {"never"}) : ClauseTerms(t, i) \cap Held(d) = {} /\ NoneOf(d, "fake_success")
  /\ \A i \in DOMAIN Further(t) : CheckConstraint(d, Further(t)[i])
  /\ AllConstraints(t) = <<>> => Range(t.goal) \subseteq Held(d)

\* The other way round, a draft that does all that the prompt says is never sent back,
\* also when the limits have dropped a part of the contract, if the host sends the
\* prompt along: no prompt is compiled into a contract that asks for more, or for the
\* opposite (compile_task_contract, _resolve_contract). Excepted are prompts that say
\* "must avoid" or "must not", where the contract does ask for the opposite, or that
\* hold a token that is redacted in the store.
ObedientDraftsPass ==
  /\ stage # "new" /\ WithoutTokens(prompt)
  /\ ~UsesWording(prompt, "must avoid") /\ ~UsesWording(prompt, "must not")
  => LET contract == Resolved(prompt, TRUE)
     IN \A d \in Drafts : Obeys(d, prompt) => CheckDraft(d, contract)

\* "Contracts contain source spans and extracted terms from the prompt. Preserve
\* the structured contract while redacting secret-like values"
\* (core/memory/persistent_store.py:1881): an accepted draft satisfies the
\* contract that the host was shown (record_workflow_run, get_workflow_run).
DoneMeetsShownContract == verdict = "DONE" => CheckDraft(draft, shown)
=============================================================================
