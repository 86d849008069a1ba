---------------------------- MODULE MCTaskContracts ----------------------------
(* Prompts and drafts for TaskContracts. *)
EXTENDS TaskContracts, TLC

CONSTANTS w1, w2, w3, key, file, log, fake, avoid, marker

\* w3 is a longer word with w1 in it.
SomeInside == [w \in Terms \cup {avoid, marker} |-> IF w = w3 THEN {w1, w3} ELSE {w}]
SomeLexicon == [fake_success |-> {fake}, test_log |-> {log}, url |-> {log}, tool |-> {fake}]

\* What clauses say: with one term, the limit of two, one term twice, and more than
\* the limit; two say the same in other words.
SomeTermsOf ==
  [one |-> <<w1>>, other |-> <<w1>>, two |-> <<w1, w2>>, twice |-> <<w2, w2>>,
   three |-> <<w1, w2, w3>>, secretive |-> <<key, w2>>, noisy |-> <<log>>]

Saying(wording, value) == [wording |-> wording, value |-> value, rest |-> {}, secret |-> FALSE]
SomeClauses ==
  {Saying(w, "one") : w \in {"must", "never", "must avoid", "must not"}}
  \cup {Saying(w, v) : w \in {"must", "never"}, v \in {"two", "three", "secretive"}}
  \cup {Saying("must", "twice"), Saying("never", "noisy"), Saying("never", "other"),
        [Saying("must", "one") EXCEPT !.secret = TRUE], [Saying("never", "one") EXCEPT !.rest = {w2}]}
Singles == {<<>>} \cup {<<c>> : c \in SomeClauses}
Pairs == {<<c, d>> : c \in SomeClauses, d \in {e \in SomeClauses : e.value \in {"one", "three"}}}
\* The third clause of a pattern is beyond the limit.
Triples == {<<Saying("must", "one"), Saying("must", "twice"), c>> : c \in SomeClauses}

EveryAsk == Asks \ {"simple"}
SomeAsks == {{}, {"simple"}, {"code", "tests"}, {"research"}, EveryAsk}

Prompt(clauses, asks, files) ==
  [clauses |-> clauses, asks |-> asks, files |-> files, goal |-> <<w1, w2>>, words |-> {}, faults |-> {}]
SomePrompts ==
  {Prompt(cs, a, <<>>) : cs \in Singles, a \in SomeAsks}
  \cup {Prompt(cs, EveryAsk, <<file>>) : cs \in Singles}
  \cup {Prompt(cs, {}, <<>>) : cs \in Pairs \cup Triples}
  \cup {[Prompt(<<>>, {}, <<>>) EXCEPT !.goal = g] : g \in {<<w1, key>>, <<>>}}

Plain(words, faults) ==
  [clauses |-> <<>>, asks |-> {}, files |-> <<>>, goal |-> <<>>, words |-> words, faults |-> faults]
\* Drafts by the words they hold, those with one fault, and one that reads like a prompt.
SomeDrafts ==
  {Plain(words, {}) : words \in SUBSET {w1, w2, w3} \cup {{log}, {w1, log}, {w2, key}, {w1, w2, file}}}
  \cup {Plain({w1, w2, log} \cup more, {}) : more \in {{}, {fake}, {marker}}}
  \cup {Plain({w1, w2, log}, {f}) : f \in Checkable \ {"scope_files"}}
  \cup {[Plain({w1, w2}, {}) EXCEPT !.clauses = <<Saying("never", "one")>>]}
=============================================================================
