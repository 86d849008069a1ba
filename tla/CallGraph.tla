------------------------------- MODULE CallGraph -------------------------------
(***************************************************************************)
(* The call graph of a Python file and the blast radius of one of its      *)
(* functions: extract_call_graph and CallGraphResult.get_blast_radius.     *)
(*                                                                         *)
(* A function stands for its name; two of one name are one node of the     *)
(* graph. Calls of what the file does not define are left out. The order   *)
(* of the queue and repeats in it do not change the result, which is a     *)
(* set: the queue is one too.                                              *)
(***************************************************************************)
EXTENDS Naturals, FiniteSets

CONSTANTS
  Functions,
  MaxCallPairs   \* bound: calls in the file

ASSUME GraphAssumption == MaxCallPairs \in Nat

VARIABLES
  owner,      \* the function of the module or of a class body that a function is nested in, or itself
  unwalked,   \* functions whose bodies no walk reaches: of nested classes, under an if or a try
  written,    \* the calls in the file, caller and callee
  callers,    \* callers of each node
  modified,   \* the symbol asked for
  queue, visited

fileVars == <<owner, unwalked, written>>
graphVars == <<fileVars, callers, modified, queue, visited>>

\* A nested function can be named only within its owner.
InScope(own) == {pair \in Functions \X Functions : own[pair[2]] \in {pair[2], own[pair[1]]}}
Nestings == {own \in [Functions -> Functions] : \A f \in Functions : own[own[f]] = own[f]}

\* Slip, for mutation: only the statements of the function itself are searched.
CallersShallow(f) == {g \in Functions : <<g, f>> \in written /\ owner[g] = g /\ g \notin unwalked /\ g # f}

\* extract_call_graph: ast.walk finds the calls of nested functions as calls of
\* the function they are nested in; nothing calls itself.
CallersOf(f) ==
  {owner[g] : g \in {h \in Functions : <<h, f>> \in written /\ h \notin unwalked}} \ {f}

GraphInit ==
  /\ owner \in Nestings
  /\ unwalked \in {U \in SUBSET Functions : \A f \in Functions : owner[f] \in U <=> f \in U}
  /\ written \in {C \in SUBSET InScope(owner) : Cardinality(C) <= MaxCallPairs}
  /\ callers = [f \in Functions |-> CallersOf(f)]
  /\ modified \in Functions /\ queue = {modified} /\ visited = {}

\* One round of get_blast_radius.
Visit(f) ==
  /\ f \in queue
  /\ visited' = visited \cup {f}
  /\ queue' = (queue \cup callers[f]) \ visited'
  /\ UNCHANGED <<fileVars, callers, modified>>

GraphNext == \E f \in Functions : Visit(f)
GraphSpec == GraphInit /\ [][GraphNext]_graphVars
-----------------------------------------------------------------------------
BlastRadius == visited \ {modified}
Answered == queue = {}

GraphTypeOK ==
  /\ owner \in Nestings /\ unwalked \subseteq Functions /\ written \subseteq InScope(owner)
  /\ callers \in [Functions -> SUBSET Functions]
  /\ modified \in Functions /\ queue \subseteq Functions /\ visited \subseteq Functions

\* Functions the answer covers: those in it, and those nested in one of them.
Covered == {f \in Functions : f = modified \/ owner[f] \in visited}

\* What the answer covers is closed under the calls of all functions whose
\* bodies were walked.
CallersCovered ==
  Answered => \A call \in written : call[2] \in Covered /\ call[1] \notin unwalked => call[1] \in Covered

\* The radius lies in every set of nodes that has the modified one and the
\* graph's callers of each of its members.
RadiusIsLeast ==
  \A S \in SUBSET Functions :
    modified \in S /\ (\A f \in S : callers[f] \subseteq S) => visited \cup queue \subseteq S

\* Whatever calls the modified function, directly or through others, is in the
\* answer or nested in a function that is, unless a body on the way was not
\* walked, and nothing is in the answer that does not lead there through cycles,
\* recursion or nested functions (extract_call_graph, get_blast_radius).
RadiusIsUpstream == CallersCovered /\ RadiusIsLeast
=============================================================================
