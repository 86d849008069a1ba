----------------------------- MODULE GatePromise -----------------------------
(***************************************************************************)
(* What the evidence gate promises to whoever reads its answers, without   *)
(* rows, windows, handlers or crashes: checks are proved one at a time and *)
(* stay proved; an outcome is accepted only on digests that the checks the *)
(* contract needs are proved of at that moment; and a host hears "done"    *)
(* only once an outcome was accepted. A host may later hear otherwise.     *)
(***************************************************************************)
CONSTANTS
  Hosts,   \* who is told what to do next
  Proofs,  \* pairs <<check, digest>> that can be proved
  Digests  \* what an accepted outcome may have been compared with

VARIABLES
  needs,   \* checks the contract asks for
  proved,  \* what has been proved so far
  relied,  \* the last accepted outcome: the digests it relies on, and whether
           \* the request named the project (if not, no bound syntax is asked)
  told     \* hosts that were last told "done"

promiseVars == <<needs, proved, relied, told>>

PromiseInit == proved = {} /\ relied = {} /\ told = {}

Prove(p) == proved' = proved \cup {p} /\ UNCHANGED <<needs, relied, told>>

Covered(named, digests) ==
  \A check \in needs \ (IF named THEN {} ELSE {"syntax"}) :
    \E d \in digests : <<check, d>> \in proved

Accept(named, digests) ==
  /\ Covered(named, digests)
  /\ relied' = {[named |-> named, digests |-> digests]}
  /\ UNCHANGED <<needs, proved, told>>

TellDone(h) == relied # {} /\ told' = told \cup {h} /\ UNCHANGED <<needs, proved, relied>>

TellMore(h) == told' = told \ {h} /\ UNCHANGED <<needs, proved, relied>>

\* Proving or accepting the same again shows nothing.
PromiseNext ==
  \/ proved' # proved /\ \E p \in Proofs : Prove(p)
  \/ relied' # relied /\ \E named \in BOOLEAN, digests \in SUBSET Digests : Accept(named, digests)
  \/ told' # told /\ \E h \in Hosts : TellDone(h) \/ TellMore(h)

PromiseSpec == PromiseInit /\ [][PromiseNext]_promiseVars
=============================================================================
