------------------------------- MODULE Selections -------------------------------
(***************************************************************************)
(* The sequence that a sort or a scan makes of a set: its elements in the  *)
(* order of a key that no two of them share, and of these as many as a     *)
(* limit allows. It is defined by ranks, without recursion, so that a      *)
(* proof can tell what is in it.                                           *)
(***************************************************************************)
EXTENDS Naturals, FiniteSetsExt

\* How many keys are not above that of x.
KeyRank(key, x) == Cardinality({y \in DOMAIN key : key[y] <= key[x]})

ByKey(key, limit) ==
  [n \in 1 .. Min({Cardinality(DOMAIN key), limit}) |-> CHOOSE x \in DOMAIN key : KeyRank(key, x) = n]
=============================================================================
