---------------------------- MODULE AtomicRecords ----------------------------
(***************************************************************************)
(* What a transactional write of the store promises: a record has several  *)
(* parts in several tables, and no reader, then or after a crash, sees some *)
(* parts of it without the others.                                         *)
(***************************************************************************)
CONSTANTS
  Entries,  \* records
  Shapes    \* record |-> the sets of parts it may consist of

VARIABLE visible  \* pairs <<record, part>> that readers see

Absent(r) == \A x \in visible : x[1] # r

Appear(r) ==
  /\ Absent(r)
  /\ \E parts \in Shapes[r] : visible' = visible \cup ({r} \X parts)

AtomicSpec == visible = {} /\ [][\E r \in Entries : Appear(r)]_visible
=============================================================================
