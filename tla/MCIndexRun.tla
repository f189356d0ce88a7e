------------------------------ MODULE MCIndexRun ------------------------------
(* Instances of IndexRun for TLC: two documents that link to each other.   *)
EXTENDS IndexRun

(* Document 2 is removed at its last revision. *)
Removed == {<<2, MaxRev>>}

(* Document 2 does not parse at revision 1. *)
Broken == {<<2, 1>>}

(* Each links to the other, document 1 only from revision 1 on. *)
Mutual == [d \in Docs |-> [r \in Revs |-> IF d = 1 /\ r = 0 THEN {} ELSE Docs \ {d}]]
=============================================================================
