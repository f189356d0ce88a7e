----------------------------- MODULE MCCodeDrift -----------------------------
(* Instances of CodeDrift for TLC.                                         *)
EXTENDS CodeDrift

CONSTANTS d1, d2

(* The first commit of a repository touches what d1 governs, the second    *)
(* what both documents do.                                                 *)
Widening == [r \in Repos |-> [k \in 1 .. MaxCommits |-> IF k = 1 THEN {d1} ELSE Docs]]
=============================================================================
