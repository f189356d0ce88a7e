----------------------------- MODULE Collections ------------------------------
(***************************************************************************)
(* What the code does with slices of chunks, on their sets: sorting them   *)
(* and adding up their sizes.                                              *)
(***************************************************************************)
EXTENDS Naturals, FiniteSets, Sequences

(* sort.Slice: the elements of S in the order of R, a strict total order.  *)
SortBy(S, R) ==
    [n \in 1 .. Cardinality(S) |->
        CHOOSE x \in S : Cardinality({y \in S : <<y, x>> \in R}) = n - 1]

(* The sum of f over S, counted as that many pairs.                        *)
SumOver(f, S) == Cardinality(UNION {{x} \X (1 .. f[x]) : x \in S})
=============================================================================
