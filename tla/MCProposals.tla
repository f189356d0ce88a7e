----------------------------- MODULE MCProposals -----------------------------
(* An instance of Proposals for TLC: all calls propose the same text.      *)
EXTENDS Proposals, TLC

CONSTANTS p1, p2

SameText == p1 :> "new" @@ p2 :> "new"
=============================================================================
