-------------------------- MODULE MCBundleCompiler --------------------------
(* Instances of BundleCompiler for TLC: histories of the one document d1.  *)
EXTENDS BundleCompiler, TLC

CONSTANTS d1, absent

(* d1 is edited and then deleted: no text recurs. *)
EditThenDelete == d1 :> (0 :> "a0" @@ 1 :> "a1" @@ 2 :> absent)

(* d1 is edited and the edit is reverted. *)
EditThenRevert == d1 :> (0 :> "a0" @@ 1 :> "a1" @@ 2 :> "a0")

NoEdits == d1 :> (0 :> "a0")

AllTexts == {"a0", "a1"}

(* Bound: a behaviour ends with the first invalidation, and no request is  *)
(* under way in it.  What follows one is explored by the run requests.     *)
UntilInvalidated == drift = "none" \/ (Invalidating /\ \A c \in Clients : pc[c] = "idle")

ClientSymmetry == Permutations(Clients)
=============================================================================
