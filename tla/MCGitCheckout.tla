---------------------------- MODULE MCGitCheckout ----------------------------
(* An instance of GitCheckout for TLC: two files, three commits, of which  *)
(* the last deletes one file and restores the other.                       *)
EXTENDS GitCheckout, TLC

CONSTANTS f1, f2, none

TwoFiles == {f1, f2}

ThreeCommits == 1 :> (f1 :> "v1" @@ f2 :> "v1")
             @@ 2 :> (f1 :> "v2" @@ f2 :> "v2")
             @@ 3 :> (f1 :> "v1" @@ f2 :> none)

TheirContents == {"v1", "v2", none}
=============================================================================
