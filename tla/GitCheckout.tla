----------------------------- MODULE GitCheckout -----------------------------
(***************************************************************************)
(* The checkout of the knowledge repository (internal/gitsync/gitsync.go   *)
(* Sync) and the index run that reads it (cmd/briefd/serve.go runWith),    *)
(* with the process stopped between any two writes to the clone.  The      *)
(* remote branch moves by itself, forwards or by force pushes.             *)
(***************************************************************************)
EXTENDS Naturals

CONSTANTS
    FilePaths,      \* paths of the repository
    Commits,        \* commits the remote branch can name
    FileContents,   \* what a file can hold, no file included
    Tree,           \* Tree[c][f], the content of f in commit c
    MaxPushes,      \* bound: moves of the remote branch
    MaxStops        \* bound: errors and crashes

ASSUME TreeAssumption == Tree \in [Commits -> [FilePaths -> FileContents]]
ASSUME BoundsAssumption == MaxPushes \in Nat /\ MaxStops \in Nat

VARIABLES
    upstream,    \* the branch at the remote
    tracking,    \* refs/remotes/origin/<branch>
    branch,      \* refs/heads/<branch>, which HEAD names
    worktree,    \* the files of the clone
    indexTree,   \* the worktree as the last run indexed it
    last,        \* sync_state.last_commit
    checkoutPc,  \* next step of the run
    before,      \* Sync's local: HEAD when it began
    cut,         \* auxiliary: a reset of the worktree was cut short
    mixed,       \* auxiliary: the last run indexed a worktree cut short
    pushes, stops

checkoutVars == <<upstream, tracking, branch, worktree, indexTree, last, checkoutPc, before,
                  cut, mixed, pushes, stops>>

(* Open has cloned, and the initial run has indexed the clone.             *)
CheckoutInit ==
    /\ upstream \in Commits
    /\ tracking = upstream /\ branch = upstream /\ before = upstream /\ last = upstream
    /\ worktree = Tree[upstream] /\ indexTree = worktree
    /\ checkoutPc = "idle"
    /\ cut = FALSE /\ mixed = FALSE /\ pushes = 0 /\ stops = 0

-----------------------------------------------------------------------------
PushUpstream(c) ==
    /\ pushes < MaxPushes /\ c # upstream
    /\ upstream' = c /\ pushes' = pushes + 1
    /\ UNCHANGED <<tracking, branch, worktree, indexTree, last, checkoutPc, before, cut, mixed, stops>>

(* Sync reads HEAD, then fetches; an unmoved head needs no reset.          *)
ReadHead ==
    /\ checkoutPc = "idle"
    /\ before' = branch
    /\ checkoutPc' = "fetch"
    /\ UNCHANGED <<upstream, tracking, branch, worktree, indexTree, last, cut, mixed, pushes, stops>>

FetchComparesTracking ==
    /\ checkoutPc = "fetch"
    /\ tracking' = upstream
    /\ checkoutPc' = IF upstream = tracking THEN "index" ELSE "setBranch"
    /\ UNCHANGED <<upstream, branch, worktree, indexTree, last, before, cut, mixed, pushes, stops>>

Fetch ==
    /\ checkoutPc = "fetch"
    /\ tracking' = upstream
    /\ checkoutPc' = IF upstream = before THEN "index" ELSE "setBranch"
    /\ UNCHANGED <<upstream, branch, worktree, indexTree, last, before, cut, mixed, pushes, stops>>

SetReferenceOfHeadOnly ==
    /\ checkoutPc = "setBranch"
    /\ checkoutPc' = "reset"
    /\ UNCHANGED <<upstream, tracking, branch, worktree, indexTree, last, before, cut, mixed, pushes, stops>>

(* The branch is moved first ...                                           *)
SetReference ==
    /\ checkoutPc = "setBranch"
    /\ branch' = tracking
    /\ checkoutPc' = "reset"
    /\ UNCHANGED <<upstream, tracking, worktree, indexTree, last, before, cut, mixed, pushes, stops>>

(* ... then Checkout and Reset write the files that differ, one by one.    *)
WriteFile(f) ==
    /\ checkoutPc = "reset" /\ worktree[f] # Tree[tracking][f]
    /\ worktree' = [worktree EXCEPT ![f] = Tree[tracking][f]]
    /\ UNCHANGED <<upstream, tracking, branch, indexTree, last, checkoutPc, before, cut, mixed, pushes, stops>>

ResetNotAwaited ==
    /\ checkoutPc = "reset"
    /\ cut' = FALSE
    /\ checkoutPc' = "index"
    /\ UNCHANGED <<upstream, tracking, branch, worktree, indexTree, last, before, mixed, pushes, stops>>

ResetDone ==
    /\ checkoutPc = "reset" /\ worktree = Tree[tracking]
    /\ cut' = FALSE
    /\ checkoutPc' = "index"
    /\ UNCHANGED <<upstream, tracking, branch, worktree, indexTree, last, before, mixed, pushes, stops>>

(* The run indexes the files under the commit Sync returned.               *)
Index ==
    /\ checkoutPc = "index"
    /\ indexTree' = worktree /\ last' = branch /\ mixed' = cut
    /\ checkoutPc' = "idle"
    /\ UNCHANGED <<upstream, tracking, branch, worktree, before, cut, pushes, stops>>

(* A call fails or the process dies; the clone stays as it is.  A run that *)
(* stops while it indexes leaves the index to IndexRun.                    *)
Stop ==
    /\ checkoutPc # "idle"
    /\ stops < MaxStops /\ stops' = stops + 1
    /\ cut' = (cut \/ checkoutPc = "reset")
    /\ checkoutPc' = "idle"
    /\ UNCHANGED <<upstream, tracking, branch, worktree, indexTree, last, before, mixed, pushes>>

-----------------------------------------------------------------------------
SyncStep ==
    \/ ReadHead \/ Fetch \/ SetReference
    \/ \E f \in FilePaths : WriteFile(f)
    \/ ResetDone \/ Index

CheckoutNext == SyncStep \/ Stop \/ \E c \in Commits : PushUpstream(c)

CheckoutSpec == CheckoutInit /\ [][CheckoutNext]_checkoutVars

(* The ticker starts runs for ever, and the calls of a run return.         *)
CheckoutFairness == WF_checkoutVars(SyncStep)

CheckoutFairSpec == CheckoutSpec /\ CheckoutFairness

-----------------------------------------------------------------------------
(* Type invariant.  In particular whatever is reset to, or indexed under,  *)
(* is what was fetched.                                                    *)
CheckoutTypeOK ==
    /\ {upstream, tracking, branch, before, last} \subseteq Commits
    /\ worktree \in [FilePaths -> FileContents] /\ indexTree \in [FilePaths -> FileContents]
    /\ checkoutPc \in {"idle", "fetch", "setBranch", "reset", "index"}
    /\ checkoutPc \in {"reset", "index"} => branch = tracking
    /\ cut \in BOOLEAN /\ mixed \in BOOLEAN
    /\ pushes \in 0 .. MaxPushes /\ stops \in 0 .. MaxStops

(* The index is exactly the tree of the commit it is labelled with, through*)
(* force pushes, failed fetches and crashes anywhere (gitsync.go:197-246), *)
(* unless a run was stopped between moving the branch and the end of the   *)
(* reset; once a later reset completes nothing of it remains.              *)
OnlyACutResetMislabels ==
    /\ mixed \/ indexTree = Tree[last]
    /\ checkoutPc = "index" => cut \/ worktree = Tree[branch]

(* Once faults and pushes stop, the index follows the remote branch, a run *)
(* that failed after its fetch included: what was fetched but not reset to *)
(* is seen again, as Sync compares with HEAD and not with the tracking ref.*)
FollowsTheRemote ==
    <>[](~cut => indexTree = Tree[upstream] /\ last = upstream)

(* gitsync.go:195 and 233-234: Sync hard-resets the checkout to the remote *)
(* branch, so what is indexed next is that commit and nothing else.        *)
CheckoutIsTheCommit ==
    checkoutPc = "index" => worktree = Tree[branch]
=============================================================================
