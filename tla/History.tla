------------------------------- MODULE History -------------------------------
(***************************************************************************)
(* The two walks through a repository's history (internal/gitsync          *)
(* LastModified and ChangesSince): newest first by committer time, where a *)
(* clock may be wrong, branches are merged and a merge may keep one side.  *)
(* Documents get their age from the one, drift is counted from the other.  *)
(*                                                                         *)
(* A call walks the history it finds at HEAD, which is the last commit.    *)
(***************************************************************************)
EXTENDS Naturals, FiniteSets, Sequences, SequencesExt

CONSTANTS
    Histories,   \* histories: parents, committer time and files of each commit
    Paths,       \* paths in them, and those asked for
    Sinces,      \* values of since
    Caps,        \* values of maxCommits, 0 for no cap
    NoCall       \* no walk yet

(* A history is [parents, when, files]; files[c][p] is the blob of p, 0 for*)
(* no file.                                                                *)
ASSUME HistoriesAssumption ==
    /\ Sinces \subseteq Nat /\ Caps \subseteq Nat
    /\ \A h \in Histories :
          /\ h.parents \in Seq(SUBSET Nat) /\ h.parents # <<>>
          /\ \A c \in DOMAIN h.parents : h.parents[c] \subseteq 1 .. c - 1
          /\ h.when \in [DOMAIN h.parents -> Nat \ {0}]
          /\ h.files \in [DOMAIN h.parents -> [Paths -> Nat]]

VARIABLES
    call,        \* the walk: its arguments and the history
    walk,        \* "idle", "walking", "done" or "failed"
    frontier,    \* the iterator's heap
    seen,        \* the iterator's visited commits
    want,        \* LastModified: paths without a date
    dates,       \* LastModified: the result, 0 for absent
    changes,     \* ChangesSince: the commits so far
    truncated    \* ChangesSince: the cap ended the walk

historyVars == <<call, walk, frontier, seen, want, dates, changes, truncated>>

HistoryInit ==
    /\ call = NoCall /\ walk = "idle"
    /\ frontier = {} /\ seen = {} /\ want = {}
    /\ dates = [p \in Paths |-> 0]
    /\ changes = <<>> /\ truncated = FALSE

(* changedPaths: what differs from every parent, or is there at the root.  *)
ChangedFromAny(h, c) ==
    {p \in Paths : IF h.parents[c] = {} THEN h.files[c][p] # 0
                   ELSE \E b \in h.parents[c] : h.files[b][p] # h.files[c][p]}
ChangedPaths(h, c) ==
    {p \in Paths : IF h.parents[c] = {} THEN h.files[c][p] # 0
                   ELSE \A b \in h.parents[c] : h.files[b][p] # h.files[c][p]}

Start(kind, h, since, cap) ==
    /\ walk = "idle" /\ walk' = "walking"
    /\ call' = [kind |-> kind, history |-> h, since |-> since, cap |-> cap]
    /\ frontier' = {Cardinality(DOMAIN h.parents)}
    /\ want' = IF kind = "LastModified" THEN Paths ELSE {}
    /\ UNCHANGED <<seen, dates, changes, truncated>>

AskLastModified(h) == Start("LastModified", h, 0, 0)
AskChangesSince(h, since, cap) == Start("ChangesSince", h, since, cap)

(* The iterator pops the newest commit it holds, then holds its parents.   *)
Pop(c) ==
    /\ walk = "walking" /\ c \in frontier
    /\ \A d \in frontier : call.history.when[d] <= call.history.when[c]
    /\ seen' = seen \union {c}
    /\ frontier' = (frontier \union call.history.parents[c]) \ seen'

LastModified(c) ==
    /\ call # NoCall /\ call.kind = "LastModified"
    /\ Pop(c)
    /\ LET changed == ChangedPaths(call.history, c) \intersect want
       IN  /\ dates' = [p \in Paths |-> IF p \in changed THEN call.history.when[c] ELSE dates[p]]
           /\ want' = want \ changed
    /\ walk' = IF want' = {} \/ frontier' = {} THEN "done" ELSE "walking"
    /\ UNCHANGED <<call, changes, truncated>>

Capped == call.cap > 0 /\ Len(changes) >= call.cap

SkipOld(c) ==
    /\ call # NoCall /\ call.kind = "ChangesSince"
    /\ Pop(c)
    /\ LET old == call.history.when[c] <= call.since
       IN  /\ truncated' = (~old /\ Capped)
           /\ changes' = IF old \/ Capped THEN changes ELSE Append(changes, c)
           /\ walk' = IF (~old /\ Capped) \/ frontier' = {} THEN "done" ELSE "walking"
    /\ UNCHANGED <<call, want, dates>>
ChangesSince(c) ==
    /\ call # NoCall /\ call.kind = "ChangesSince"
    /\ Pop(c)
    /\ LET old == call.history.when[c] <= call.since
       IN  /\ truncated' = (~old /\ Capped)
           /\ changes' = IF old \/ Capped THEN changes ELSE Append(changes, c)
           /\ walk' = IF old \/ Capped \/ frontier' = {} THEN "done" ELSE "walking"
    /\ UNCHANGED <<call, want, dates>>

(* A missing object or a cancelled context: the result is dropped.         *)
WalkFails ==
    /\ walk = "walking" /\ walk' = "failed"
    /\ UNCHANGED <<call, frontier, seen, want, dates, changes, truncated>>

HistoryNext ==
    \/ walk = "idle" /\ \E h \in Histories :
         \/ AskLastModified(h)
         \/ \E since \in Sinces, cap \in Caps : AskChangesSince(h, since, cap)
    \/ \E c \in frontier : LastModified(c) \/ ChangesSince(c)
    \/ WalkFails

HistorySpec == HistoryInit /\ [][HistoryNext]_historyVars

-----------------------------------------------------------------------------
(* The commits reached from HEAD through commits of ok: what every set     *)
(* has that has HEAD and the parents of its members, as far as they are ok.*)
Closed(h, ok, S) ==
    /\ {Cardinality(DOMAIN h.parents)} \intersect ok \subseteq S
    /\ \A c \in S : h.parents[c] \intersect ok \subseteq S
Reached(h, ok) ==
    {c \in ok : \A S \in SUBSET DOMAIN h.parents : Closed(h, ok, S) => c \in S}

(* No commit is older than one of its parents.                             *)
ClocksAgree(h) == \A c \in DOMAIN h.parents : \A b \in h.parents[c] : h.when[b] <= h.when[c]

(* A blob of p that no parent of c has; at the root, any.                  *)
Introduces(h, c, p) ==
    h.files[c][p] \notin {h.files[b][p] : b \in h.parents[c]}
                           \union (IF h.parents[c] = {} THEN {0} ELSE {})

(* LastModified dates a path by the newest commit on any side of a merge   *)
(* that differs from its parents in it, and leaves out only what never     *)
(* changed; clocks that disagree can only make it pick another such commit *)
(* (gitsync.go:501-511).                                                   *)
DatesAreTheNewest ==
    walk = "done" /\ call.kind = "LastModified" =>
        LET h == call.history
        IN  \A p \in Paths :
              LET times == {h.when[c] : c \in {c \in Reached(h, DOMAIN h.when) :
                                                  Introduces(h, c, p)}}
              IN  /\ dates[p] \in times \union {0} /\ (dates[p] = 0 <=> times = {})
                  /\ ClocksAgree(h) => \A t \in times : t <= dates[p]

(* A walk that was not truncated lists exactly the newer commits that can  *)
(* be reached through newer ones: one is missed only behind a commit whose *)
(* clock was wrong.  One that was has exactly maxCommits of them, and with *)
(* good clocks no newer one is missing (gitsync.go:614-650).               *)
MissedOnlyBehindAnOldClock ==
    walk = "done" /\ call.kind = "ChangesSince" =>
        LET h == call.history
            newer == Reached(h, {c \in DOMAIN h.when : h.when[c] > call.since})
        IN  /\ ~truncated => ToSet(changes) = newer
            /\ truncated => /\ ToSet(changes) \subseteq newer
                            /\ Len(changes) = call.cap /\ Cardinality(newer) > call.cap
                            /\ ClocksAgree(h) => \A c \in newer \ ToSet(changes), d \in ToSet(changes) :
                                                    h.when[c] <= h.when[d]
            /\ IsInjective(changes)
=============================================================================
