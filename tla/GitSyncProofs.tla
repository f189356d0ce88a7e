--------------------------- MODULE GitSyncProofs ----------------------------
(***************************************************************************)
(* Repositories.  What the index may be labelled with, for any repository, *)
(* any commits, any number of force pushes and any number of faults; and   *)
(* what a walk through a history finds, for any history, clocks, paths and *)
(* caps.                                                                   *)
(***************************************************************************)
EXTENDS GitCheckout, History, FunctionTheorems, FiniteSetTheorems, TLAPS

-----------------------------------------------------------------------------
(* The checkout.                                                           *)

(* Sync compares the fetched head with HEAD as it read it, and nothing     *)
(* moves HEAD in between; away from a reset the worktree is that of HEAD,  *)
(* or a reset was cut short and none completed since.                      *)
CheckoutInv ==
    /\ CheckoutTypeOK
    /\ checkoutPc = "fetch" => before = branch
    /\ mixed \/ indexTree = Tree[last]
    /\ checkoutPc # "reset" => cut \/ worktree = Tree[branch]

LEMMA InitCheckout == CheckoutInit => CheckoutInv
<1> SUFFICES ASSUME CheckoutInit PROVE CheckoutInv
  OBVIOUS
<1> USE BoundsAssumption, TreeAssumption
<1>1. Tree[upstream] \in [FilePaths -> FileContents]
  BY DEF CheckoutInit
<1>2. CheckoutTypeOK
  <2>1. cut \in BOOLEAN /\ mixed \in BOOLEAN
    BY Zenon DEF CheckoutInit
  <2>2. pushes \in 0 .. MaxPushes /\ stops \in 0 .. MaxStops
    BY DEF CheckoutInit
  <2>3. {upstream, tracking, branch, before, last} \subseteq Commits
    BY DEF CheckoutInit
  <2>4. /\ worktree \in [FilePaths -> FileContents] /\ indexTree \in [FilePaths -> FileContents]
        /\ checkoutPc = "idle"
    BY <1>1 DEF CheckoutInit
  <2>5. QED
    BY <2>1, <2>2, <2>3, <2>4 DEF CheckoutTypeOK
<1>3. QED
  BY <1>2 DEF CheckoutInit, CheckoutInv

(* The bookkeeping of the model: fault and push counters stay in bounds.   *)
LEMMA Counters ==
    ASSUME CheckoutTypeOK, [CheckoutNext]_checkoutVars
    PROVE  pushes' \in 0 .. MaxPushes /\ stops' \in 0 .. MaxStops
<1> USE BoundsAssumption DEF CheckoutTypeOK
<1>1. CASE Stop
  BY <1>1 DEF Stop
<1>2. CASE \E c \in Commits : PushUpstream(c)
  BY <1>2 DEF PushUpstream
<1>3. CASE SyncStep
  BY <1>3 DEF SyncStep, ReadHead, Fetch, SetReference, WriteFile, ResetDone, Index
<1>4. CASE UNCHANGED checkoutVars
  BY <1>4 DEF checkoutVars
<1>5. QED
  BY <1>1, <1>2, <1>3, <1>4 DEF CheckoutNext

LEMMA NextCheckout ==
    ASSUME CheckoutInv, [CheckoutNext]_checkoutVars
    PROVE  CheckoutInv'
<1> USE TreeAssumption
<1>0. CheckoutTypeOK /\ pushes' \in 0 .. MaxPushes /\ stops' \in 0 .. MaxStops
  BY Counters DEF CheckoutInv
<1>1. CASE ReadHead
  BY <1>0, <1>1 DEF ReadHead, CheckoutInv, CheckoutTypeOK
<1>2. CASE Fetch
  BY <1>0, <1>2 DEF Fetch, CheckoutInv, CheckoutTypeOK
<1>3. CASE SetReference
  BY <1>0, <1>3 DEF SetReference, CheckoutInv, CheckoutTypeOK
<1>4. ASSUME NEW f \in FilePaths, WriteFile(f)
      PROVE  CheckoutInv'
  <2>1. Tree[tracking] \in [FilePaths -> FileContents]
    BY <1>0 DEF CheckoutTypeOK
  <2>2. Tree[tracking][f] \in FileContents
    BY <2>1
  <2>3. worktree' \in [FilePaths -> FileContents]
    BY <1>0, <1>4, <2>2 DEF WriteFile, CheckoutTypeOK
  <2>4. QED
    BY <1>0, <1>4, <2>3 DEF WriteFile, CheckoutInv, CheckoutTypeOK
<1>5. CASE ResetDone
  <2>1. worktree = Tree[branch] /\ branch' = branch /\ worktree' = worktree
    BY <1>0, <1>5 DEF ResetDone, CheckoutTypeOK
  <2>2. QED
    BY <1>0, <1>5, <2>1 DEF ResetDone, CheckoutInv, CheckoutTypeOK
<1>6. CASE Index
  <2>1. cut \/ worktree = Tree[branch]
    BY <1>6 DEF Index, CheckoutInv
  <2>2. QED
    BY <1>0, <1>6, <2>1 DEF Index, CheckoutInv, CheckoutTypeOK
<1>7. CASE Stop
  BY <1>0, <1>7 DEF Stop, CheckoutInv, CheckoutTypeOK
<1>8. ASSUME NEW c \in Commits, PushUpstream(c)
      PROVE  CheckoutInv'
  BY <1>0, <1>8 DEF PushUpstream, CheckoutInv, CheckoutTypeOK
<1>9. CASE UNCHANGED checkoutVars
  BY <1>0, <1>9 DEF checkoutVars, CheckoutInv, CheckoutTypeOK
<1>10. QED
  BY <1>1, <1>2, <1>3, <1>4, <1>5, <1>6, <1>7, <1>8, <1>9 DEF CheckoutNext, SyncStep

LEMMA CheckoutInvariant == CheckoutSpec => []CheckoutInv
  BY InitCheckout, NextCheckout, PTL DEF CheckoutSpec

(* Type correctness.  In particular what is reset to, and what is indexed  *)
(* under, is always what was last fetched (gitsync.go:206-245).            *)
THEOREM CheckoutTypes == CheckoutSpec => []CheckoutTypeOK
<1>1. CheckoutInv => CheckoutTypeOK
  BY DEF CheckoutInv
<1>2. QED
  BY <1>1, CheckoutInvariant, PTL

(* The index is the tree of the commit it is labelled with unless a reset  *)
(* was cut short and no later one completed, whatever is pushed and        *)
(* wherever runs fail or stop (gitsync.go:197-246).                        *)
THEOREM LabelsAreTrees == CheckoutSpec => []OnlyACutResetMislabels
<1>1. CheckoutInv => OnlyACutResetMislabels
  BY DEF CheckoutInv, OnlyACutResetMislabels
<1>2. QED
  BY <1>1, CheckoutInvariant, PTL

(* The safety half of FollowsTheRemote: a run during which the remote      *)
(* branch did not move after its fetch ends with the remote's head as last *)
(* commit and, unless its worktree was cut short, with that commit's files *)
(* as the index, whatever earlier runs left behind (gitsync.go:197-246).   *)
THEOREM CompletedRunFollows ==
    CheckoutSpec => [][Index /\ tracking = upstream =>
                   last' = upstream /\ (~cut => indexTree' = Tree[upstream])]_checkoutVars
<1>1. ASSUME CheckoutInv, Index, tracking = upstream
      PROVE  last' = upstream /\ (~cut => indexTree' = Tree[upstream])
  <2>1. checkoutPc = "index" /\ indexTree' = worktree /\ last' = branch
    BY <1>1 DEF Index
  <2>2. branch = upstream /\ (cut \/ worktree = Tree[branch])
    BY <1>1, <2>1 DEF CheckoutInv, CheckoutTypeOK
  <2> QED BY <2>1, <2>2
<1>2. CheckoutInv /\ [CheckoutNext]_checkoutVars =>
        [Index /\ tracking = upstream =>
            last' = upstream /\ (~cut => indexTree' = Tree[upstream])]_checkoutVars
  BY <1>1
<1> QED BY <1>2, CheckoutInvariant, PTL DEF CheckoutSpec

-----------------------------------------------------------------------------
(* The walks through a history.                                            *)

CommitsOf(h) == DOMAIN h.parents
Tip(h)    == Cardinality(CommitsOf(h))
Newer(h, since) == {c \in DOMAIN h.when : h.when[c] > since}

(* The walk over a history h: everything but the frontier was followed, and*)
(* with good clocks nothing that is left is newer than what was seen.      *)
Walked(h) ==
    /\ seen \subseteq Reached(h, CommitsOf(h)) /\ frontier \subseteq Reached(h, CommitsOf(h))
    /\ seen \intersect frontier = {}
    /\ Tip(h) \in seen \union frontier
    /\ \A c \in seen : h.parents[c] \subseteq seen \union frontier
    /\ ClocksAgree(h) => \A c \in seen, d \in Reached(h, CommitsOf(h)) \ seen : h.when[d] <= h.when[c]

(* The date of a path is that of the first commit seen that introduced it. *)
Dated(h, p) ==
    IF p \in want
      THEN dates[p] = 0 /\ \A c \in seen : ~Introduces(h, c, p)
      ELSE \E c \in seen : /\ Introduces(h, c, p) /\ dates[p] = h.when[c]
                           /\ ClocksAgree(h) =>
                                \A d \in Reached(h, CommitsOf(h)) : Introduces(h, d, p) => h.when[d] <= h.when[c]

(* The changes of a walk under way are what it has seen.                   *)
Listed(h) ==
    /\ ToSet(changes) = seen /\ IsInjective(changes) /\ changes \in Seq(CommitsOf(h))
    /\ call.cap > 0 => Len(changes) <= call.cap
    /\ seen \subseteq Reached(h, Newer(h, call.since))
    /\ frontier \intersect Newer(h, call.since) \subseteq Reached(h, Newer(h, call.since))

HistoryInv ==
    /\ walk \in {"idle", "walking", "done", "failed"}
    /\ walk = "idle" => seen = {} /\ changes = <<>> /\ dates = [p \in Paths |-> 0]
    /\ walk \in {"walking", "done"} =>
          /\ call \in [kind : {"LastModified", "ChangesSince"}, history : Histories, since : Nat, cap : Nat]
          /\ call.kind = "LastModified" =>
                /\ Walked(call.history) /\ \A p \in Paths : Dated(call.history, p)
                /\ want \subseteq Paths
                /\ walk = "done" => want = {} \/ frontier = {}
          /\ call.kind = "ChangesSince" /\ walk = "walking" =>
                Walked(call.history) /\ Listed(call.history)
    /\ MissedOnlyBehindAnOldClock

-----------------------------------------------------------------------------
(* Histories and what is reached in them.                                  *)

LEMMA HistoryType ==
    ASSUME NEW h \in Histories
    PROVE  /\ CommitsOf(h) = 1 .. Tip(h) /\ Tip(h) \in CommitsOf(h) /\ IsFiniteSet(CommitsOf(h))
           /\ DOMAIN h.when = CommitsOf(h)
           /\ \A c \in CommitsOf(h) : h.when[c] \in Nat \ {0} /\ h.parents[c] \subseteq CommitsOf(h)
           /\ \A c \in CommitsOf(h), p \in Paths : h.files[c][p] \in Nat
<1>1. /\ h.parents \in Seq(SUBSET Nat) /\ h.parents # <<>>
      /\ \A c \in DOMAIN h.parents : h.parents[c] \subseteq 1 .. c - 1
      /\ h.when \in [DOMAIN h.parents -> Nat \ {0}]
      /\ h.files \in [DOMAIN h.parents -> [Paths -> Nat]]
  BY HistoriesAssumption
<1>2. PICK n \in Nat : DOMAIN h.parents = 1 .. n /\ n > 0
  <2>1. Len(h.parents) \in Nat /\ DOMAIN h.parents = 1 .. Len(h.parents) /\ Len(h.parents) > 0
    BY <1>1
  <2> QED BY <2>1
<1>3. IsFiniteSet(1 .. n) /\ Cardinality(1 .. n) = n
  BY <1>2, FS_Interval
<1>4. CommitsOf(h) = 1 .. n /\ Tip(h) = n
  BY <1>2, <1>3 DEF CommitsOf, Tip
<1>5. \A c \in 1 .. n : h.parents[c] \subseteq 1 .. n
  <2> SUFFICES ASSUME NEW c \in 1 .. n, NEW b \in h.parents[c] PROVE b \in 1 .. n
    OBVIOUS
  <2>1. b \in 1 .. c - 1
    BY <1>1, <1>2
  <2> QED BY <1>2, <2>1
<1> QED BY <1>1, <1>2, <1>3, <1>4, <1>5

LEMMA ReachedIs ==
    ASSUME NEW h \in Histories, NEW ok \in SUBSET CommitsOf(h)
    PROVE  /\ Reached(h, ok) \subseteq ok
           /\ Tip(h) \in ok => Tip(h) \in Reached(h, ok)
           /\ \A c \in Reached(h, ok) : h.parents[c] \intersect ok \subseteq Reached(h, ok)
           /\ \A S \in SUBSET CommitsOf(h) : Closed(h, ok, S) => Reached(h, ok) \subseteq S
<1>1. \A S \in SUBSET CommitsOf(h) : Closed(h, ok, S) => Reached(h, ok) \subseteq S
  BY DEF Reached, CommitsOf
<1>2. ASSUME Tip(h) \in ok PROVE Tip(h) \in Reached(h, ok)
  BY <1>2 DEF Reached, Closed, Tip, CommitsOf
<1>3. ASSUME NEW c \in Reached(h, ok), NEW b \in h.parents[c] \intersect ok PROVE b \in Reached(h, ok)
  BY <1>3 DEF Reached, Closed
<1> QED BY <1>1, <1>2, <1>3 DEF Reached

LEMMA AllReached ==
    ASSUME NEW h \in Histories
    PROVE  /\ Reached(h, CommitsOf(h)) \subseteq CommitsOf(h)
           /\ Tip(h) \in Reached(h, CommitsOf(h))
           /\ \A c \in Reached(h, CommitsOf(h)) : h.parents[c] \subseteq Reached(h, CommitsOf(h))
           /\ \A S \in SUBSET CommitsOf(h) :
                 Tip(h) \in S /\ (\A c \in S : h.parents[c] \subseteq S) => Reached(h, CommitsOf(h)) \subseteq S
           /\ \A since \in Nat : Reached(h, Newer(h, since)) \subseteq Reached(h, CommitsOf(h))
<1> DEFINE All == Reached(h, CommitsOf(h))
<1>1. /\ All \subseteq CommitsOf(h) /\ Tip(h) \in All
      /\ \A c \in All : h.parents[c] \subseteq All
      /\ \A S \in SUBSET CommitsOf(h) : Closed(h, CommitsOf(h), S) => All \subseteq S
  <2>1. /\ All \subseteq CommitsOf(h)
        /\ Tip(h) \in CommitsOf(h) => Tip(h) \in All
        /\ \A c \in All : h.parents[c] \intersect CommitsOf(h) \subseteq All
        /\ \A S \in SUBSET CommitsOf(h) : Closed(h, CommitsOf(h), S) => All \subseteq S
    BY ReachedIs
  <2> HIDE DEF All
  <2> QED BY <2>1, HistoryType
<1> HIDE DEF All
<1>2. ASSUME NEW S \in SUBSET CommitsOf(h), Tip(h) \in S, \A c \in S : h.parents[c] \subseteq S
      PROVE  All \subseteq S
  <2>1. Closed(h, CommitsOf(h), S)
    BY <1>2 DEF Closed, Tip, CommitsOf
  <2> QED BY <1>1, <2>1
<1>3. ASSUME NEW since \in Nat PROVE Reached(h, Newer(h, since)) \subseteq All
  <2>1. Newer(h, since) \in SUBSET CommitsOf(h)
    BY HistoryType DEF Newer
  <2>2. Closed(h, Newer(h, since), All)
    BY <1>1 DEF Closed, Tip, CommitsOf
  <2>3. All \in SUBSET CommitsOf(h)
    BY <1>1
  <2> QED BY <2>1, <2>2, <2>3, ReachedIs
<1> QED BY <1>1, <1>2, <1>3 DEF All

-----------------------------------------------------------------------------
(* One commit popped.                                                      *)
LEMMA PopWalks ==
    ASSUME NEW h \in Histories, Walked(h), NEW c \in frontier,
           \A d \in frontier : h.when[d] <= h.when[c],
           seen' = seen \union {c},
           frontier' = (frontier \union h.parents[c]) \ seen'
    PROVE  /\ Walked(h)' /\ c \notin seen
           /\ frontier' = {} => Reached(h, CommitsOf(h)) \subseteq seen'
           /\ ClocksAgree(h) => \A d \in Reached(h, CommitsOf(h)) \ seen : h.when[d] <= h.when[c]
<1> DEFINE All == Reached(h, CommitsOf(h))
<1>1. /\ seen \subseteq All /\ frontier \subseteq All /\ seen \intersect frontier = {}
      /\ Tip(h) \in seen \union frontier
      /\ \A b \in seen : h.parents[b] \subseteq seen \union frontier
      /\ ClocksAgree(h) => \A b \in seen, d \in All \ seen : h.when[d] <= h.when[b]
  BY DEF Walked
<1>2. /\ All \subseteq CommitsOf(h)
      /\ \A b \in All : h.parents[b] \subseteq All
      /\ \A S \in SUBSET CommitsOf(h) :
            Tip(h) \in S /\ (\A b \in S : h.parents[b] \subseteq S) => All \subseteq S
  BY AllReached
<1> HIDE DEF All
<1>3. \A b \in All : h.when[b] \in Nat
  BY <1>2, HistoryType
<1>4. c \in All /\ c \notin seen
  BY <1>1
<1>5. seen' \subseteq All /\ frontier' \subseteq All /\ seen' \intersect frontier' = {}
  BY <1>1, <1>2, <1>4
<1>6. Tip(h) \in seen' \union frontier'
  BY <1>1
<1>7. \A b \in seen' : h.parents[b] \subseteq seen' \union frontier'
  BY <1>1
<1>8. ASSUME ClocksAgree(h), NEW d \in All \ seen PROVE h.when[d] <= h.when[c]
  <2> DEFINE S == seen \union {x \in All : h.when[x] <= h.when[c]}
  <2>1. S \in SUBSET CommitsOf(h) /\ Tip(h) \in S
    BY <1>1, <1>2
  <2>2. ASSUME NEW b \in S, NEW x \in h.parents[b] PROVE x \in S
    <3>1. CASE b \in seen
      BY <1>1, <2>2, <3>1
    <3>2. CASE b \notin seen
      <4>1. b \in All /\ h.when[b] <= h.when[c] /\ x \in All
        BY <1>2, <2>2, <3>2
      <4>2. h.when[x] <= h.when[b]
        BY <1>2, <1>8, <2>2, <4>1 DEF ClocksAgree, CommitsOf
      <4> QED BY <1>3, <1>4, <4>1, <4>2
    <3> QED BY <3>1, <3>2
  <2>3. All \subseteq S
    BY <1>2, <2>1, <2>2
  <2> QED BY <2>3
<1>9. ASSUME ClocksAgree(h), NEW b \in seen', NEW d \in All \ seen' PROVE h.when[d] <= h.when[b]
  BY <1>1, <1>8, <1>9
<1>10. ASSUME frontier' = {} PROVE All \subseteq seen'
  BY <1>2, <1>5, <1>6, <1>7, <1>10
<1> QED BY <1>4, <1>5, <1>6, <1>7, <1>8, <1>9, <1>10 DEF Walked, All

LEMMA ChangedIsIntroduced ==
    ASSUME NEW h \in Histories, NEW c \in CommitsOf(h), NEW p \in Paths
    PROVE  p \in ChangedPaths(h, c) <=> Introduces(h, c, p)
BY DEF ChangedPaths, Introduces

LEMMA InSet ==
    ASSUME NEW S, NEW s \in Seq(S), NEW x \in S
    PROVE  /\ ToSet(s) \subseteq S /\ ToSet(Append(s, x)) = ToSet(s) \union {x}
           /\ Append(s, x) \in Seq(S) /\ Len(Append(s, x)) = Len(s) + 1
           /\ IsInjective(s) /\ x \notin ToSet(s) => IsInjective(Append(s, x))
<1>1. /\ Append(s, x) \in Seq(S) /\ Len(Append(s, x)) = Len(s) + 1 /\ Len(s) \in Nat
      /\ DOMAIN s = 1 .. Len(s) /\ DOMAIN Append(s, x) = 1 .. Len(s) + 1
      /\ \A i \in 1 .. Len(s) : Append(s, x)[i] = s[i] /\ s[i] \in S
      /\ Append(s, x)[Len(s) + 1] = x
  OBVIOUS
<1> DEFINE t == Append(s, x)
<1> HIDE DEF t
<1>2. ToSet(s) \subseteq S
  BY <1>1 DEF ToSet
<1>3. \A i \in 1 .. Len(s) + 1 : i \in 1 .. Len(s) \/ i = Len(s) + 1
  BY <1>1
<1>4. ToSet(t) \subseteq ToSet(s) \union {x}
  BY <1>1, <1>3 DEF ToSet, t
<1>5. ToSet(s) \union {x} \subseteq ToSet(t)
  <2>1. 1 .. Len(s) \subseteq 1 .. Len(s) + 1 /\ Len(s) + 1 \in 1 .. Len(s) + 1
    BY <1>1
  <2> QED BY <1>1, <2>1 DEF ToSet, t
<1>6. ASSUME IsInjective(s), x \notin ToSet(s) PROVE IsInjective(t)
  <2>1. \A i \in 1 .. Len(s) : s[i] # x
    BY <1>1, <1>6 DEF ToSet
  <2> SUFFICES ASSUME NEW i \in 1 .. Len(s) + 1, NEW j \in 1 .. Len(s) + 1, t[i] = t[j]
               PROVE  i = j
    BY <1>1 DEF IsInjective, t
  <2> QED BY <1>1, <1>3, <1>6, <2>1 DEF IsInjective, t
<1> QED BY <1>1, <1>2, <1>4, <1>5, <1>6 DEF t

LEMMA AsManyAsListed ==
    ASSUME NEW S, NEW s \in Seq(S), IsInjective(s)
    PROVE  IsFiniteSet(ToSet(s)) /\ Cardinality(ToSet(s)) = Len(s)
<1>1. Len(s) \in Nat /\ DOMAIN s = 1 .. Len(s)
  OBVIOUS
<1>2. s \in [1 .. Len(s) -> ToSet(s)] /\ \A t \in ToSet(s) : \E i \in 1 .. Len(s) : s[i] = t
  BY <1>1 DEF ToSet
<1>3. \A i, j \in 1 .. Len(s) : s[i] = s[j] => i = j
  BY <1>1 DEF IsInjective
<1>4. s \in Bijection(1 .. Len(s), ToSet(s))
  BY <1>2, <1>3, Fun_IsBij
<1>5. ExistsBijection(1 .. Len(s), ToSet(s))
  BY <1>4 DEF ExistsBijection
<1>6. IsFiniteSet(1 .. Len(s)) /\ Cardinality(1 .. Len(s)) = Len(s)
  BY <1>1, FS_Interval
<1> QED BY <1>5, <1>6, FS_Bijection

-----------------------------------------------------------------------------
(* The steps.                                                              *)
LEMMA StartStep ==
    ASSUME HistoryInv, NEW kind \in {"LastModified", "ChangesSince"}, NEW h \in Histories,
           NEW since \in Nat, NEW cap \in Nat, Start(kind, h, since, cap)
    PROVE  HistoryInv'
<1>1. /\ walk' = "walking" /\ seen' = {} /\ changes' = <<>> /\ dates' = [p \in Paths |-> 0]
      /\ call' = [kind |-> kind, history |-> h, since |-> since, cap |-> cap]
      /\ frontier' = {Tip(h)}
      /\ want' = IF kind = "LastModified" THEN Paths ELSE {}
  BY DEF HistoryInv, Start, Tip, CommitsOf
<1>2. Tip(h) \in CommitsOf(h) /\ Tip(h) \in Reached(h, CommitsOf(h))
  BY HistoryType, AllReached
<1>3. Walked(h)'
  BY <1>1, <1>2 DEF Walked
<1>4. kind = "LastModified" => \A p \in Paths : Dated(h, p)'
  BY <1>1 DEF Dated
<1>5. Listed(h)'
  <2>1. ToSet(<<>>) = {} /\ IsInjective(<<>>) /\ <<>> \in Seq(CommitsOf(h)) /\ Len(<<>>) = 0
    BY DEF ToSet, IsInjective
  <2>2. Newer(h, since) \in SUBSET CommitsOf(h)
    BY HistoryType DEF Newer
  <2>3. Tip(h) \in Newer(h, since) => Tip(h) \in Reached(h, Newer(h, since))
    BY <2>2, ReachedIs
  <2>4. call'.cap = cap /\ call'.since = since
    BY <1>1
  <2> QED BY <1>1, <2>1, <2>3, <2>4 DEF Listed
<1>6. call'.history = h /\ call'.kind = kind
      /\ call' \in [kind : {"LastModified", "ChangesSince"}, history : Histories, since : Nat, cap : Nat]
  BY <1>1
<1>7. MissedOnlyBehindAnOldClock'
  BY <1>1 DEF MissedOnlyBehindAnOldClock
<1> HIDE DEF MissedOnlyBehindAnOldClock
<1> QED BY <1>1, <1>3, <1>4, <1>5, <1>6, <1>7 DEF HistoryInv

LEMMA LastModifiedStep ==
    ASSUME HistoryInv, NEW c \in frontier, LastModified(c)
    PROVE  HistoryInv'
<1> DEFINE h   == call.history
           All == Reached(h, CommitsOf(h))
<1>1. /\ walk = "walking" /\ call.kind = "LastModified"
      /\ call \in [kind : {"LastModified", "ChangesSince"}, history : Histories, since : Nat, cap : Nat]
      /\ Walked(h) /\ (\A p \in Paths : Dated(h, p)) /\ want \subseteq Paths
  BY DEF HistoryInv, LastModified, Pop
<1>2. /\ h \in Histories /\ call' = call /\ h' = h
      /\ \A d \in frontier : h.when[d] <= h.when[c]
      /\ seen' = seen \union {c} /\ frontier' = (frontier \union h.parents[c]) \ seen'
      /\ want' = want \ (ChangedPaths(h, c) \intersect want)
      /\ dates' = [p \in Paths |-> IF p \in ChangedPaths(h, c) \intersect want THEN h.when[c] ELSE dates[p]]
      /\ walk' = IF want' = {} \/ frontier' = {} THEN "done" ELSE "walking"
  BY <1>1 DEF LastModified, Pop
<1>3. Walked(h)' /\ c \notin seen
      /\ (ClocksAgree(h) => \A d \in All \ seen : h.when[d] <= h.when[c])
  <2> HIDE DEF h
  <2> QED BY <1>1, <1>2, PopWalks
<1>4. c \in CommitsOf(h) /\ All \subseteq CommitsOf(h) /\ (\A d \in CommitsOf(h) : h.when[d] \in Nat)
  <2>1. /\ All \subseteq CommitsOf(h) /\ (\A d \in CommitsOf(h) : h.when[d] \in Nat)
    BY <1>2, AllReached, HistoryType
  <2> QED BY <1>1, <2>1 DEF Walked
<1> HIDE DEF h, All
<1>5. ASSUME NEW p \in Paths PROVE Dated(h, p)'
  <2>1. p \in ChangedPaths(h, c) <=> Introduces(h, c, p)
    BY <1>2, <1>4, ChangedIsIntroduced
  <2>2. Dated(h, p)
    BY <1>1
  <2>3. CASE p \in want /\ Introduces(h, c, p)
    <3>1. p \notin want' /\ dates'[p] = h.when[c] /\ \A d \in seen : ~Introduces(h, d, p)
      BY <1>2, <2>1, <2>2, <2>3 DEF Dated
    <3>2. ASSUME ClocksAgree(h), NEW d \in All, Introduces(h, d, p) PROVE h.when[d] <= h.when[c]
      BY <1>3, <3>1, <3>2
    <3>3. c \in seen'
      BY <1>2
    <3> QED BY <1>2, <2>3, <3>1, <3>2, <3>3 DEF Dated, All
  <2>4. CASE p \in want /\ ~Introduces(h, c, p)
    <3>1. p \in want' /\ dates'[p] = 0 /\ \A d \in seen' : ~Introduces(h, d, p)
      BY <1>2, <2>1, <2>2, <2>4 DEF Dated
    <3> QED BY <1>2, <3>1 DEF Dated
  <2>5. CASE p \notin want
    <3>1. p \notin want' /\ dates'[p] = dates[p] /\ seen \subseteq seen'
      BY <1>2, <2>5
    <3> QED BY <1>2, <2>2, <2>5, <3>1 DEF Dated
  <2> QED BY <2>3, <2>4, <2>5
<1>6. want' \subseteq Paths /\ walk' \in {"walking", "done"}
      /\ (walk' = "done" => want' = {} \/ frontier' = {})
  BY <1>1, <1>2
<1>7. MissedOnlyBehindAnOldClock'
  BY <1>1, <1>2 DEF MissedOnlyBehindAnOldClock
<1>8. call'.history = h /\ call'.kind = "LastModified"
  BY <1>1, <1>2 DEF h
<1> HIDE DEF MissedOnlyBehindAnOldClock
<1>9. Walked(call.history)' /\ \A p \in Paths : Dated(call.history, p)'
  BY <1>2, <1>3, <1>5 DEF h
<1> QED BY <1>1, <1>2, <1>6, <1>7, <1>8, <1>9 DEF HistoryInv

LEMMA ChangesSinceStep ==
    ASSUME HistoryInv, NEW c \in frontier, ChangesSince(c)
    PROVE  HistoryInv'
<1> DEFINE h     == call.history
           All   == Reached(h, CommitsOf(h))
           ok    == Newer(h, call.since)
           newer == Reached(h, ok)
           old   == h.when[c] <= call.since
<1>1. /\ walk = "walking" /\ call.kind = "ChangesSince"
      /\ call \in [kind : {"LastModified", "ChangesSince"}, history : Histories, since : Nat, cap : Nat]
      /\ Walked(h) /\ Listed(h)
  BY DEF HistoryInv, ChangesSince, Pop
<1>2. /\ h \in Histories /\ call' = call /\ h' = h /\ call.cap \in Nat /\ call.since \in Nat
      /\ \A d \in frontier : h.when[d] <= h.when[c]
      /\ seen' = seen \union {c} /\ frontier' = (frontier \union h.parents[c]) \ seen'
      /\ truncated' = (~old /\ Capped)
      /\ changes' = IF old \/ Capped THEN changes ELSE Append(changes, c)
      /\ walk' = IF old \/ Capped \/ frontier' = {} THEN "done" ELSE "walking"
  BY <1>1 DEF ChangesSince, Pop
<1>3. /\ Walked(h)' /\ c \notin seen
      /\ frontier' = {} => All \subseteq seen'
      /\ (ClocksAgree(h) => \A d \in All \ seen : h.when[d] <= h.when[c])
  <2> HIDE DEF h
  <2> QED BY <1>1, <1>2, PopWalks
<1>4. /\ All \subseteq CommitsOf(h) /\ (\A d \in CommitsOf(h) : h.when[d] \in Nat)
      /\ newer \subseteq All /\ ok \subseteq CommitsOf(h) /\ newer \subseteq ok
      /\ CommitsOf(h) = DOMAIN h.when /\ IsFiniteSet(CommitsOf(h))
      /\ \A b \in newer : h.parents[b] \intersect ok \subseteq newer
      /\ \A S \in SUBSET CommitsOf(h) : Closed(h, ok, S) => newer \subseteq S
  <2>1. /\ (\A d \in CommitsOf(h) : h.when[d] \in Nat)
        /\ CommitsOf(h) = DOMAIN h.when /\ IsFiniteSet(CommitsOf(h))
    BY <1>2, HistoryType
  <2>2. ok \in SUBSET CommitsOf(h)
    BY <2>1 DEF Newer
  <2>3. All \subseteq CommitsOf(h) /\ newer \subseteq All
    BY <1>2, AllReached
  <2>4. /\ newer \subseteq ok /\ (\A b \in newer : h.parents[b] \intersect ok \subseteq newer)
        /\ \A S \in SUBSET CommitsOf(h) : Closed(h, ok, S) => newer \subseteq S
    BY <1>2, <2>2, ReachedIs
  <2> QED BY <2>1, <2>2, <2>3, <2>4
<1>5. /\ seen \subseteq All /\ frontier \subseteq All /\ Tip(h) \in seen \union frontier
      /\ \A b \in seen : h.parents[b] \subseteq seen \union frontier
      /\ ClocksAgree(h) => \A b \in seen, d \in All \ seen : h.when[d] <= h.when[b]
  BY <1>1 DEF Walked
<1>6. /\ ToSet(changes) = seen /\ IsInjective(changes) /\ changes \in Seq(CommitsOf(h))
      /\ (call.cap > 0 => Len(changes) <= call.cap)
      /\ seen \subseteq newer /\ frontier \intersect ok \subseteq newer
  BY <1>1 DEF Listed
<1>7. c \in CommitsOf(h) /\ (c \in ok <=> ~old) /\ \A b \in CommitsOf(h) : b \in ok <=> h.when[b] > call.since
  BY <1>2, <1>4, <1>5 DEF Newer
<1> HIDE DEF h, All, ok, newer
<1>8. CASE old
  <2>1. changes' = changes /\ truncated' = FALSE /\ walk' = "done"
    BY <1>2, <1>8
  <2>2. \A b \in frontier : b \notin ok
    <3> SUFFICES ASSUME NEW b \in frontier PROVE ~(h.when[b] > call.since)
      BY <1>4, <1>5, <1>7
    <3>1. h.when[b] <= h.when[c] /\ h.when[b] \in Nat /\ h.when[c] \in Nat
      BY <1>2, <1>4, <1>5, <1>7
    <3> QED BY <1>2, <1>8, <3>1
  <2>3. Closed(h, ok, seen)
    BY <1>5, <2>2 DEF Closed, Tip, CommitsOf
  <2>4. newer = seen
    BY <1>4, <1>5, <1>6, <2>3
  <2>5. MissedOnlyBehindAnOldClock'
    BY <1>2, <1>6, <2>1, <2>4 DEF MissedOnlyBehindAnOldClock, h, ok, newer, Newer
  <2> HIDE DEF MissedOnlyBehindAnOldClock
  <2> QED BY <1>1, <1>2, <2>1, <2>5 DEF HistoryInv
<1>9. CASE ~old /\ Capped
  <2>1. changes' = changes /\ truncated' = TRUE /\ walk' = "done"
    BY <1>2, <1>9
  <2>2. Len(changes) = call.cap
    <3>1. Len(changes) \in Nat /\ call.cap > 0 /\ Len(changes) >= call.cap
      BY <1>6, <1>9 DEF Capped
    <3> QED BY <1>2, <1>6, <3>1
  <2>3. Cardinality(newer) > call.cap
    <3>1. IsFiniteSet(seen) /\ Cardinality(seen) = call.cap
      BY <1>6, <2>2, AsManyAsListed
    <3>2. IsFiniteSet(newer)
      <4>1. newer \in SUBSET CommitsOf(h)
        BY <1>4
      <4> QED BY <1>4, <4>1, FS_Subset
    <3>3. seen \union {c} \in SUBSET newer
      BY <1>6, <1>7, <1>9
    <3>4. Cardinality(seen \union {c}) = call.cap + 1
      BY <1>3, <3>1, FS_AddElement
    <3>5. Cardinality(seen \union {c}) <= Cardinality(newer) /\ Cardinality(newer) \in Nat
      BY <3>2, <3>3, FS_Subset, FS_CardinalityType
    <3> QED BY <1>2, <3>4, <3>5
  <2>4. ClocksAgree(h) => \A b \in newer \ seen, d \in seen : h.when[b] <= h.when[d]
    BY <1>4, <1>5
  <2>5. MissedOnlyBehindAnOldClock'
    BY <1>2, <1>6, <2>1, <2>2, <2>3, <2>4 DEF MissedOnlyBehindAnOldClock, h, ok, newer, Newer
  <2> HIDE DEF MissedOnlyBehindAnOldClock
  <2> QED BY <1>1, <1>2, <2>1, <2>5 DEF HistoryInv
<1>10. CASE ~old /\ ~Capped
  <2>1. changes' = Append(changes, c) /\ truncated' = FALSE
        /\ walk' = IF frontier' = {} THEN "done" ELSE "walking"
    BY <1>2, <1>10
  <2>2. /\ ToSet(changes') = seen' /\ IsInjective(changes') /\ changes' \in Seq(CommitsOf(h))
        /\ Len(changes') = Len(changes) + 1 /\ Len(changes) \in Nat
    <3>1. changes \in Seq(CommitsOf(h)) /\ c \in CommitsOf(h) /\ c \notin ToSet(changes)
      BY <1>3, <1>6, <1>7
    <3> QED BY <1>2, <1>6, <2>1, <3>1, InSet
  <2>3. call.cap > 0 => Len(changes') <= call.cap
    BY <1>2, <1>10, <2>2 DEF Capped
  <2>4. seen' \subseteq newer /\ frontier' \intersect ok \subseteq newer
    BY <1>2, <1>4, <1>6, <1>7, <1>10
  <2>5. CASE frontier' = {}
    <3>1. newer = seen' /\ walk' = "done"
      BY <1>3, <1>4, <2>1, <2>4, <2>5
    <3>2. MissedOnlyBehindAnOldClock'
      BY <1>2, <2>1, <2>2, <3>1 DEF MissedOnlyBehindAnOldClock, h, ok, newer, Newer
    <3> HIDE DEF MissedOnlyBehindAnOldClock
    <3> QED BY <1>1, <1>2, <3>1, <3>2 DEF HistoryInv
  <2>6. CASE frontier' # {}
    <3>1. walk' = "walking"
      BY <2>1, <2>6
    <3>2. MissedOnlyBehindAnOldClock'
      BY <3>1 DEF MissedOnlyBehindAnOldClock
    <3>3. Listed(call.history)'
      BY <1>2, <2>2, <2>3, <2>4 DEF Listed, h, ok, newer
    <3>4. Walked(call.history)'
      BY <1>2, <1>3 DEF h
    <3> HIDE DEF MissedOnlyBehindAnOldClock
    <3> QED BY <1>1, <1>2, <3>1, <3>2, <3>3, <3>4 DEF HistoryInv
  <2> QED BY <2>5, <2>6
<1> QED BY <1>8, <1>9, <1>10

LEMMA HistoryStep ==
    ASSUME HistoryInv, [HistoryNext]_historyVars
    PROVE  HistoryInv'
<1>1. CASE UNCHANGED historyVars
  BY <1>1
     DEF historyVars, HistoryInv, Walked, Dated, Listed, MissedOnlyBehindAnOldClock
<1>2. CASE WalkFails
  BY <1>2 DEF WalkFails, HistoryInv, MissedOnlyBehindAnOldClock
<1>3. ASSUME NEW h \in Histories, walk = "idle",
             \/ AskLastModified(h)
             \/ \E since \in Sinces, cap \in Caps : AskChangesSince(h, since, cap)
      PROVE  HistoryInv'
  <2>1. \E kind \in {"LastModified", "ChangesSince"}, since \in Nat, cap \in Nat :
           Start(kind, h, since, cap)
    BY <1>3, HistoriesAssumption DEF AskLastModified, AskChangesSince
  <2> QED BY <2>1, StartStep
<1> QED BY <1>1, <1>2, <1>3, LastModifiedStep, ChangesSinceStep DEF HistoryNext

LEMMA HistoryStart == HistoryInit => HistoryInv
BY DEF HistoryInit, HistoryInv, MissedOnlyBehindAnOldClock

(* A finished walk has dated each path by a commit that introduced its blob*)
(* on every side, by the newest one when clocks agree, and left out only   *)
(* what no commit introduced (gitsync.go:501-511).                         *)
THEOREM DatesNewest == HistorySpec => []DatesAreTheNewest
<1>1. HistoryInv => DatesAreTheNewest
  <2> SUFFICES ASSUME HistoryInv, walk = "done", call.kind = "LastModified"
               PROVE  LET h == call.history
                      IN  \A p \in Paths :
                            LET times == {h.when[c] : c \in {c \in Reached(h, DOMAIN h.when) :
                                                                Introduces(h, c, p)}}
                            IN  /\ dates[p] \in times \union {0} /\ (dates[p] = 0 <=> times = {})
                                /\ ClocksAgree(h) => \A t \in times : t <= dates[p]
    BY DEF DatesAreTheNewest
  <2> DEFINE h == call.history
             times(p) == {h.when[c] : c \in {c \in Reached(h, DOMAIN h.when) : Introduces(h, c, p)}}
  <2>1. /\ h \in Histories /\ Walked(h) /\ (\A p \in Paths : Dated(h, p))
        /\ want = {} \/ frontier = {}
    BY DEF HistoryInv
  <2>2. DOMAIN h.when = CommitsOf(h) /\ \A c \in CommitsOf(h) : h.when[c] \in Nat \ {0}
    BY <2>1, HistoryType
  <2>3. Reached(h, CommitsOf(h)) \subseteq CommitsOf(h) /\ seen \subseteq Reached(h, CommitsOf(h))
    BY <2>1, AllReached DEF Walked
  <2>4. frontier = {} => Reached(h, CommitsOf(h)) \subseteq seen
    <3> SUFFICES ASSUME frontier = {} PROVE Reached(h, CommitsOf(h)) \subseteq seen
      OBVIOUS
    <3>1. seen \in SUBSET CommitsOf(h) /\ Tip(h) \in seen /\ \A c \in seen : h.parents[c] \subseteq seen
      BY <2>1, <2>3 DEF Walked
    <3> QED BY <2>1, <3>1, AllReached
  <2> HIDE DEF h
  <2>5. ASSUME NEW p \in Paths
        PROVE  /\ dates[p] \in times(p) \union {0} /\ (dates[p] = 0 <=> times(p) = {})
               /\ ClocksAgree(h) => \A t \in times(p) : t <= dates[p]
    <3>1. Dated(h, p)
      BY <2>1
    <3>2. CASE p \in want
      <4>1. dates[p] = 0 /\ \A c \in Reached(h, CommitsOf(h)) : ~Introduces(h, c, p)
        BY <2>1, <2>4, <3>1, <3>2 DEF Dated
      <4>2. times(p) = {}
        BY <2>2, <4>1
      <4> QED BY <4>1, <4>2
    <3>3. CASE p \notin want
      <4>1. PICK c \in seen : /\ Introduces(h, c, p) /\ dates[p] = h.when[c]
                              /\ ClocksAgree(h) => \A d \in Reached(h, CommitsOf(h)) :
                                                      Introduces(h, d, p) => h.when[d] <= h.when[c]
        BY <3>1, <3>3 DEF Dated
      <4>2. dates[p] \in times(p) /\ dates[p] # 0
        BY <2>2, <2>3, <4>1
      <4>3. ClocksAgree(h) => \A t \in times(p) : t <= dates[p]
        BY <2>2, <4>1
      <4> QED BY <4>2, <4>3
    <3> QED BY <3>2, <3>3
  <2> QED BY <2>5 DEF h
<1> QED BY <1>1, HistoryStart, HistoryStep, PTL DEF HistorySpec

(* A finished walk lists exactly the commits after since that are reached  *)
(* through such commits, or, with a cap, as many of them as the cap, the   *)
(* newest ones when clocks agree (gitsync.go:614-650).                     *)
THEOREM ChangesComplete == HistorySpec => []MissedOnlyBehindAnOldClock
<1>1. HistoryInv => MissedOnlyBehindAnOldClock
  BY DEF HistoryInv
<1> QED BY <1>1, HistoryStart, HistoryStep, PTL DEF HistorySpec
=============================================================================
