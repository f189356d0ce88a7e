---------------------------- MODULE DerivedProofs ----------------------------
(***************************************************************************)
(* What a sync run derives: the drift table and what bundles show of it    *)
(* (CodeDrift), for any repositories, documents, commits and faults; the   *)
(* link graph (LinkGraph), for any documents, targets and candidates; the  *)
(* chunks of a document (Chunker), for any blocks and sizes; and what a    *)
(* ref covers (Globs), for any glob and path.                              *)
(***************************************************************************)
EXTENDS CodeDrift, LinkGraph, Chunker, Globs, CollectionsProofs, FunctionTheorems, FiniteSetTheorems,
        SequenceTheorems, NaturalsInduction, TLAPS

(* How many commits of r a document is behind.                             *)
N(d, r, h) == Cardinality(Behind(d, r, h[r]))

Ages == [Docs -> [Repos -> Commits] \cup {NoRow}]

(* The walk is capped: no document is behind more commits than that.       *)
LEMMA BehindIsCapped ==
    ASSUME NEW d \in Docs, NEW r \in Repos, NEW h \in Commits, since \in Ages
    PROVE  /\ Behind(d, r, h) \subseteq 1 .. h
           /\ IsFiniteSet(Behind(d, r, h))
           /\ Cardinality(Behind(d, r, h)) \in Nat
           /\ Cardinality(Behind(d, r, h)) <= WalkCap
           /\ Cardinality(Behind(d, r, h)) = 0 <=> Behind(d, r, h) = {}
<1> USE SizeAssumption, ReposAssumption
<1> DEFINE ks == Behind(d, r, h)
<1>1. h \in Nat /\ WalkCap \in Nat \ {0}
  BY DEF Commits
<1>2. ks \subseteq 1 .. h /\ ks \subseteq (h - WalkCap + 1) .. h
  BY <1>1 DEF Behind
<1>3. /\ IsFiniteSet((h - WalkCap + 1) .. h)
      /\ Cardinality((h - WalkCap + 1) .. h) = WalkCap
  BY <1>1, FS_Interval
<1>4. IsFiniteSet(ks) /\ Cardinality(ks) <= WalkCap
  <2> HIDE DEF ks
  <2> QED
    BY <1>2, <1>3, FS_Subset
<1>5. Cardinality(ks) \in Nat /\ (Cardinality(ks) = 0 <=> ks = {})
  <2> HIDE DEF ks
  <2> QED
    BY <1>4, FS_CardinalityType, FS_EmptySet
<1>6. QED
  BY <1>2, <1>4, <1>5

(* A row counts the commits it stands for, and ends with the last of them. *)
LEMMA RowCounts ==
    ASSUME NEW d \in Docs, NEW r \in Repos, NEW h \in Commits, since \in Ages,
           Behind(d, r, h) # {}
    PROVE  /\ RowOf(r, Behind(d, r, h)) \in Rows
           /\ RowOf(r, Behind(d, r, h)) # NoRow
           /\ RowOf(r, Behind(d, r, h)).commits = Cardinality(Behind(d, r, h))
           /\ RowOf(r, Behind(d, r, h)).commits <= RowOf(r, Behind(d, r, h)).last
<1> USE SizeAssumption
<1> DEFINE ks   == Behind(d, r, h)
           last == CHOOSE k \in ks : \A j \in ks : j <= k
<1>1. h \in Nat /\ MaxCommits \in Nat /\ h <= MaxCommits
  BY DEF Commits
<1>2. ks \subseteq 1 .. h /\ IsFiniteSet(ks) /\ Cardinality(ks) \in Nat /\ Cardinality(ks) # 0
  BY BehindIsCapped
<1>3. last \in ks /\ \A j \in ks : j <= last
  <2> HIDE DEF ks
  <2>1. ks \in SUBSET (1 .. h) /\ ks # {}
    BY <1>2, FS_EmptySet
  <2>2. \E k \in ks : \A j \in ks : j <= k
    BY <1>1, <2>1, LastExists
  <2>3. QED
    BY <2>2, Zenon
<1>4. last \in 1 .. MaxCommits
  BY <1>1, <1>2, <1>3
<1>5. ks \subseteq 1 .. last
  BY <1>1, <1>2, <1>3
<1>6. Cardinality(ks) <= last
  <2> HIDE DEF ks, last
  <2>1. IsFiniteSet(1 .. last) /\ Cardinality(1 .. last) = last
    BY <1>4, FS_Interval
  <2>2. QED
    BY <1>5, <2>1, FS_Subset
<1>7. RowOf(r, ks) = [repo |-> r, commits |-> Cardinality(ks), last |-> last]
  BY DEF RowOf
<1>8. RowOf(r, ks) \in Rows
  <2> HIDE DEF ks, last
  <2>1. Cardinality(ks) \in 1 .. MaxCommits
    BY <1>2, <1>4, <1>6
  <2>2. QED
    BY <1>4, <1>7, <2>1 DEF Rows
<1>9. QED
  <2> HIDE DEF ks, last
  <2>1. RowOf(r, ks) # NoRow
    BY <1>8, NoRowAssumption DEF Rows
  <2>2. RowOf(r, ks).commits = Cardinality(ks) /\ RowOf(r, ks).last = last
    BY <1>7
  <2>3. QED
    BY <1>6, <1>8, <2>1, <2>2 DEF ks

-----------------------------------------------------------------------------
(* The merge.  row is what repositories 1 .. n leave for d: nothing, or    *)
(* the row of the first of those it is furthest behind.                    *)
MergedRow(row, d, h, n) ==
    \/ row = NoRow /\ \A r \in 1 .. n : Behind(d, r, h[r]) = {}
    \/ \E r \in 1 .. n :
          /\ Behind(d, r, h[r]) # {} /\ row = RowOf(r, Behind(d, r, h[r]))
          /\ \A q \in 1 .. n : \/ N(d, q, h) < N(d, r, h)
                               \/ N(d, q, h) = N(d, r, h) /\ r <= q

(* Worse extends a merge by the next repository.                           *)
LEMMA MergeOneMore ==
    ASSUME NEW d \in Docs, NEW h \in [Repos -> Commits], since \in Ages,
           NEW n \in Repos, NEW row, MergedRow(row, d, h, n - 1)
    PROVE  MergedRow(Worse(row, RowOf(n, Behind(d, n, h[n]))), d, h, n)
<1> USE SizeAssumption DEF Repos
<1> DEFINE B(r)  == Behind(d, r, h[r])
           next1 == RowOf(n, B(n))
<1>0. n \in Nat /\ 1 .. n \subseteq Repos /\ 1 .. n = (1 .. n - 1) \cup {n}
  OBVIOUS
<1>1. \A r \in 1 .. n : N(d, r, h) \in Nat /\ (N(d, r, h) = 0 <=> B(r) = {})
  BY <1>0, BehindIsCapped DEF N
<1>2. \A r \in 1 .. n : B(r) # {} => RowOf(r, B(r)) # NoRow
                                     /\ RowOf(r, B(r)).commits = N(d, r, h)
  BY <1>0, RowCounts DEF N
<1>3. B(n) = {} => next1 = NoRow
  BY DEF RowOf
<1> HIDE DEF B, Repos
<1>4. CASE row = NoRow /\ \A r \in 1 .. n - 1 : B(r) = {}
  <2>1. CASE B(n) = {}
    <3>1. Worse(row, next1) = NoRow
      BY <1>3, <1>4, <2>1 DEF Worse
    <3>2. QED
      BY <1>0, <1>4, <2>1, <3>1 DEF MergedRow, B
  <2>2. CASE B(n) # {}
    <3>1. Worse(row, next1) = next1
      BY <1>0, <1>2, <1>4, <2>2 DEF Worse
    <3>2. \A q \in 1 .. n : N(d, q, h) < N(d, n, h) \/ (N(d, q, h) = N(d, n, h) /\ n <= q)
      BY <1>0, <1>1, <1>4, <2>2
    <3>3. QED
      BY <1>0, <2>2, <3>1, <3>2 DEF MergedRow, B
  <2>3. QED
    BY <2>1, <2>2
<1>5. ASSUME NEW r \in 1 .. n - 1, B(r) # {}, row = RowOf(r, B(r)),
             \A q \in 1 .. n - 1 : N(d, q, h) < N(d, r, h) \/ (N(d, q, h) = N(d, r, h) /\ r <= q)
      PROVE  MergedRow(Worse(row, next1), d, h, n)
  <2>0. r \in 1 .. n /\ n \in 1 .. n /\ r <= n
    BY <1>0
  <2>1. row # NoRow /\ row.commits = N(d, r, h) /\ N(d, r, h) \in Nat /\ N(d, r, h) # 0
    BY <1>1, <1>2, <1>5, <2>0
  <2>2. B(n) # {} => next1 # NoRow /\ next1.commits = N(d, n, h)
    BY <1>2, <2>0
  <2>3. CASE N(d, n, h) <= N(d, r, h)
    <3>1. Worse(row, next1) = row
      BY <1>1, <1>3, <2>0, <2>1, <2>2, <2>3 DEF Worse
    <3>2. \A q \in 1 .. n : N(d, q, h) < N(d, r, h) \/ (N(d, q, h) = N(d, r, h) /\ r <= q)
      BY <1>0, <1>1, <1>5, <2>0, <2>1, <2>3
    <3>3. QED
      BY <1>5, <2>0, <3>1, <3>2 DEF MergedRow, B
  <2>4. CASE ~ (N(d, n, h) <= N(d, r, h))
    <3>1. N(d, n, h) \in Nat /\ N(d, r, h) < N(d, n, h) /\ B(n) # {}
      BY <1>1, <2>0, <2>1, <2>4
    <3>2. Worse(row, next1) = next1
      BY <2>1, <2>2, <3>1 DEF Worse
    <3>3. \A q \in 1 .. n : N(d, q, h) < N(d, n, h) \/ (N(d, q, h) = N(d, n, h) /\ n <= q)
      BY <1>0, <1>1, <1>5, <2>0, <3>1
    <3>4. QED
      BY <2>0, <3>1, <3>2, <3>3 DEF MergedRow, B
  <2>5. QED
    BY <2>3, <2>4
<1>6. QED
  BY <1>4, <1>5 DEF MergedRow, B, N

(* The merge over all repositories is the drift.                           *)
LEMMA MergeIsDrift ==
    ASSUME NEW d \in Docs, NEW h \in [Repos -> Commits], since \in Ages,
           NEW row, MergedRow(row, d, h, NumRepos)
    PROVE  row = DriftAt(h)[d]
<1> USE SizeAssumption
<1> DEFINE most == {r \in Repos : \A q \in Repos : \/ N(d, q, h) < N(d, r, h)
                                                   \/ N(d, q, h) = N(d, r, h) /\ r <= q}
           drifted == {r \in most : N(d, r, h) > 0}
<1>0. DriftAt(h)[d] = IF drifted = {} THEN NoRow
                      ELSE LET r == CHOOSE r \in drifted : TRUE
                           IN  RowOf(r, Behind(d, r, h[r]))
  BY DEF DriftAt, N
<1>1. \A r \in Repos : N(d, r, h) \in Nat /\ (N(d, r, h) = 0 <=> Behind(d, r, h[r]) = {})
  BY BehindIsCapped DEF N
<1>2. CASE row = NoRow /\ \A r \in 1 .. NumRepos : Behind(d, r, h[r]) = {}
  <2>1. drifted = {}
    BY <1>1, <1>2 DEF Repos
  <2>2. QED
    BY <1>0, <1>2, <2>1
<1>3. ASSUME NEW r \in 1 .. NumRepos, Behind(d, r, h[r]) # {},
             row = RowOf(r, Behind(d, r, h[r])),
             \A q \in 1 .. NumRepos : N(d, q, h) < N(d, r, h) \/ (N(d, q, h) = N(d, r, h) /\ r <= q)
      PROVE  row = DriftAt(h)[d]
  <2>1. r \in drifted
    BY <1>1, <1>3 DEF Repos
  <2>2. \A s \in drifted : s = r
    <3> SUFFICES ASSUME NEW s \in drifted PROVE s = r
      OBVIOUS
    <3>1. r \in Repos /\ s \in Repos /\ N(d, r, h) \in Nat /\ N(d, s, h) \in Nat
      BY <1>1 DEF Repos
    <3>2. N(d, s, h) < N(d, r, h) \/ (N(d, s, h) = N(d, r, h) /\ r <= s)
      BY <1>3, <3>1 DEF Repos
    <3>3. N(d, r, h) < N(d, s, h) \/ (N(d, r, h) = N(d, s, h) /\ s <= r)
      BY <3>1
    <3>4. QED
      BY <3>1, <3>2, <3>3 DEF Repos
  <2>3. (CHOOSE s \in drifted : TRUE) = r
    <3> HIDE DEF drifted
    <3>1. (CHOOSE s \in drifted : TRUE) \in drifted
      BY <2>1, Zenon
    <3>2. QED
      BY <2>2, <3>1
  <2>4. QED
    BY <1>0, <1>3, <2>1, <2>3
<1>4. QED
  BY <1>2, <1>3 DEF MergedRow

-----------------------------------------------------------------------------
(* Type correctness.                                                       *)

RowsOk(rows) ==
    /\ rows \in [Docs -> Rows \cup {NoRow}]
    /\ \A d \in Docs : rows[d] # NoRow => /\ rows[d].commits <= WalkCap
                                          /\ rows[d].commits <= rows[d].last

LEMMA MergedRowsOk ==
    ASSUME NEW rows, RowsOk(rows), NEW r \in Repos, NEW h \in Commits, since \in Ages
    PROVE  RowsOk([d \in Docs |-> Worse(rows[d], RowOf(r, Behind(d, r, h)))])
<1> SUFFICES ASSUME NEW d \in Docs
             PROVE  /\ Worse(rows[d], RowOf(r, Behind(d, r, h))) \in Rows \cup {NoRow}
                    /\ LET w == Worse(rows[d], RowOf(r, Behind(d, r, h)))
                       IN  w # NoRow => w.commits <= WalkCap /\ w.commits <= w.last
  BY Zenon DEF RowsOk
<1> DEFINE b == RowOf(r, Behind(d, r, h))
<1>1. CASE Behind(d, r, h) = {}
  <2>1. b = NoRow
    BY <1>1 DEF RowOf
  <2>2. QED
    BY <2>1 DEF Worse, RowsOk
<1>2. CASE Behind(d, r, h) # {}
  <2>1. b \in Rows /\ b.commits <= WalkCap /\ b.commits <= b.last
    BY <1>2, BehindIsCapped, RowCounts
  <2> HIDE DEF b
  <2>2. Worse(rows[d], b) \in {rows[d], b}
    BY DEF Worse
  <2>3. QED
    BY <2>1, <2>2 DEF RowsOk, b
<1>3. QED
  BY <1>1, <1>2

LEMMA InitTypes == Init => DriftTypeOK
<1> SUFFICES ASSUME Init PROVE DriftTypeOK
  OBVIOUS
<1> USE SizeAssumption DEF Init
<1>1. remote \in [Repos -> Commits] /\ head \in [Repos -> Commits] /\ head = remote
  BY DEF Commits
<1>2. \A r \in Repos : head[r] <= remote[r]
  BY <1>1 DEF Commits
<1>3. since \in [Docs -> [Repos -> Commits] \cup {NoRow}]
  BY <1>1
<1>4. RowsOk(table) /\ RowsOk(found)
  BY DEF RowsOk, None
<1>5. next \in 1 .. NumRepos + 1 /\ faults \in 0 .. MaxFaults /\ lost \subseteq {"table", "cache"}
  OBVIOUS
<1>6. QED
  BY <1>1, <1>2, <1>3, <1>4, <1>5 DEF DriftTypeOK, RowsOk

LEMMA ReindexedTypes ==
    ASSUME DriftTypeOK, NEW ds \in SUBSET Docs, Reindexed(ds)
    PROVE  since' \in [Docs -> [Repos -> Commits] \cup {NoRow}]
<1>1. since' \in [Docs -> {remote, NoRow} \cup {since[d] : d \in Docs}]
  BY DEF Reindexed
<1>2. {remote, NoRow} \cup {since[d] : d \in Docs} \subseteq [Repos -> Commits] \cup {NoRow}
  BY DEF DriftTypeOK
<1>3. QED
  BY <1>1, <1>2

LEMMA NextTypes == DriftTypeOK /\ [Next]_vars => DriftTypeOK'
<1> SUFFICES ASSUME DriftTypeOK, [Next]_vars PROVE DriftTypeOK'
  OBVIOUS
<1> USE SizeAssumption
<1>1. ASSUME NEW r \in Repos, CommitCode(r) PROVE DriftTypeOK'
  <2>1. remote[r] \in Nat /\ remote[r] < MaxCommits /\ remote' = [remote EXCEPT ![r] = @ + 1]
    BY <1>1 DEF CommitCode, DriftTypeOK, Commits
  <2>2. remote' \in [Repos -> Commits] /\ \A q \in Repos : head[q] <= remote'[q]
    BY <2>1 DEF DriftTypeOK, Commits
  <2>3. QED
    BY <1>1, <2>2 DEF CommitCode, DriftTypeOK, Rendered
<1>2. CASE StartCheck
  <2>1. since' \in [Docs -> [Repos -> Commits] \cup {NoRow}]
    BY <1>2, ReindexedTypes DEF StartCheck
  <2>2. moved' \in BOOLEAN
    BY <1>2, Zenon DEF StartCheck
  <2>3. next' \in 1 .. NumRepos + 1
    BY <1>2 DEF StartCheck
  <2>4. QED
    BY <1>2, <2>1, <2>2, <2>3 DEF StartCheck, DriftTypeOK, Rendered
<1>3. CASE SyncCode
  <2>1. next \in Repos /\ next' \in 1 .. NumRepos + 1
    BY <1>3 DEF SyncCode, DriftTypeOK, Repos
  <2>2. head' \in [Repos -> Commits] /\ \A q \in Repos : head'[q] <= remote[q]
    BY <1>3, <2>1 DEF SyncCode, DriftTypeOK, Commits
  <2>3. moved' \in BOOLEAN
    BY <1>3, Zenon DEF SyncCode, DriftTypeOK
  <2>4. QED
    BY <1>3, <2>1, <2>2, <2>3 DEF SyncCode, DriftTypeOK, Rendered
<1>4. CASE NothingMoved
  BY <1>4 DEF NothingMoved, DriftTypeOK, Rendered
<1>5. CASE StartWalk
  <2>1. RowsOk(None) /\ 1 \in 1 .. NumRepos + 1
    BY DEF RowsOk, None
  <2>2. QED
    BY <1>5, <2>1 DEF StartWalk, DriftTypeOK, Rendered, RowsOk
<1>6. CASE Walk
  <2>1. next \in Repos /\ next' \in 1 .. NumRepos + 1
    BY <1>6 DEF Walk, DriftTypeOK, Repos
  <2>2. WalkedHead(next) \in Commits
    BY <2>1 DEF WalkedHead, DriftTypeOK
  <2>3. since \in Ages /\ RowsOk(found)
    BY DEF DriftTypeOK, Ages, RowsOk
  <2>4. RowsOk(found')
    BY <1>6, <2>1, <2>2, <2>3, MergedRowsOk DEF Walk
  <2>5. QED
    BY <1>6, <2>1, <2>4 DEF Walk, DriftTypeOK, Rendered, RowsOk
<1>7. CASE ReplaceDrift
  <2>1. Rendered(table') \in cached'
    BY <1>7 DEF ReplaceDrift
  <2>2. Rendered(table)' = Rendered(table')
    BY DEF Rendered
  <2>3. runPc' \in {"idle", "sync", "walk", "invalidate"}
    BY <1>7 DEF ReplaceDrift
  <2>4. table' = found /\ found' = found /\ checked' \in BOOLEAN /\ lost' \subseteq {"table", "cache"}
    BY <1>7 DEF ReplaceDrift, DriftTypeOK
  <2>5. QED
    BY <1>7, <2>1, <2>2, <2>3, <2>4 DEF ReplaceDrift, DriftTypeOK
<1>8. CASE Invalidate
  BY <1>8 DEF Invalidate, DriftTypeOK, Rendered
<1>9. CASE IndexFails
  <2>1. since' \in [Docs -> [Repos -> Commits] \cup {NoRow}]
    BY <1>9, ReindexedTypes DEF IndexFails
  <2>2. QED
    BY <1>9, <2>1 DEF IndexFails, Fault, DriftTypeOK, Rendered
<1>10. CASE SyncFails
  <2>1. next \in Repos
    BY <1>10 DEF SyncFails, DriftTypeOK, Repos
  <2>2. head' \in [Repos -> Commits] /\ \A q \in Repos : head'[q] <= remote[q]
    BY <1>10, <2>1 DEF SyncFails, DriftTypeOK, Commits
  <2>3. QED
    BY <1>10, <2>2 DEF SyncFails, Fault, DriftTypeOK, Rendered
<1>11. CASE CheckFails
  BY <1>11 DEF CheckFails, Fault, DriftTypeOK, Rendered
<1>12. CASE Restart
  <2>1. lost' \subseteq {"table", "cache"} /\ faults' \in 0 .. MaxFaults
    BY <1>12 DEF Restart, Fault, DriftTypeOK
  <2>2. checked' \in BOOLEAN /\ runPc' = "idle" /\ Rendered(table)' = Rendered(table)
    BY <1>12 DEF Restart, Rendered
  <2>3. QED
    BY <1>12, <2>1, <2>2 DEF Restart, DriftTypeOK
<1>13. CASE UNCHANGED vars
  BY <1>13 DEF vars, DriftTypeOK, Rendered
<1>14. QED
  BY <1>1, <1>2, <1>3, <1>4, <1>5, <1>6, <1>7, <1>8, <1>9, <1>10, <1>11, <1>12, <1>13 DEF Next

(* Every reachable state of the drift check is well typed; in particular a *)
(* row never counts more commits than the walk is capped at, nor ends      *)
(* before as many as it counts (gitsync.go:635-638, staleness.go:15-45).   *)
THEOREM DriftTypes == Spec => []DriftTypeOK
  BY InitTypes, NextTypes, PTL DEF Spec

-----------------------------------------------------------------------------
(* What the bundles show.                                                  *)

CacheInv == /\ DriftTypeOK
            /\ (runPc # "invalidate" /\ "cache" \notin lost) => cached = {Rendered(table)}

LEMMA NextCache == CacheInv /\ [Next]_vars => CacheInv'
<1> SUFFICES ASSUME CacheInv, [Next]_vars PROVE CacheInv'
  OBVIOUS
<1>0. DriftTypeOK /\ DriftTypeOK'
  BY NextTypes DEF CacheInv
<1>1. CASE ReplaceDrift
  <2>1. Rendered(table)' = Rendered(found)
    BY <1>1 DEF ReplaceDrift, Rendered
  <2>2. QED
    BY <1>0, <1>1, <2>1 DEF ReplaceDrift, CacheInv
<1>2. CASE Invalidate
  <2>1. Rendered(table)' = Rendered(table)
    BY <1>2 DEF Invalidate, Rendered
  <2>2. QED
    BY <1>0, <1>2, <2>1 DEF Invalidate, CacheInv
<1>3. CASE ~ReplaceDrift /\ ~Invalidate
  <2>1. /\ table' = table /\ cached' = cached /\ lost \subseteq lost'
        /\ runPc' = "invalidate" => runPc = "invalidate"
        /\ runPc = "invalidate" => runPc' = "invalidate" \/ "cache" \in lost'
    BY <1>3 DEF Next, vars, CommitCode, StartCheck, SyncCode, NothingMoved, StartWalk, Walk,
                IndexFails, SyncFails, CheckFails, Restart
  <2>2. Rendered(table)' = Rendered(table)
    BY <2>1 DEF Rendered
  <2>3. QED
    BY <1>0, <2>1, <2>2 DEF CacheInv
<1>4. QED
  BY <1>1, <1>2, <1>3

(* Between runs cached bundles show the table's drift unless an            *)
(* invalidation was cut short: what bundles render of two tables is what   *)
(* ReplaceDrift compares (drift.go:60-70, serve.go:618-631).               *)
THEOREM CachedDrift == Spec => []CachedDriftIsCurrent
<1>1. Init => CacheInv
  BY InitTypes DEF Init, CacheInv
<1>2. CacheInv => CachedDriftIsCurrent
  BY DEF CacheInv, CachedDriftIsCurrent
<1>3. QED
  BY <1>1, <1>2, NextCache, PTL DEF Spec

-----------------------------------------------------------------------------
(* The table.  A run that has found nothing to have moved, one that is     *)
(* walking, and one that replaced the table, each know this much.          *)
TableInv ==
    /\ DriftTypeOK
    /\ (runPc \in {"idle", "invalidate"} /\ checked /\ "table" \notin lost)
         => table = DriftAt(head)
    /\ (runPc = "sync" /\ ~moved /\ "table" \notin lost) => checked /\ table = DriftAt(head)
    /\ runPc = "walk" => \A d \in Docs : MergedRow(found[d], d, head, next - 1)

LEMMA NextTable ==
    ASSUME Local = {}, TableInv, [Next]_vars PROVE TableInv'
<1> USE SizeAssumption
<1>0. DriftTypeOK /\ DriftTypeOK' /\ since \in Ages /\ head \in [Repos -> Commits]
  BY NextTypes DEF TableInv, DriftTypeOK, Ages
<1>1. ASSUME since' = since, head' = head
      PROVE  /\ DriftAt(head)' = DriftAt(head)
             /\ \A row, d, n : MergedRow(row, d, head, n)' <=> MergedRow(row, d, head, n)
  BY <1>1 DEF DriftAt, MergedRow, Behind, N
<1>2. CASE StartCheck
  <2>1. PICK ds \in SUBSET Docs : Reindexed(ds) /\ moved' = (ds # {} \/ ~checked)
    BY <1>2 DEF StartCheck
  <2>2. CASE ds = {}
    <3>1. \A d \in Docs : since'[d] = since[d]
      BY <2>1, <2>2 DEF Reindexed
    <3>2. since' = since
      BY <1>0, <3>1 DEF DriftTypeOK
    <3>3. QED
      BY <1>0, <1>1, <1>2, <2>1, <3>2 DEF StartCheck, TableInv
  <2>3. CASE ds # {}
    BY <1>0, <1>2, <2>1, <2>3 DEF StartCheck, TableInv
  <2>4. QED
    BY <2>2, <2>3
<1>3. CASE SyncCode
  <2>1. next \in Repos
    BY <1>3 DEF SyncCode, TableInv, DriftTypeOK, Repos
  <2>2. CASE moved'
    BY <1>0, <1>3, <2>2 DEF SyncCode, TableInv
  <2>3. CASE ~moved'
    <3>1. head[next] = remote[next] /\ ~moved
      BY <1>3, <2>3 DEF SyncCode
    <3>2. head' = head
      BY <1>0, <1>3, <2>1, <3>1 DEF SyncCode
    <3>3. QED
      BY <1>0, <1>1, <1>3, <3>1, <3>2 DEF SyncCode, TableInv
  <2>4. QED
    BY <2>2, <2>3
<1>4. CASE StartWalk
  <2>1. \A d \in Docs : MergedRow(NoRow, d, head, 0)
    BY DEF MergedRow
  <2>2. \A d \in Docs : MergedRow(found[d], d, head, next - 1)'
    BY <1>1, <1>4, <2>1 DEF StartWalk, None
  <2>3. QED
    BY <1>0, <1>4, <2>2 DEF StartWalk, TableInv
<1>5. CASE Walk
  <2>1. next \in Repos /\ next' = next + 1 /\ since' = since /\ head' = head
    BY <1>5 DEF Walk, TableInv, DriftTypeOK, Repos
  <2>2. \A d \in Docs :
          MergedRow(Worse(found[d], RowOf(next, Behind(d, next, head[next]))), d, head, next)
    BY <1>0, <1>5, <2>1, MergeOneMore DEF TableInv, Walk
  <2>3. \A d \in Docs : MergedRow(found'[d], d, head, next)
    BY <1>5, <2>2 DEF Walk, WalkedHead
  <2>4. next = next' - 1
    BY <2>1 DEF Repos
  <2>5. \A d \in Docs : MergedRow(found[d], d, head, next - 1)'
    BY <1>1, <2>1, <2>3, <2>4
  <2>6. QED
    BY <1>0, <1>5, <2>5 DEF Walk, TableInv
<1>6. CASE ReplaceDrift
  <2>1. next = NumRepos + 1
    BY <1>6 DEF ReplaceDrift, TableInv, DriftTypeOK
  <2>2. \A d \in Docs : MergedRow(found[d], d, head, NumRepos)
    BY <1>6, <2>1 DEF ReplaceDrift, TableInv
  <2>3. \A d \in Docs : found[d] = DriftAt(head)[d]
    BY <1>0, <2>2, MergeIsDrift
  <2>4. found = DriftAt(head)
    BY <1>0, <2>3 DEF DriftTypeOK, DriftAt
  <2>5. table' = DriftAt(head)'
    BY <1>1, <1>6, <2>4 DEF ReplaceDrift
  <2>6. QED
    BY <1>0, <1>6, <2>5 DEF ReplaceDrift, TableInv
<1>7. CASE IndexFails
  BY <1>0, <1>7 DEF IndexFails, TableInv
<1>8. CASE SyncFails
  BY <1>0, <1>8 DEF SyncFails, TableInv
<1>9. CASE CheckFails
  BY <1>0, <1>1, <1>9 DEF CheckFails, TableInv
<1>10. CASE Restart
  BY <1>0, <1>10 DEF Restart, TableInv
<1>11. CASE NothingMoved
  BY <1>0, <1>1, <1>11 DEF NothingMoved, TableInv
<1>12. CASE Invalidate
  BY <1>0, <1>1, <1>12 DEF Invalidate, TableInv
<1>13. CASE UNCHANGED vars \/ \E r \in Repos : CommitCode(r)
  <2>1. UNCHANGED <<head, since, table, checked, runPc, moved, next, found, lost>>
    BY <1>13 DEF vars, CommitCode
  <2>2. QED
    BY <1>0, <1>1, <2>1 DEF TableInv
<1>14. QED
  BY <1>2, <1>3, <1>4, <1>5, <1>6, <1>7, <1>8, <1>9, <1>10, <1>11, <1>12, <1>13 DEF Next

(* Between runs the drift table is exact for the fetched heads, unless a   *)
(* fault since the last walk left it behind, as long as no repository is   *)
(* opened in place: the walk is skipped only when it would find the same   *)
(* table (serve.go:574-588), and merging one repository after the other    *)
(* finds the one each document is furthest behind (serve.go:606-613).      *)
THEOREM DriftTableExact == Local = {} => (Spec => []TableIsExact)
<1> SUFFICES ASSUME Local = {} PROVE Spec => []TableIsExact
  OBVIOUS
<1>1. Init => TableInv
  BY InitTypes DEF Init, TableInv
<1>2. TableInv /\ [Next]_vars => TableInv'
  BY NextTable
<1>3. TableInv => TableIsExact
  BY DEF TableInv, TableIsExact
<1>4. QED
  BY <1>1, <1>2, <1>3, PTL DEF Spec
-----------------------------------------------------------------------------
(* The link graph.                                                         *)


(* The documents the rows ls come from.                                    *)
Sources(ls) == {r.from : r \in ls}

LinkRows == [from : Documents, target : Targets, to : {NoDoc} \union Documents]

(* What a row says once its run has resolved it against the documents ds.  *)
Resolved(ls, ds) == \A r \in ls : r.to = Resolve(r.from, r.target, ds)

(* The three queries.                                                      *)
EdgesOf(ls)       == {<<r.from, r.to>> : r \in {r \in ls : r.to \notin {NoDoc, r.from}}}
BrokenOf(ls)      == {<<r.from, r.target>> : r \in {r \in ls : r.to = NoDoc}}
BacklinksOf(ls, d) == {r.from : r \in {r \in ls : r.to = d /\ r.from # d}}

-----------------------------------------------------------------------------
(* The tables.  A row belongs to a document, to one whose deletion was cut *)
(* short, or to the one that is being deleted; and the rows are resolved   *)
(* until a run writes, or, once a run was interrupted, never mind.         *)

Tables ==
    /\ documents \subseteq Documents
    /\ docLinks \subseteq LinkRows
    /\ IsFiniteSet(Sources(docLinks))
    /\ doomed \in {NoDoc} \union Documents /\ (indexPc = "unlink" <=> doomed # NoDoc)
    /\ indexPc \in {"idle", "write", "unlink", "delete"}
    /\ loose \in BOOLEAN /\ removed \in BOOLEAN

RowsOwned == Sources(docLinks) \subseteq documents \union ghosts \union {doomed}

Untouched == indexPc = "idle" \/ (indexPc \in {"write", "delete"} /\ upserted = {} /\ ~removed)
RowsResolved == Untouched /\ ~loose => Resolved(docLinks, documents)

(* The reader.  What it has seen first stays true of the links it saw.     *)
Reader ==
    /\ graph.pc \in {"edges", "broken", "done"} =>
          /\ graph.nodes \subseteq Documents /\ graph.links \subseteq LinkRows
          /\ IsFiniteSet(Sources(graph.links))
          /\ graph.in = [d \in graph.nodes |-> Cardinality(BacklinksOf(graph.links, d))]
          /\ graph.resting =>
                /\ Sources(graph.links) \subseteq graph.nodes \union graph.ghosts
                /\ ~graph.loose => Resolved(graph.links, graph.nodes)
    /\ graph.pc \in {"broken", "done"} /\ graph.same => graph.edges = EdgesOf(graph.links)
    /\ graph.pc = "done" /\ graph.same => graph.broken = BrokenOf(graph.links)

GraphRecord ==
    /\ graph = [pc |-> graph.pc, nodes |-> graph.nodes, links |-> graph.links, in |-> graph.in,
                edges |-> graph.edges, broken |-> graph.broken, same |-> graph.same,
                resting |-> graph.resting, ghosts |-> graph.ghosts, loose |-> graph.loose]
    /\ graph.same \in BOOLEAN

GraphInv == Tables /\ RowsOwned /\ RowsResolved /\ Reader /\ GraphRecord

-----------------------------------------------------------------------------
LEMMA NoDocIsNone == NoDoc \notin Documents
BY LinkGraphAssumption

LEMMA NoSources == Sources({}) = {} /\ IsFiniteSet(Sources({}))
BY FS_EmptySet DEF Sources

(* Fewer rows come from fewer documents.                                   *)
LEMMA FewerSources ==
    ASSUME NEW ls, IsFiniteSet(Sources(ls)), NEW ms \in SUBSET ls
    PROVE  Sources(ms) \subseteq Sources(ls) /\ IsFiniteSet(Sources(ms))
<1>1. Sources(ms) \subseteq Sources(ls)
  BY DEF Sources
<1> QED BY <1>1, FS_Subset

(* Each backlink of d is one edge to it.                                   *)
LEMMA BacklinksAreEdges ==
    ASSUME NEW ls, IsFiniteSet(Sources(ls)), NEW d, d # NoDoc
    PROVE  Cardinality(BacklinksOf(ls, d)) = Cardinality({e \in EdgesOf(ls) : e[2] = d})
<1> DEFINE backlinks == BacklinksOf(ls, d)
           edges     == {e \in EdgesOf(ls) : e[2] = d}
           edge      == [x \in backlinks |-> <<x, d>>]
<1>1. IsFiniteSet(backlinks)
  <2>1. backlinks \subseteq Sources(ls)
    BY DEF BacklinksOf, Sources
  <2> QED BY <2>1, FS_Subset
<1>2. \A x : x \in backlinks <=> <<x, d>> \in edges
  <2>1. ASSUME NEW x, x \in backlinks PROVE <<x, d>> \in edges
    <3>1. PICK r \in ls : r.to = d /\ r.from # d /\ x = r.from
      BY <2>1 DEF BacklinksOf
    <3> QED BY <3>1 DEF EdgesOf
  <2>2. ASSUME NEW x, <<x, d>> \in edges PROVE x \in backlinks
    <3>1. PICK r \in ls : r.to \notin {NoDoc, r.from} /\ <<x, d>> = <<r.from, r.to>>
      BY <2>2 DEF EdgesOf
    <3> QED BY <3>1 DEF BacklinksOf
  <2> QED BY <2>1, <2>2
<1>3. \A e \in edges : e = <<e[1], d>> /\ e[1] \in backlinks
  <2> SUFFICES ASSUME NEW e \in edges PROVE e = <<e[1], d>>
    BY <1>2
  <2>1. PICK r \in ls : e = <<r.from, r.to>>
    BY DEF EdgesOf
  <2> QED BY <2>1
<1> HIDE DEF backlinks, edges
<1>4. edge \in Bijection(backlinks, edges)
  <2>1. edge \in [backlinks -> edges]
    BY <1>2
  <2>2. \A x, y \in backlinks : edge[x] = edge[y] => x = y
    OBVIOUS
  <2>3. \A e \in edges : \E x \in backlinks : edge[x] = e
    BY <1>3
  <2> QED BY <2>1, <2>2, <2>3, Fun_IsBij
<1>5. ExistsBijection(backlinks, edges)
  BY <1>4 DEF ExistsBijection
<1> QED BY <1>1, <1>5, FS_Bijection DEF backlinks, edges

-----------------------------------------------------------------------------
(* A target resolves to a document that is there, or to none.              *)
LEMMA ResolveType ==
    ASSUME NEW d \in Documents, NEW t \in Targets, NEW ds
    PROVE  Resolve(d, t, ds) \in {NoDoc} \union (Documents \intersect ds)
<1> DEFINE places == Candidates[d, t]
           hit  == {i \in DOMAIN places : places[i] \in ds}
<1>1. places \in Seq(Documents)
  BY LinkGraphAssumption
<1>2. /\ hit \subseteq Nat
      /\ \A i \in hit : places[i] \in Documents /\ places[i] \in ds
  <2> HIDE DEF places
  <2>1. DOMAIN places \subseteq Nat /\ \A i \in DOMAIN places : places[i] \in Documents
    BY <1>1
  <2> QED BY <2>1
<1>3. Resolve(d, t, ds) = IF hit = {} THEN NoDoc ELSE places[Min(hit)]
  BY DEF Resolve
<1> HIDE DEF places, hit
<1>4. hit # {} => Min(hit) \in hit
  BY <1>2, LeastElement DEF Min
<1> QED BY <1>2, <1>3, <1>4

-----------------------------------------------------------------------------
(* What each query returns.                                                *)
LEMMA ReaderSteps ==
    ASSUME GraphInv, QueryNodes \/ QueryEdges \/ QueryBroken \/ Answered
    PROVE  GraphInv'
<1>1. UNCHANGED <<tableVars, runVars>>
  BY DEF QueryNodes, QueryEdges, QueryBroken, Answered
<1>2. Tables' /\ RowsOwned' /\ RowsResolved'
  BY <1>1 DEF GraphInv, Tables, RowsOwned, RowsResolved, Untouched, tableVars, runVars
<1>3. CASE QueryNodes
  <2> DEFINE backlinks == [d \in documents |-> Cardinality(BacklinksOf(docLinks, d))]
  <2>1. graph' = [pc |-> "edges", nodes |-> documents, links |-> docLinks, in |-> backlinks,
                  edges |-> {}, broken |-> {}, same |-> TRUE, resting |-> indexPc = "idle",
                  ghosts |-> ghosts, loose |-> loose]
    BY <1>3 DEF QueryNodes, NoGraph, BacklinksOf
  <2>2. indexPc = "idle" => /\ Sources(docLinks) \subseteq documents \union ghosts
                            /\ ~loose => Resolved(docLinks, documents)
    BY NoDocIsNone DEF GraphInv, Tables, RowsOwned, RowsResolved, Untouched, LinkRows, Sources
  <2> HIDE DEF backlinks
  <2>3. GraphRecord'
    BY <2>1 DEF GraphRecord
  <2>4. Reader'
    BY <2>1, <2>2 DEF Reader, GraphInv, Tables, backlinks
  <2> QED BY <1>2, <2>3, <2>4 DEF GraphInv
<1>4. CASE QueryEdges
  <2> DEFINE same == graph.same /\ Seen
  <2>1. /\ graph' = [graph EXCEPT !.pc = "broken", !.same = same, !.edges = EdgesOf(docLinks)]
        /\ graph.pc = "edges"
    BY <1>4 DEF QueryEdges, EdgesOf
  <2>2. (same => graph.same /\ graph.links = docLinks) /\ same \in BOOLEAN
    BY DEF GraphInv, GraphRecord, Seen
  <2> HIDE DEF same
  <2>3. graph' = [pc |-> "broken", nodes |-> graph.nodes, links |-> graph.links, in |-> graph.in,
                  edges |-> EdgesOf(docLinks), broken |-> graph.broken, same |-> same,
                  resting |-> graph.resting, ghosts |-> graph.ghosts, loose |-> graph.loose]
    BY <2>1 DEF GraphInv, GraphRecord
  <2>4. GraphRecord'
    BY <2>2, <2>3 DEF GraphRecord
  <2>5. Reader'
    BY <2>1, <2>2, <2>3 DEF Reader, GraphInv
  <2> QED BY <1>2, <2>4, <2>5 DEF GraphInv
<1>5. CASE QueryBroken
  <2> DEFINE same == graph.same /\ Seen
  <2>1. /\ graph' = [graph EXCEPT !.pc = "done", !.same = same, !.broken = BrokenOf(docLinks)]
        /\ graph.pc = "broken"
    BY <1>5 DEF QueryBroken, BrokenOf
  <2>2. (same => graph.same /\ graph.links = docLinks) /\ same \in BOOLEAN
    BY DEF GraphInv, GraphRecord, Seen
  <2> HIDE DEF same
  <2>3. graph' = [pc |-> "done", nodes |-> graph.nodes, links |-> graph.links, in |-> graph.in,
                  edges |-> graph.edges, broken |-> BrokenOf(docLinks), same |-> same,
                  resting |-> graph.resting, ghosts |-> graph.ghosts, loose |-> graph.loose]
    BY <2>1 DEF GraphInv, GraphRecord
  <2>4. GraphRecord'
    BY <2>2, <2>3 DEF GraphRecord
  <2>5. Reader'
    BY <2>1, <2>2, <2>3 DEF Reader, GraphInv
  <2> QED BY <1>2, <2>4, <2>5 DEF GraphInv
<1>6. CASE Answered
  <2>1. Reader' /\ GraphRecord'
    BY <1>6 DEF Answered, NoGraph, Reader, GraphRecord
  <2> QED BY <1>2, <2>1 DEF GraphInv
<1> QED BY <1>3, <1>4, <1>5, <1>6

-----------------------------------------------------------------------------
(* The run does not touch what the reader holds.                           *)
LEMMA ReaderKeepsWhatItSaw ==
    ASSUME GraphInv, graph' = graph
    PROVE  Reader' /\ GraphRecord'
BY DEF GraphInv, Reader, GraphRecord

(* Resolving rewrites rows in place.                                       *)
ResolveRows(ls, ds) == {[r EXCEPT !.to = Resolve(r.from, r.target, ds)] : r \in ls}

LEMMA ResolvedRows ==
    ASSUME NEW ls \in SUBSET LinkRows, NEW ds \in SUBSET Documents
    PROVE  /\ ResolveRows(ls, ds) \subseteq LinkRows
           /\ Sources(ResolveRows(ls, ds)) = Sources(ls)
           /\ Resolved(ResolveRows(ls, ds), ds)
<1> DEFINE ms     == ResolveRows(ls, ds)
           row(r) == [from |-> r.from, target |-> r.target, to |-> Resolve(r.from, r.target, ds)]
<1>1. ms = {row(r) : r \in ls}
  BY DEF ResolveRows, LinkRows
<1> HIDE DEF ms
<1>2. \A r \in ls : r.from \in Documents /\ r.target \in Targets
  BY DEF LinkRows
<1>3. ASSUME NEW r \in ls PROVE row(r) \in LinkRows
  BY <1>2, ResolveType DEF LinkRows
<1>4. ms \subseteq LinkRows
  BY <1>1, <1>3
<1>5. Sources(ms) = Sources(ls)
  <2>1. \A r \in ls : row(r).from = r.from
    OBVIOUS
  <2> HIDE DEF row
  <2>2. Sources(ms) \subseteq Sources(ls) /\ Sources(ls) \subseteq Sources(ms)
    BY <1>1, <2>1 DEF Sources
  <2> QED BY <2>2
<1>6. Resolved(ms, ds)
  BY <1>1 DEF Resolved
<1> QED BY <1>4, <1>5, <1>6 DEF ms

(* LinkRows of one more document.                                              *)
RowsOfOneMore(ls, d, ts) ==
    {r \in ls : r.from # d} \union {[from |-> d, target |-> t, to |-> NoDoc] : t \in ts}

LEMMA WrittenRows ==
    ASSUME NEW ls \in SUBSET LinkRows, IsFiniteSet(Sources(ls)), NEW d \in Documents,
           NEW ts \in SUBSET Targets
    PROVE  /\ RowsOfOneMore(ls, d, ts) \subseteq LinkRows
           /\ IsFiniteSet(Sources(RowsOfOneMore(ls, d, ts)))
           /\ Sources(RowsOfOneMore(ls, d, ts)) \subseteq Sources(ls) \union {d}
<1>1. RowsOfOneMore(ls, d, ts) \subseteq LinkRows
  BY DEF RowsOfOneMore, LinkRows
<1>2. Sources(RowsOfOneMore(ls, d, ts)) \subseteq Sources(ls) \union {d}
  BY DEF RowsOfOneMore, Sources
<1>3. IsFiniteSet(Sources(ls) \union {d})
  BY FS_AddElement
<1> QED BY <1>1, <1>2, <1>3, FS_Subset

LEMMA RunSteps ==
    ASSUME GraphInv,
           \/ BeginIndexing
           \/ \E d \in Documents : RemoveRow(d) \/ \E ts \in SUBSET Targets : WriteDocument(d, ts)
           \/ RemoveLinks \/ ResolveAll \/ StopHalfWay
    PROVE  GraphInv'
<1> USE NoDocIsNone DEF tableVars
<1>0. /\ documents \subseteq Documents /\ docLinks \subseteq LinkRows /\ IsFiniteSet(Sources(docLinks))
      /\ doomed \in {NoDoc} \union Documents /\ (indexPc = "unlink" <=> doomed # NoDoc)
      /\ indexPc \in {"idle", "write", "unlink", "delete"}
      /\ loose \in BOOLEAN /\ removed \in BOOLEAN
      /\ Sources(docLinks) \subseteq documents \union ghosts \union {doomed}
      /\ Sources(docLinks) \subseteq Documents
  BY DEF GraphInv, Tables, RowsOwned, Sources, LinkRows
<1>1. CASE BeginIndexing
  <2>1. Tables' /\ RowsOwned'
    BY <1>0, <1>1 DEF BeginIndexing, Tables, RowsOwned
  <2>2. RowsResolved'
    BY <1>1 DEF BeginIndexing, GraphInv, RowsResolved, Untouched
  <2> QED BY <1>1, <2>1, <2>2, ReaderKeepsWhatItSaw DEF BeginIndexing, GraphInv
<1>2. ASSUME NEW d \in Documents, NEW ts \in SUBSET Targets, WriteDocument(d, ts) PROVE GraphInv'
  <2>1. /\ docLinks' \subseteq LinkRows /\ IsFiniteSet(Sources(docLinks'))
        /\ Sources(docLinks') \subseteq Sources(docLinks) \union {d}
    <3>1. docLinks' = RowsOfOneMore(docLinks, d, ts)
      BY <1>2 DEF WriteDocument, RowsOfOneMore
    <3> QED BY <1>0, <3>1, WrittenRows
  <2>2. Tables' /\ RowsOwned'
    BY <1>0, <1>2, <2>1 DEF WriteDocument, Tables, RowsOwned
  <2>3. upserted' # {} /\ indexPc' = "write"
    BY <1>2 DEF WriteDocument
  <2>4. RowsResolved'
    BY <2>3 DEF RowsResolved, Untouched
  <2> QED BY <1>2, <2>2, <2>4, ReaderKeepsWhatItSaw DEF WriteDocument, GraphInv
<1>3. ASSUME NEW d \in Documents, RemoveRow(d) PROVE GraphInv'
  <2>1. Tables' /\ RowsOwned'
    BY <1>0, <1>3 DEF RemoveRow, Tables, RowsOwned
  <2>2. RowsResolved'
    BY <1>3 DEF RemoveRow, RowsResolved, Untouched
  <2> QED BY <1>3, <2>1, <2>2, ReaderKeepsWhatItSaw DEF RemoveRow, GraphInv
<1>4. CASE RemoveLinks
  <2>1. docLinks' \in SUBSET docLinks /\ \A r \in docLinks' : r.from # doomed
    BY <1>4 DEF RemoveLinks
  <2>2. Sources(docLinks') \subseteq Sources(docLinks) \ {doomed} /\ IsFiniteSet(Sources(docLinks'))
    BY <1>0, <2>1, FewerSources DEF Sources
  <2>3. Tables' /\ RowsOwned'
    BY <1>0, <1>4, <2>1, <2>2 DEF RemoveLinks, Tables, RowsOwned
  <2>4. RowsResolved'
    BY <1>4 DEF RemoveLinks, RowsResolved, Untouched
  <2> QED BY <1>4, <2>3, <2>4, ReaderKeepsWhatItSaw DEF RemoveLinks, GraphInv
<1>5. CASE ResolveAll
  <2>1. CASE upserted = {} /\ ~removed
    <3>1. UNCHANGED <<documents, docLinks, doomed, ghosts, removed>> /\ indexPc' = "idle"
          /\ indexPc \in {"write", "delete"} /\ loose' = loose
      BY <1>0, <1>5, <2>1 DEF ResolveAll
    <3>2. Tables' /\ RowsOwned'
      BY <1>0, <3>1 DEF Tables, RowsOwned
    <3>3. RowsResolved'
      BY <2>1, <3>1 DEF GraphInv, RowsResolved, Untouched
    <3> QED BY <1>5, <3>2, <3>3, ReaderKeepsWhatItSaw DEF ResolveAll, GraphInv
  <2>2. CASE ~(upserted = {} /\ ~removed)
    <3>1. /\ UNCHANGED <<documents, doomed, ghosts, removed>> /\ indexPc' = "idle"
          /\ indexPc \in {"write", "delete"} /\ loose' \in BOOLEAN
      BY <1>0, <1>5 DEF ResolveAll
    <3>2. /\ docLinks' \subseteq LinkRows /\ Sources(docLinks') = Sources(docLinks)
          /\ Resolved(docLinks', documents)
      <4>1. docLinks' = ResolveRows(docLinks, documents)
        BY <1>5, <2>2 DEF ResolveAll, ResolveRows
      <4>2. docLinks \in SUBSET LinkRows /\ documents \in SUBSET Documents
        BY <1>0
      <4> QED BY <4>1, <4>2, ResolvedRows
    <3>3. Tables' /\ RowsOwned'
      BY <1>0, <3>1, <3>2 DEF Tables, RowsOwned
    <3>4. RowsResolved'
      BY <3>1, <3>2 DEF RowsResolved
    <3> QED BY <1>5, <3>3, <3>4, ReaderKeepsWhatItSaw DEF ResolveAll, GraphInv
  <2> QED BY <2>1, <2>2
<1>6. CASE StopHalfWay
  <2>1. Tables' /\ RowsOwned'
    BY <1>0, <1>6 DEF StopHalfWay, Tables, RowsOwned
  <2>2. RowsResolved'
    BY <1>0, <1>6 DEF StopHalfWay, GraphInv, RowsResolved, Untouched
  <2> QED BY <1>6, <2>1, <2>2, ReaderKeepsWhatItSaw DEF StopHalfWay, GraphInv
<1> QED BY <1>1, <1>2, <1>3, <1>4, <1>5, <1>6

LEMMA GraphInvImpliesExact == GraphInv => GraphIsExact
<1> SUFFICES ASSUME GraphInv, graph.pc = "done", graph.same, graph.resting PROVE GraphIsExact
  BY DEF GraphIsExact
<1>1. /\ graph.nodes \subseteq Documents /\ graph.links \subseteq LinkRows
      /\ IsFiniteSet(Sources(graph.links))
      /\ graph.in = [d \in graph.nodes |-> Cardinality(BacklinksOf(graph.links, d))]
      /\ Sources(graph.links) \subseteq graph.nodes \union graph.ghosts
      /\ ~graph.loose => Resolved(graph.links, graph.nodes)
      /\ graph.edges = EdgesOf(graph.links) /\ graph.broken = BrokenOf(graph.links)
  BY DEF GraphInv, Reader
<1>2. {r.from : r \in graph.links} \subseteq graph.nodes \union graph.ghosts
  BY <1>1 DEF Sources
<1>3. ASSUME NEW d \in graph.nodes
      PROVE  graph.in[d] = Cardinality({e \in graph.edges : e[2] = d})
  <2>1. d # NoDoc
    BY <1>1, NoDocIsNone
  <2> QED BY <1>1, <2>1, BacklinksAreEdges
<1>4. ASSUME ~graph.loose
      PROVE  /\ graph.edges = {<<r.from, Resolve(r.from, r.target, graph.nodes)>> : r \in
                                 {r \in graph.links : Resolve(r.from, r.target, graph.nodes)
                                                        \notin {NoDoc, r.from}}}
             /\ graph.broken = {<<r.from, r.target>> : r \in
                                 {r \in graph.links : Resolve(r.from, r.target, graph.nodes) = NoDoc}}
  <2>1. \A r \in graph.links : r.to = Resolve(r.from, r.target, graph.nodes)
    BY <1>1, <1>4 DEF Resolved
  <2>2. graph.edges = EdgesOf(graph.links) /\ graph.broken = BrokenOf(graph.links)
    BY <1>1
  <2> QED BY <2>1, <2>2 DEF EdgesOf, BrokenOf
<1> QED BY <1>2, <1>3, <1>4 DEF GraphIsExact

(* Whatever the runs did and wherever they stopped, a graph read while     *)
(* nothing was written is the one the documents' links give: every row is  *)
(* of a document or of one whose deletion was cut short, each backlink     *)
(* counted is an edge shown, and the links are those the targets resolve to*)
(* unless an interrupted run left them loose (links.go:187-256).           *)
THEOREM GraphCorrect == GraphSpec => []GraphIsExact
<1>1. GraphInit => GraphInv
  <2> SUFFICES ASSUME GraphInit PROVE GraphInv
    OBVIOUS
  <2>1. Tables /\ RowsOwned
    BY NoSources DEF GraphInit, Tables, RowsOwned
  <2>2. RowsResolved
    BY DEF GraphInit, RowsResolved, Resolved
  <2>3. Reader /\ GraphRecord
    BY DEF GraphInit, NoGraph, Reader, GraphRecord
  <2> QED BY <2>1, <2>2, <2>3 DEF GraphInv
<1>2. GraphInv /\ [GraphNext]_graphVars => GraphInv'
  <2> SUFFICES ASSUME GraphInv, [GraphNext]_graphVars PROVE GraphInv'
    OBVIOUS
  <2>1. CASE UNCHANGED graphVars
    BY <2>1 DEF graphVars, tableVars, runVars, GraphInv, Tables, RowsOwned, RowsResolved, Untouched,
                Reader, GraphRecord
  <2> QED BY <2>1, RunSteps, ReaderSteps DEF GraphNext
<1> QED BY <1>1, <1>2, GraphInvImpliesExact, PTL DEF GraphSpec

-----------------------------------------------------------------------------
(* Chunks.  Blocks follow each other.                                      *)
EndOf(i) == IF i = 0 THEN 0 ELSE body[i].end

Blocks == [level : Nat, text : Texts, start : Nat, end : Nat]

LEMMA BlocksAre ==
    ASSUME body \in Bodies
    PROVE  /\ body \in Seq(Blocks) /\ DOMAIN body = 1 .. Len(body) /\ Len(body) \in Nat
           /\ \A i \in 1 .. Len(body) :
                 /\ body[i].level \in Nat /\ body[i].text \in Texts
                 /\ body[i].start \in Nat /\ body[i].end \in Nat
                 /\ body[i].start < body[i].end /\ body[i].start = EndOf(i - 1)
                 /\ body[i].level # 0 => body[i].text # NoTitle
           /\ \A i, j \in 1 .. Len(body) : i < j => body[i].end <= body[j].start
           /\ Length = EndOf(Len(body)) /\ \A i \in 0 .. Len(body) : EndOf(i) \in Nat
<1>1. /\ body \in Seq(Blocks)
      /\ \A i \in DOMAIN body : /\ body[i].start < body[i].end
                                /\ body[i].start = IF i = 1 THEN 0 ELSE body[i - 1].end
                                /\ body[i].level # 0 => body[i].text # NoTitle
  BY ChunkerAssumption DEF Blocks
<1>2. DOMAIN body = 1 .. Len(body) /\ Len(body) \in Nat
  BY <1>1
<1>3. \A i \in 1 .. Len(body) : body[i] \in Blocks
  BY <1>1, <1>2
<1>4. \A i \in 1 .. Len(body) :
         /\ body[i].level \in Nat /\ body[i].text \in Texts
         /\ body[i].start \in Nat /\ body[i].end \in Nat
         /\ body[i].start < body[i].end /\ body[i].start = EndOf(i - 1)
         /\ body[i].level # 0 => body[i].text # NoTitle
  <2> SUFFICES ASSUME NEW i \in 1 .. Len(body)
               PROVE  /\ body[i].level \in Nat /\ body[i].text \in Texts
                      /\ body[i].start \in Nat /\ body[i].end \in Nat
                      /\ body[i].start < body[i].end /\ body[i].start = EndOf(i - 1)
                      /\ body[i].level # 0 => body[i].text # NoTitle
    OBVIOUS
  <2>1. body[i] \in Blocks
    BY <1>3
  <2>2. i - 1 = 0 <=> i = 1
    BY <1>2
  <2> QED BY <1>1, <1>2, <2>1, <2>2 DEF Blocks, EndOf
<1>5. \A i, j \in 1 .. Len(body) : i < j => body[i].end <= body[j].start
  <2> SUFFICES ASSUME NEW i \in 1 .. Len(body)
               PROVE  \A j \in 1 .. Len(body) : i < j => body[i].end <= body[j].start
    OBVIOUS
  <2> DEFINE T == {j \in 1 .. Len(body) : i < j /\ ~ (body[i].end <= body[j].start)}
  <2> SUFFICES ASSUME T # {} PROVE FALSE
    OBVIOUS
  <2>1. T \in SUBSET Nat
    BY <1>2
  <2>2. PICK j \in T : \A k \in T : j <= k
    <3> HIDE DEF T
    <3> QED BY <2>1, LeastElement
  <2>3. j \in 1 .. Len(body) /\ i < j /\ j - 1 \in 1 .. Len(body) /\ j # 1
    BY <1>2
  <2>4. body[j].start = body[j - 1].end
    BY <1>4, <2>3 DEF EndOf
  <2>5. j - 1 \notin T
    BY <2>2, <2>3
  <2>6. CASE j - 1 = i
    BY <1>4, <2>3, <2>4, <2>6
  <2>7. CASE j - 1 # i
    <3>1. body[i].end <= body[j - 1].start
      BY <2>3, <2>5, <2>7
    <3>2. /\ body[j - 1].start \in Nat /\ body[j - 1].end \in Nat /\ body[i].end \in Nat
          /\ body[j - 1].start < body[j - 1].end
      BY <1>4, <2>3
    <3>3. body[i].end <= body[j].start
      BY <2>4, <3>1, <3>2
    <3> QED BY <2>2, <3>3
  <2> QED BY <2>6, <2>7
<1>6. Length = EndOf(Len(body)) /\ \A i \in 0 .. Len(body) : EndOf(i) \in Nat
  <2>1. body = <<>> <=> Len(body) = 0
    BY <1>1
  <2> QED BY <1>2, <1>4, <2>1 DEF Length, EndOf
<1> QED BY <1>1, <1>2, <1>4, <1>5, <1>6

(* The headings of a block, from those of the block before it.             *)
LEMMA LastOfStep ==
    ASSUME body \in Bodies, NEW n \in 1 .. Len(body), NEW levels
    PROVE  /\ body[n].level \in levels => LastOf(n, levels) = n
           /\ body[n].level \notin levels => LastOf(n, levels) = LastOf(n - 1, levels)
<1>0. Len(body) \in Nat
  BY BlocksAre
<1>1. ASSUME body[n].level \in levels PROVE LastOf(n, levels) = n
  <2> DEFINE js == {j \in 1 .. n : body[j].level \in levels}
  <2>1. n \in js /\ \A k \in js : k <= n
    BY <1>0, <1>1
  <2>2. \A j \in js : (\A k \in js : k <= j) => j = n
    BY <1>0, <2>1
  <2>3. (CHOOSE j \in js : \A k \in js : k <= j) = n
    <3> HIDE DEF js
    <3> QED BY <2>1, <2>2
  <2> QED BY <2>1, <2>3 DEF LastOf
<1>2. ASSUME body[n].level \notin levels PROVE LastOf(n, levels) = LastOf(n - 1, levels)
  <2> DEFINE Top(js) == IF js = {} THEN 0 ELSE CHOOSE j \in js : \A k \in js : k <= j
             Js(i)   == {j \in 1 .. i : body[j].level \in levels}
  <2>1. Js(n) = Js(n - 1)
    BY <1>0, <1>2
  <2>2. LastOf(n, levels) = Top(Js(n)) /\ LastOf(n - 1, levels) = Top(Js(n - 1))
    BY DEF LastOf
  <2> HIDE DEF Top, Js
  <2> QED BY <2>1, <2>2
<1> QED BY <1>1, <1>2

(* Breadcrumbs of one, two and three texts.                                *)
LEMMA Breadcrumbs ==
    ASSUME NEW t \in Texts, NEW x \in Texts
    PROVE  /\ (<<t>> \o <<>>) \o <<>> = <<t>>
           /\ (<<t>> \o <<x>>) \o <<>> = <<t, x>>
           /\ (<<t>> \o <<>>) \o <<x>> = <<t, x>>
<1>1. <<t>> \in Seq(Texts) /\ <<x>> \in Seq(Texts) /\ <<t, x>> \in Seq(Texts)
  OBVIOUS
<1>2. <<t>> \o <<x>> = <<t, x>>
  <2> DEFINE s == <<t>> \o <<x>>
  <2>1. /\ s \in Seq(Texts) /\ Len(s) = Len(<<t>>) + Len(<<x>>)
        /\ \A i \in 1 .. Len(<<t>>) + Len(<<x>>) :
              s[i] = IF i <= Len(<<t>>) THEN <<t>>[i] ELSE <<x>>[i - Len(<<t>>)]
    BY <1>1, ConcatProperties
  <2>2. Len(<<t>>) = 1 /\ Len(<<x>>) = 1 /\ Len(<<t, x>>) = 2
    OBVIOUS
  <2>3. s[1] = t /\ s[2] = x
    BY <2>1, <2>2
  <2>4. <<t, x>>[1] = t /\ <<t, x>>[2] = x
    OBVIOUS
  <2>5. \A i \in 1 .. 2 : s[i] = <<t, x>>[i]
    <3>1. \A i \in 1 .. 2 : i = 1 \/ i = 2
      OBVIOUS
    <3> HIDE DEF s
    <3> QED BY <2>3, <2>4, <3>1
  <2> HIDE DEF s
  <2>6. s = <<t, x>>
    BY <1>1, <2>1, <2>2, <2>5, SeqEqual
  <2> QED BY <2>6 DEF s
<1>3. <<t>> \o <<>> = <<t>> /\ <<t, x>> \o <<>> = <<t, x>>
  BY <1>1, ConcatEmptySeq
<1> QED BY <1>2, <1>3

LEMMA UnderStep ==
    ASSUME body \in Bodies, NEW n \in 1 .. Len(body), title \in Texts
    PROVE  /\ body[n].level \notin 1 .. 3 =>
                 EnclosingOf(n, 2) = EnclosingOf(n - 1, 2) /\ Under(n) = Under(n - 1)
           /\ body[n].level = 1 => EnclosingOf(n, 2) = <<>> /\ Under(n) = <<title>>
           /\ body[n].level = 2 => /\ EnclosingOf(n, 2) = <<body[n].text>>
                                   /\ Under(n) = <<title, body[n].text>>
           /\ body[n].level = 3 =>
                 /\ EnclosingOf(n, 2) = EnclosingOf(n - 1, 2)
                 /\ Under(n) = <<title>> \o EnclosingOf(n - 1, 2) \o <<body[n].text>>
<1>0. n # 0 /\ body[n].level \in Nat /\ body[n].text \in Texts
  BY BlocksAre
<1>1. CASE body[n].level \notin 1 .. 3
  <2>1. body[n].level \notin 1 .. 2
    BY <1>0, <1>1
  <2>2. LastOf(n, 1 .. 2) = LastOf(n - 1, 1 .. 2) /\ LastOf(n, 1 .. 3) = LastOf(n - 1, 1 .. 3)
    BY <1>1, <2>1, LastOfStep
  <2>3. EnclosingOf(n, 2) = EnclosingOf(n - 1, 2) /\ EnclosingOf(n, 3) = EnclosingOf(n - 1, 3)
    BY <2>2 DEF EnclosingOf
  <2>4. Under(n) = Under(n - 1)
    BY <2>3 DEF Under
  <2>5. body[n].level # 1 /\ body[n].level # 2 /\ body[n].level # 3
    BY <1>1
  <2> QED BY <2>3, <2>4, <2>5
<1>2. CASE body[n].level = 1
  <2>1. LastOf(n, 1 .. 2) = n /\ LastOf(n, 1 .. 3) = n
    BY <1>2, LastOfStep
  <2>2. EnclosingOf(n, 2) = <<>> /\ EnclosingOf(n, 3) = <<>>
    BY <1>2, <2>1 DEF EnclosingOf
  <2>3. (<<title>> \o <<>>) \o <<>> = <<title>>
    BY Breadcrumbs, <1>0
  <2>4. Under(n) = <<title>>
    BY <2>2, <2>3 DEF Under
  <2> QED BY <1>2, <2>2, <2>4
<1>3. CASE body[n].level = 2
  <2>1. LastOf(n, 1 .. 2) = n /\ LastOf(n, 1 .. 3) = n
    BY <1>3, LastOfStep
  <2>2. EnclosingOf(n, 2) = <<body[n].text>> /\ EnclosingOf(n, 3) = <<>>
    BY <1>0, <1>3, <2>1 DEF EnclosingOf
  <2>3. (<<title>> \o <<body[n].text>>) \o <<>> = <<title, body[n].text>>
    BY Breadcrumbs, <1>0
  <2>4. Under(n) = <<title, body[n].text>>
    BY <2>2, <2>3 DEF Under
  <2> QED BY <1>3, <2>2, <2>4
<1>4. CASE body[n].level = 3
  <2>1. LastOf(n, 1 .. 2) = LastOf(n - 1, 1 .. 2) /\ LastOf(n, 1 .. 3) = n
    BY <1>4, LastOfStep
  <2>2. EnclosingOf(n, 2) = EnclosingOf(n - 1, 2) /\ EnclosingOf(n, 3) = <<body[n].text>>
    BY <1>0, <1>4, <2>1 DEF EnclosingOf
  <2>3. Under(n) = (<<title>> \o EnclosingOf(n - 1, 2)) \o <<body[n].text>>
    BY <2>2 DEF Under
  <2> QED BY <1>4, <2>2, <2>3
<1> QED BY <1>0, <1>1, <1>2, <1>3, <1>4

LEMMA UnderNothing ==
    ASSUME title' \in Texts PROVE EnclosingOf(0, 2)' = <<>> /\ Under(0)' = <<title'>>
<1>1. {j \in 1 .. 0 : body'[j].level \in 1 .. 2} = {} /\ {j \in 1 .. 0 : body'[j].level \in 1 .. 3} = {}
  OBVIOUS
<1>2. EnclosingOf(0, 2)' = <<>> /\ EnclosingOf(0, 3)' = <<>>
  BY <1>1 DEF EnclosingOf, LastOf
<1>3. (<<title'>> \o <<>>) \o <<>> = <<title'>>
  BY Breadcrumbs
<1> QED BY <1>2, <1>3 DEF Under

-----------------------------------------------------------------------------
(* The sections.                                                           *)
SectionRecords == [path : Seq(Texts), start : Nat, end : Nat]

(* A breadcrumb ends with the title or a heading of the document.          *)
Crumb(path) == path \in Seq(Texts) /\ path # <<>> /\ path[Len(path)] \in HeadingTexts

Parsed ==
    /\ body \in Bodies /\ title \in Texts
    /\ firstH1 \in 0 .. Len(body) /\ (firstH1 # 0 => body[firstH1].level = 1)

(* The sections ss hold the body up to offset n, but for the title, and a  *)
(* section consists of whole blocks that have its breadcrumb.              *)
Tiled(ss, n) ==
    /\ ss \in Seq(SectionRecords)
    /\ \A s \in 1 .. Len(ss) : ss[s].start <= ss[s].end /\ ss[s].end <= n /\ Crumb(ss[s].path)
    /\ \A r, s \in 1 .. Len(ss) : r < s => ss[r].end <= ss[s].start
    /\ \A p \in Nat : p < n => ((\E s \in 1 .. Len(ss) : Shows(ss[s], p)) <=> ~IsTitle(p))
    /\ \A s \in 1 .. Len(ss), i \in 1 .. Len(body) :
          Overlaps(ss[s], body[i]) => ss[s].path = Under(i) /\ body[i].end <= ss[s].end

(* The section that is open has the breadcrumb of all its blocks, and of   *)
(* the last one looked at.                                                 *)
Open ==
    /\ nextBlock \in 1 .. Len(body) + 1
    /\ current.start \in Nat /\ current.start <= EndOf(nextBlock - 1)
    /\ Crumb(current.path) /\ current.path = Under(nextBlock - 1)
    /\ \A i \in 1 .. nextBlock - 1 : body[i].end > current.start => Under(i) = current.path
    /\ h2 = NoTitle => EnclosingOf(nextBlock - 1, 2) = <<>>
    /\ h2 # NoTitle => EnclosingOf(nextBlock - 1, 2) = <<h2>> /\ h2 \in HeadingTexts /\ h2 \in Texts
    /\ firstH1 \in 1 .. nextBlock - 1 => body[firstH1].end <= current.start

WhileReading ==
    /\ Parsed /\ Open /\ Tiled(sections, current.start) /\ Len(sections) <= nextBlock - 1
    /\ nextSection = 1 /\ chunks = <<>>

LEMMA SameDocument ==
    ASSUME UNCHANGED <<body, title, firstH1>>
    PROVE  /\ Parsed' <=> Parsed
           /\ \A i, level : EnclosingOf(i, level)' = EnclosingOf(i, level)
           /\ \A i : Under(i)' = Under(i) /\ EndOf(i)' = EndOf(i)
           /\ HeadingTexts' = HeadingTexts /\ Length' = Length
           /\ \A path : Crumb(path)' <=> Crumb(path)
           /\ \A ss, n : Tiled(ss, n)' <=> Tiled(ss, n)
<1>1. \A i, level : EnclosingOf(i, level)' = EnclosingOf(i, level)
  BY DEF EnclosingOf, LastOf
<1>2. \A i : Under(i)' = Under(i)
  BY <1>1 DEF Under
<1>3. /\ HeadingTexts' = HeadingTexts /\ Length' = Length
      /\ \A i : EndOf(i)' = EndOf(i)
      /\ \A p : IsTitle(p)' <=> IsTitle(p)
  BY DEF HeadingTexts, Length, EndOf, IsTitle
<1>4. \A path : Crumb(path)' <=> Crumb(path)
  BY <1>3 DEF Crumb
<1>5. \A ss, n : Tiled(ss, n)' <=> Tiled(ss, n)
  BY <1>2, <1>3, <1>4 DEF Tiled
<1>6. Parsed' <=> Parsed
  BY DEF Parsed
<1> QED BY <1>1, <1>2, <1>3, <1>4, <1>5, <1>6

LEMMA RecordsAre ==
    ASSUME NEW ss \in Seq(SectionRecords)
    PROVE  \A s \in 1 .. Len(ss) : ss[s].start \in Nat /\ ss[s].end \in Nat /\ ss[s].path \in Seq(Texts)
<1>1. \A s \in 1 .. Len(ss) : ss[s] \in SectionRecords
  BY ElementOfSeq
<1> QED BY <1>1 DEF SectionRecords

(* Closing the open section before block i, or after the last.             *)
LEMMA CloseSection ==
    ASSUME WhileReading, NEW e, e = EndOf(nextBlock - 1)
    PROVE  /\ Tiled(SectionsTo(e), e) /\ Len(SectionsTo(e)) = Len(sections) + 1
           /\ nextBlock = firstH1 => Tiled(SectionsTo(e), body[firstH1].end)
<1> DEFINE n   == Len(sections)
           ss  == SectionsTo(e)
           new == [path |-> current.path, start |-> current.start, end |-> e]
<1>1. body \in Bodies /\ sections \in Seq(SectionRecords) /\ n \in Nat
  BY DEF WhileReading, Parsed, Tiled
<1>2. /\ nextBlock \in Nat /\ nextBlock - 1 \in 0 .. Len(body) /\ Len(body) \in Nat
      /\ e \in Nat /\ current.start \in Nat /\ current.start <= e
  BY <1>1, BlocksAre DEF WhileReading, Open
<1>3. new \in SectionRecords /\ Crumb(new.path)
  BY <1>2 DEF WhileReading, Open, SectionRecords, Crumb
<1>4. /\ ss \in Seq(SectionRecords) /\ Len(ss) = n + 1 /\ ss[n + 1] = new
      /\ \A s \in 1 .. n : ss[s] = sections[s]
  <2> HIDE DEF new
  <2>1. ss = Append(sections, new)
    BY DEF SectionsTo, new
  <2> QED BY <1>1, <1>3, <2>1
<1>5. /\ \A s \in 1 .. n : /\ sections[s].start \in Nat /\ sections[s].end \in Nat
                           /\ sections[s].start <= sections[s].end
                           /\ sections[s].end <= current.start /\ Crumb(sections[s].path)
      /\ \A r, s \in 1 .. n : r < s => sections[r].end <= sections[s].start
      /\ \A p \in Nat : p < current.start =>
            ((\E s \in 1 .. n : Shows(sections[s], p)) <=> ~IsTitle(p))
      /\ \A s \in 1 .. n, i \in 1 .. Len(body) : Overlaps(sections[s], body[i]) =>
            sections[s].path = Under(i) /\ body[i].end <= sections[s].end
  <2>1. \A s \in 1 .. n : sections[s].start \in Nat /\ sections[s].end \in Nat
    BY <1>1, RecordsAre
  <2>2. Tiled(sections, current.start)
    BY DEF WhileReading
  <2> QED BY <2>1, <2>2 DEF Tiled
<1>6. new.start = current.start /\ new.end = e /\ new.path = current.path
  OBVIOUS
<1> HIDE DEF new, ss, n
<1>7. \A i \in 1 .. Len(body) : i >= nextBlock => e <= body[i].start
  <2> SUFFICES ASSUME NEW i \in 1 .. Len(body), i >= nextBlock PROVE e <= body[i].start
    OBVIOUS
  <2>1. CASE nextBlock = 1
    BY <1>1, <1>2, <2>1, BlocksAre DEF EndOf
  <2>2. CASE nextBlock # 1
    <3>1. nextBlock - 1 \in 1 .. Len(body) /\ nextBlock - 1 < i /\ nextBlock - 1 # 0
      BY <1>2, <2>2
    <3> QED BY <1>1, <3>1, BlocksAre DEF EndOf
  <2> QED BY <2>1, <2>2
<1>8. \A i \in 1 .. Len(body) : i < nextBlock => body[i].end <= e
  <2> SUFFICES ASSUME NEW i \in 1 .. Len(body), i < nextBlock PROVE body[i].end <= e
    OBVIOUS
  <2>1. nextBlock - 1 # 0 /\ nextBlock - 1 \in 1 .. Len(body) /\ i <= nextBlock - 1
    BY <1>2
  <2>2. body[nextBlock - 1].start < body[nextBlock - 1].end
    BY <1>1, <2>1, BlocksAre
  <2>3. i < nextBlock - 1 => body[i].end <= body[nextBlock - 1].start
    BY <1>1, <2>1, BlocksAre
  <2>4. body[i].end \in Nat /\ body[nextBlock - 1].start \in Nat /\ body[nextBlock - 1].end \in Nat
    BY <1>1, <2>1, BlocksAre
  <2>5. e = body[nextBlock - 1].end
    BY <2>1 DEF EndOf
  <2> QED BY <1>2, <2>1, <2>2, <2>3, <2>4, <2>5
<1>9. firstH1 \in 0 .. Len(body) /\ (firstH1 \in 1 .. nextBlock - 1 => body[firstH1].end <= current.start)
  BY DEF WhileReading, Parsed, Open
<1>10. \A p \in Nat : current.start <= p /\ p < e => ~IsTitle(p)
  <2> SUFFICES ASSUME NEW p \in Nat, current.start <= p, p < e, firstH1 # 0,
                      body[firstH1].start <= p, p < body[firstH1].end
               PROVE  FALSE
    BY DEF IsTitle
  <2>1. firstH1 \in 1 .. Len(body) /\ body[firstH1].start \in Nat /\ body[firstH1].end \in Nat
    <3>1. firstH1 \in 1 .. Len(body)
      BY <1>2, <1>9
    <3> QED BY <1>1, <3>1, BlocksAre
  <2>2. CASE firstH1 >= nextBlock
    <3>1. e <= body[firstH1].start
      BY <1>7, <2>1, <2>2
    <3> QED BY <1>2, <2>1, <3>1
  <2>3. CASE firstH1 < nextBlock
    <3>1. body[firstH1].end <= current.start
      BY <1>2, <1>9, <2>1, <2>3
    <3> QED BY <1>2, <2>1, <3>1
  <2> QED BY <1>2, <2>1, <2>2, <2>3
<1>11. \A s \in 1 .. n + 1 : s \in 1 .. n \/ s = n + 1
  BY <1>1 DEF n
<1>12. n \in Nat
  BY <1>1 DEF n
<1>13. \A s \in 1 .. Len(ss) : ss[s].start <= ss[s].end /\ ss[s].end <= e /\ Crumb(ss[s].path)
  <2> SUFFICES ASSUME NEW s \in 1 .. n + 1
               PROVE  ss[s].start <= ss[s].end /\ ss[s].end <= e /\ Crumb(ss[s].path)
    BY <1>4
  <2>1. CASE s \in 1 .. n
    <3>1. ss[s] = sections[s]
      BY <1>4, <2>1
    <3>2. /\ sections[s].end \in Nat /\ sections[s].end <= current.start
          /\ sections[s].start <= sections[s].end /\ Crumb(sections[s].path)
      BY <1>5, <2>1
    <3>3. sections[s].end <= e
      BY <1>2, <3>2
    <3> QED BY <3>1, <3>2, <3>3
  <2>2. CASE s = n + 1
    BY <1>2, <1>3, <1>4, <1>6, <2>2
  <2> QED BY <1>11, <2>1, <2>2
<1>14. \A r, s \in 1 .. Len(ss) : r < s => ss[r].end <= ss[s].start
  <2> SUFFICES ASSUME NEW r \in 1 .. n + 1, NEW s \in 1 .. n + 1, r < s
               PROVE  ss[r].end <= ss[s].start
    BY <1>4
  <2>1. r \in 1 .. n
    BY <1>12
  <2> QED BY <1>4, <1>5, <1>6, <1>11, <2>1
<1>15. \A p \in Nat : p < e => ((\E s \in 1 .. Len(ss) : Shows(ss[s], p)) <=> ~IsTitle(p))
  <2> SUFFICES ASSUME NEW p \in Nat, p < e
               PROVE  (\E s \in 1 .. n + 1 : Shows(ss[s], p)) <=> ~IsTitle(p)
    BY <1>4
  <2>1. CASE p < current.start
    <3>1. ~ Shows(ss[n + 1], p)
      BY <1>2, <1>4, <1>6, <2>1 DEF Shows
    <3>2. (\E s \in 1 .. n + 1 : Shows(ss[s], p)) <=> \E s \in 1 .. n : Shows(sections[s], p)
      <4>1. 1 .. n \subseteq 1 .. n + 1
        BY <1>12
      <4> QED BY <1>4, <1>11, <3>1, <4>1
    <3> QED BY <1>5, <2>1, <3>2
  <2>2. CASE current.start <= p
    <3>1. Shows(ss[n + 1], p)
      BY <1>2, <1>4, <1>6, <2>2 DEF Shows
    <3>2. n + 1 \in 1 .. n + 1
      BY <1>12
    <3> QED BY <1>10, <2>2, <3>1, <3>2
  <2> QED BY <1>2, <2>1, <2>2
<1>16. \A s \in 1 .. Len(ss), i \in 1 .. Len(body) :
          Overlaps(ss[s], body[i]) => ss[s].path = Under(i) /\ body[i].end <= ss[s].end
  <2> SUFFICES ASSUME NEW s \in 1 .. n + 1, NEW i \in 1 .. Len(body), Overlaps(ss[s], body[i])
               PROVE  ss[s].path = Under(i) /\ body[i].end <= ss[s].end
    BY <1>4
  <2>1. CASE s \in 1 .. n
    BY <1>4, <1>5, <2>1
  <2>2. CASE s = n + 1
    <3>1. current.start < body[i].end /\ body[i].start < e
      BY <1>4, <1>6, <2>2 DEF Overlaps
    <3>2. i < nextBlock
      <4>1. body[i].start \in Nat
        BY <1>1, BlocksAre
      <4> QED BY <1>2, <1>7, <3>1, <4>1
    <3>3. i \in 1 .. nextBlock - 1 /\ body[i].end \in Nat
      BY <1>1, <1>2, <3>2, BlocksAre
    <3>4. Under(i) = current.path
      BY <1>2, <3>1, <3>3 DEF WhileReading, Open
    <3> QED BY <1>4, <1>6, <1>8, <2>2, <3>2, <3>4
  <2> QED BY <1>11, <2>1, <2>2
<1>17. Tiled(ss, e)
  BY <1>4, <1>13, <1>14, <1>15, <1>16 DEF Tiled
<1>18. ASSUME nextBlock = firstH1 PROVE Tiled(ss, body[firstH1].end)
  <2>1. firstH1 \in 1 .. Len(body) /\ firstH1 # 0
    BY <1>2, <1>9, <1>18
  <2>2. body[firstH1].start = e /\ e < body[firstH1].end /\ body[firstH1].end \in Nat
    BY <1>1, <1>18, <2>1, BlocksAre
  <2>3. \A s \in 1 .. Len(ss) : ss[s].start \in Nat /\ ss[s].end \in Nat
    BY <1>4, RecordsAre
  <2>4. \A s \in 1 .. Len(ss) : ss[s].end <= body[firstH1].end
    BY <1>2, <1>13, <2>2, <2>3
  <2>5. \A p \in Nat : p < body[firstH1].end =>
            ((\E s \in 1 .. Len(ss) : Shows(ss[s], p)) <=> ~IsTitle(p))
    <3> SUFFICES ASSUME NEW p \in Nat, p < body[firstH1].end, ~ (p < e)
                 PROVE  (\E s \in 1 .. Len(ss) : Shows(ss[s], p)) <=> ~IsTitle(p)
      BY <1>15
    <3>1. IsTitle(p)
      BY <1>2, <2>1, <2>2 DEF IsTitle
    <3>2. \A s \in 1 .. Len(ss) : ~Shows(ss[s], p)
      BY <1>2, <1>13, <2>3 DEF Shows
    <3> QED BY <3>1, <3>2
  <2> QED BY <1>4, <1>13, <1>14, <1>16, <2>4, <2>5 DEF Tiled
<1> QED BY <1>4, <1>17, <1>18 DEF ss, n

LEMMA ParseStep ==
    ASSUME NEW b \in Bodies, NEW fm \in Titles, Parse(b, fm),
           nextBlock = 1, h2 = NoTitle, sections = <<>>, nextSection = 1, chunks = <<>>
    PROVE  WhileReading'
<1> DEFINE H1s == {i \in 1 .. Len(b) : b[i].level = 1}
<1>1. body' = b /\ body' \in Bodies
  BY DEF Parse
<1>2. /\ DOMAIN b = 1 .. Len(b) /\ Len(b) \in Nat
      /\ \A i \in 1 .. Len(b) : b[i].text \in Texts
  <2>1. b \in Seq(Blocks)
    BY ChunkerAssumption DEF Blocks
  <2>2. \A i \in 1 .. Len(b) : b[i] \in Blocks
    BY <2>1, ElementOfSeq
  <2> QED BY <2>1, <2>2 DEF Blocks
<1>3. firstH1' \in 0 .. Len(b) /\ (firstH1' # 0 => b[firstH1'].level = 1)
  <2>1. firstH1' = IF H1s = {} THEN 0 ELSE CHOOSE i \in H1s : \A j \in H1s : i <= j
    BY DEF Parse, SelectInSeq, Min
  <2>2. H1s # {} => \E i \in H1s : \A j \in H1s : i <= j
    <3>1. H1s \in SUBSET Nat
      BY <1>2
    <3> HIDE DEF H1s
    <3> QED BY <3>1, LeastElement
  <2>3. H1s # {} => firstH1' \in H1s
    <3> HIDE DEF H1s
    <3> QED BY <2>1, <2>2
  <2> QED BY <1>2, <2>1, <2>3
<1>4. title' \in Texts
  BY <1>2, <1>3, ChunkerAssumption DEF Parse
<1>5. Parsed'
  BY <1>1, <1>3, <1>4 DEF Parsed
<1>6. current' = [path |-> <<title'>>, start |-> 0]
  BY DEF Parse
<1>7. EnclosingOf(0, 2)' = <<>> /\ Under(0)' = <<title'>>
  BY <1>4, UnderNothing
<1>8. Open'
  BY <1>1, <1>2, <1>3, <1>4, <1>6, <1>7 DEF Open, Parse, Crumb, HeadingTexts, EndOf
<1>9. Tiled(<<>>, 0)'
  BY DEF Tiled
<1> QED BY <1>5, <1>6, <1>8, <1>9, <1>2 DEF WhileReading, Parse

LEMMA BlockStep == ASSUME WhileReading, Block PROVE WhileReading'
<1> DEFINE n == nextBlock
<1>1. /\ body \in Bodies /\ title \in Texts /\ n \in 1 .. Len(body) /\ Len(body) \in Nat
      /\ body[n].level \notin 1 .. 3
  BY BlocksAre DEF WhileReading, Parsed, Block
<1>2. UNCHANGED <<body, title, firstH1>> /\ nextBlock' = n + 1
  BY DEF Block
<1>3. EnclosingOf(n, 2) = EnclosingOf(n - 1, 2) /\ Under(n) = Under(n - 1)
  BY <1>1, UnderStep
<1>4. n \in Nat /\ n + 1 - 1 = n /\ n # 0
  BY <1>1
<1>5. EndOf(n - 1) <= EndOf(n)
  <2>1. /\ body[n].start = EndOf(n - 1) /\ body[n].start < body[n].end
        /\ body[n].start \in Nat /\ body[n].end \in Nat
    BY <1>1, BlocksAre
  <2> QED BY <1>4, <2>1 DEF EndOf
<1>6. firstH1 # n
  <2>1. firstH1 # 0 => body[firstH1].level = 1
    BY DEF WhileReading, Parsed
  <2> QED BY <1>1, <1>4, <2>1
<1>7. EndOf(n) \in Nat /\ EndOf(n - 1) \in Nat
  <2>1. n \in 0 .. Len(body) /\ n - 1 \in 0 .. Len(body)
    BY <1>1
  <2> QED BY <1>1, <2>1, BlocksAre
<1>8. Open'
  <2>1. /\ current.start \in Nat /\ current.start <= EndOf(n - 1)
        /\ Crumb(current.path) /\ current.path = Under(n - 1)
        /\ \A i \in 1 .. n - 1 : body[i].end > current.start => Under(i) = current.path
        /\ h2 = NoTitle => EnclosingOf(n - 1, 2) = <<>>
        /\ h2 # NoTitle => EnclosingOf(n - 1, 2) = <<h2>> /\ h2 \in HeadingTexts /\ h2 \in Texts
        /\ firstH1 \in 1 .. n - 1 => body[firstH1].end <= current.start
    BY DEF WhileReading, Open
  <2>2. \A i \in 1 .. n : i \in 1 .. n - 1 \/ i = n
    BY <1>4
  <2>3. current' = current /\ h2' = h2
    BY DEF Block
  <2>4. /\ current.start <= EndOf(n) /\ current.path = Under(n)
        /\ \A i \in 1 .. n : body[i].end > current.start => Under(i) = current.path
        /\ h2 = NoTitle => EnclosingOf(n, 2) = <<>>
        /\ h2 # NoTitle => EnclosingOf(n, 2) = <<h2>>
        /\ firstH1 \in 1 .. n => body[firstH1].end <= current.start
    BY <1>3, <1>5, <1>6, <1>7, <2>1, <2>2
  <2>5. n + 1 \in 1 .. Len(body) + 1
    BY <1>1
  <2> QED BY <1>2, <1>4, <2>1, <2>3, <2>4, <2>5, SameDocument DEF Open
<1>9. Tiled(sections, current.start) /\ Len(sections) <= n /\ Len(sections) \in Nat
  <2>1. Tiled(sections, current.start) /\ Len(sections) <= n - 1
    BY DEF WhileReading
  <2>2. Len(sections) \in Nat
    BY <2>1 DEF Tiled
  <2> QED BY <1>4, <2>1, <2>2
<1>10. UNCHANGED <<sections, current, nextSection, chunks>>
  BY DEF Block
<1>11. Parsed /\ nextSection = 1 /\ chunks = <<>>
  BY DEF WhileReading
<1> QED BY <1>2, <1>4, <1>8, <1>9, <1>10, <1>11, SameDocument DEF WhileReading

LEMMA HeadingStep == ASSUME WhileReading, Heading PROVE WhileReading'
<1> DEFINE n == nextBlock
           b == body[n]
<1>1. /\ body \in Bodies /\ title \in Texts /\ n \in 1 .. Len(body) /\ Len(body) \in Nat
      /\ b.level \in 1 .. 3
  BY BlocksAre DEF WhileReading, Parsed, Heading
<1>2. UNCHANGED <<body, title, firstH1>> /\ nextBlock' = n + 1
  BY DEF Heading
<1>3. n \in Nat /\ n + 1 - 1 = n /\ n # 0
  BY <1>1
<1>4. /\ b.start = EndOf(n - 1) /\ b.start < b.end /\ b.start \in Nat /\ b.end \in Nat
      /\ b.text \in Texts /\ b.text # NoTitle /\ EndOf(n) = b.end
      /\ \A i \in 1 .. n - 1 : body[i].end \in Nat /\ body[i].end <= b.start
  <2>1. \A i \in 1 .. n - 1 : i \in 1 .. Len(body) /\ i < n
    BY <1>1
  <2>2. b.level # 0
    BY <1>1
  <2> QED BY <1>1, <1>3, <2>1, <2>2, BlocksAre DEF EndOf
<1>5. b.text \in HeadingTexts /\ title \in HeadingTexts
  <2>1. n \in DOMAIN body /\ b.level # 0
    BY <1>1, BlocksAre
  <2> QED BY <2>1 DEF HeadingTexts
<1>6. /\ current'.start = IF n = firstH1 THEN b.end ELSE b.start
      /\ current'.path = CASE b.level = 1 -> <<title>>
                           [] b.level = 2 -> <<title, b.text>>
                           [] b.level = 3 -> <<title>> \o (IF h2 = NoTitle THEN <<>> ELSE <<h2>>) \o <<b.text>>
      /\ h2' = CASE b.level = 1 -> NoTitle [] b.level = 2 -> b.text [] b.level = 3 -> h2
      /\ current' = [path |-> current'.path, start |-> current'.start]
  BY DEF Heading, Opened, EnclosingH2
<1>7. b.level = 1 \/ b.level = 2 \/ b.level = 3
  BY <1>1
<1>8. /\ h2 = NoTitle => EnclosingOf(n - 1, 2) = <<>>
      /\ h2 # NoTitle => EnclosingOf(n - 1, 2) = <<h2>> /\ h2 \in HeadingTexts /\ h2 \in Texts
      /\ current.start \in Nat /\ current.start <= EndOf(n - 1)
      /\ firstH1 \in 1 .. n - 1 => body[firstH1].end <= current.start
  BY DEF WhileReading, Open
<1>9. /\ current'.path = Under(n) /\ Crumb(current'.path)
      /\ h2' = NoTitle => EnclosingOf(n, 2) = <<>>
      /\ h2' # NoTitle => EnclosingOf(n, 2) = <<h2'>> /\ h2' \in HeadingTexts /\ h2' \in Texts
  <2> HIDE DEF n, b
  <2>1. CASE b.level = 1
    <3>1. EnclosingOf(n, 2) = <<>> /\ Under(n) = <<title>>
      BY <1>1, <2>1, UnderStep DEF b
    <3>2. current'.path = <<title>> /\ h2' = NoTitle
      BY <1>6, <2>1
    <3>3. Crumb(<<title>>)
      BY <1>1, <1>5 DEF Crumb
    <3> QED BY <3>1, <3>2, <3>3
  <2>2. CASE b.level = 2
    <3>1. EnclosingOf(n, 2) = <<b.text>> /\ Under(n) = <<title, b.text>>
      BY <1>1, <2>2, UnderStep DEF b
    <3>2. current'.path = <<title, b.text>> /\ h2' = b.text
      BY <1>6, <2>2
    <3>3. Crumb(<<title, b.text>>)
      BY <1>1, <1>4, <1>5 DEF Crumb
    <3> QED BY <1>4, <1>5, <3>1, <3>2, <3>3
  <2>3. CASE b.level = 3
    <3> DEFINE up == IF h2 = NoTitle THEN <<>> ELSE <<h2>>
    <3>1. EnclosingOf(n, 2) = EnclosingOf(n - 1, 2) /\ EnclosingOf(n - 1, 2) = up
      BY <1>1, <1>8, <2>3, UnderStep DEF b
    <3>2. Under(n) = (<<title>> \o up) \o <<b.text>>
      BY <1>1, <2>3, <3>1, UnderStep DEF b
    <3>3. current'.path = (<<title>> \o up) \o <<b.text>> /\ h2' = h2
      BY <1>6, <2>3
    <3>4. up \in Seq(Texts) /\ <<title>> \in Seq(Texts) /\ <<b.text>> \in Seq(Texts)
      BY <1>1, <1>4, <1>8
    <3>5. Crumb((<<title>> \o up) \o <<b.text>>)
      <4> HIDE DEF up
      <4>1. (<<title>> \o up) \in Seq(Texts)
        BY <3>4, ConcatProperties
      <4> DEFINE s == <<title>> \o up
                 t == s \o <<b.text>>
      <4> HIDE DEF s
      <4>2. s \in Seq(Texts) /\ Len(s) \in Nat
        BY <4>1 DEF s
      <4>3. /\ t \in Seq(Texts) /\ Len(t) = Len(s) + 1
            /\ t[Len(s) + 1] = b.text
        BY <3>4, <4>2
      <4>4. Crumb(t)
        BY <1>5, <4>2, <4>3 DEF Crumb
      <4> QED BY <4>4 DEF s
    <3> QED BY <1>8, <3>1, <3>2, <3>3, <3>5
  <2> QED BY <1>7, <2>1, <2>2, <2>3
<1>10. current'.start \in Nat /\ current'.start <= EndOf(n) /\ b.start <= current'.start
  BY <1>4, <1>6
<1>11. \A i \in 1 .. n : i \in 1 .. n - 1 \/ i = n
  BY <1>3
<1>12. \A i \in 1 .. n : body[i].end > current'.start => Under(i) = current'.path
  <2> SUFFICES ASSUME NEW i \in 1 .. n, body[i].end > current'.start PROVE i = n
    BY <1>9
  <2> QED BY <1>4, <1>10, <1>11
<1>13. firstH1 \in 1 .. n => body[firstH1].end <= current'.start
  <2> SUFFICES ASSUME firstH1 \in 1 .. n PROVE body[firstH1].end <= current'.start
    OBVIOUS
  <2>1. CASE firstH1 = n
    BY <1>4, <1>6, <2>1
  <2>2. CASE firstH1 # n
    BY <1>4, <1>10, <1>11, <2>2
  <2> QED BY <2>1, <2>2
<1>14. n + 1 \in 1 .. Len(body) + 1
  BY <1>1
<1>15. Open'
  BY <1>2, <1>3, <1>9, <1>10, <1>12, <1>13, <1>14, SameDocument DEF Open
<1>16. /\ sections' = SectionsTo(b.start) /\ Len(sections') = Len(sections) + 1
       /\ Tiled(sections', current'.start)
  <2>1. sections' = SectionsTo(b.start)
    BY DEF Heading
  <2>2. /\ Tiled(SectionsTo(b.start), b.start) /\ Len(SectionsTo(b.start)) = Len(sections) + 1
        /\ n = firstH1 => Tiled(SectionsTo(b.start), body[firstH1].end)
    BY <1>4, CloseSection
  <2> QED BY <1>6, <2>1, <2>2
<1>17. Len(sections) <= n - 1 /\ Len(sections) \in Nat
  BY DEF WhileReading, Tiled
<1>18. UNCHANGED <<nextSection, chunks>> /\ Parsed /\ nextSection = 1 /\ chunks = <<>>
  BY DEF WhileReading, Heading
<1>19. Len(sections') <= nextBlock' - 1
  BY <1>2, <1>3, <1>16, <1>17
<1> QED BY <1>2, <1>15, <1>16, <1>18, <1>19, SameDocument DEF WhileReading

LEMMA EndOfBodyStep ==
    ASSUME WhileReading, EndOfBody
    PROVE  /\ Parsed' /\ Tiled(sections, Length)' /\ Len(sections') <= Len(body') + 1
           /\ nextSection' = 1 /\ chunks' = <<>>
<1>1. body \in Bodies /\ Len(body) \in Nat /\ Length = EndOf(Len(body)) /\ nextBlock = Len(body) + 1
  BY BlocksAre DEF WhileReading, Parsed, EndOfBody
<1>2. Length = EndOf(nextBlock - 1)
  BY <1>1
<1>3. Tiled(SectionsTo(Length), Length) /\ Len(SectionsTo(Length)) = Len(sections) + 1
  BY <1>2, CloseSection
<1>4. sections' = SectionsTo(Length) /\ UNCHANGED <<body, title, firstH1, nextSection, chunks>>
  BY DEF EndOfBody
<1>5. Len(sections) <= nextBlock - 1 /\ Len(sections) \in Nat /\ Parsed /\ nextSection = 1 /\ chunks = <<>>
  BY DEF WhileReading, Tiled
<1>6. Len(sections') <= Len(body) + 1
  BY <1>1, <1>3, <1>4, <1>5
<1>7. Tiled(sections, Length)' <=> Tiled(SectionsTo(Length), Length)
  BY <1>4, SameDocument
<1> QED BY <1>3, <1>4, <1>5, <1>6, <1>7, SameDocument

-----------------------------------------------------------------------------
(* The chunks.                                                             *)
Sectioned == Parsed /\ Tiled(sections, Length) /\ Len(sections) <= Len(body) + 1

ChunkRecords == [heading : {HeadingPath(s) : s \in 1 .. Len(sections)},
                 part : Nat, start : Nat, end : Nat]

Within(c, s) == sections[s].start <= c.start /\ c.end <= sections[s].end

(* The chunks cs hold the sections before the next one, and of that what is*)
(* before offset filled, in n parts.                                       *)
From(c, s, upto, filled, n) ==
    /\ HasContent(s) /\ Within(c, s) /\ c.heading = HeadingPath(s)
    /\ s < upto \/ (s = upto /\ c.end <= filled /\ c.part < n)

ChunksAre(cs, upto, filled, n) ==
    /\ cs \in Seq(ChunkRecords)
    /\ \A k \in 1 .. Len(cs) :
          /\ cs[k].start < cs[k].end /\ cs[k].end - cs[k].start <= MaxTokens
          /\ \E s \in 1 .. Len(sections) : From(cs[k], s, upto, filled, n)
    /\ \A j, k \in 1 .. Len(cs) : j < k =>
          /\ cs[j].end <= cs[k].start
          /\ \A s \in 1 .. Len(sections) : Within(cs[j], s) /\ Within(cs[k], s) => cs[j].part < cs[k].part
    /\ \A p \in Nat : (\E k \in 1 .. Len(cs) : Shows(cs[k], p)) <=>
          \E s \in 1 .. Len(sections) : /\ Shows(sections[s], p)
                                        /\ s < upto \/ (s = upto /\ p < filled)

WhileSplitting ==
    /\ nextSection \in 1 .. Len(sections) /\ HasContent(nextSection)
    /\ bufStart \in Nat /\ bufEnd \in Nat /\ parts \in Nat
    /\ sections[nextSection].start <= bufStart /\ bufStart < sections[nextSection].end
    /\ bufStart <= bufEnd /\ bufEnd <= sections[nextSection].end
    /\ bufEnd - bufStart <= MaxTokens

Filled == IF chunkPc = "split" THEN bufStart ELSE 0

ChunkerInv ==
    /\ chunkPc \in {"idle", "headings", "sections", "split", "done"}
    /\ chunkPc = "idle" =>
          nextBlock = 1 /\ h2 = NoTitle /\ sections = <<>> /\ nextSection = 1 /\ chunks = <<>>
    /\ chunkPc = "headings" => WhileReading
    /\ chunkPc \in {"sections", "split", "done"} =>
          /\ Sectioned /\ nextSection \in 1 .. Len(sections) + 1
          /\ ChunksAre(chunks, nextSection, Filled, parts)
    /\ chunkPc = "split" => WhileSplitting
    /\ chunkPc = "done" => nextSection = Len(sections) + 1

LEMMA SectionsAre ==
    ASSUME Sectioned
    PROVE  /\ Len(sections) \in Nat /\ DOMAIN sections = 1 .. Len(sections)
           /\ \A s \in 1 .. Len(sections) :
                 /\ sections[s].start \in Nat /\ sections[s].end \in Nat
                 /\ sections[s].path \in Seq(Texts)
                 /\ sections[s].start <= sections[s].end /\ sections[s].end <= Length
           /\ \A r, s \in 1 .. Len(sections) : r < s => sections[r].end <= sections[s].start
<1>1. sections \in Seq(SectionRecords)
  BY DEF Sectioned, Tiled
<1>2. Len(sections) \in Nat /\ DOMAIN sections = 1 .. Len(sections)
  BY <1>1
<1> QED BY <1>1, <1>2, RecordsAre DEF Sectioned, Tiled

LEMMA SameSections ==
    ASSUME UNCHANGED sections
    PROVE  /\ \A s : HeadingPath(s)' = HeadingPath(s) /\ (HasContent(s)' <=> HasContent(s))
           /\ \A cs, upto, filled, n : ChunksAre(cs, upto, filled, n)' <=> ChunksAre(cs, upto, filled, n)
<1>1. \A s : HasContent(s)' <=> HasContent(s)
  BY DEF HasContent
<1>2. \A s : Times(s)' = Times(s)
  BY <1>1 DEF Times
<1>3. \A s : HeadingPath(s)' = HeadingPath(s)
  BY <1>2 DEF HeadingPath
<1>4. ChunkRecords' = ChunkRecords
  BY <1>3 DEF ChunkRecords
<1>5. /\ \A c, s : Within(c, s)' <=> Within(c, s)
      /\ \A c, s, upto, filled, n : From(c, s, upto, filled, n)' <=> From(c, s, upto, filled, n)
  BY <1>1, <1>3 DEF From, Within
<1>6. \A cs, upto, filled, n : ChunksAre(cs, upto, filled, n)' <=> ChunksAre(cs, upto, filled, n)
  <2> SUFFICES ASSUME NEW cs, NEW upto, NEW filled, NEW n
               PROVE  ChunksAre(cs, upto, filled, n)' <=> ChunksAre(cs, upto, filled, n)
    OBVIOUS
  <2>1. \A k, s : From(cs[k], s, upto, filled, n)' <=> From(cs[k], s, upto, filled, n)
    BY <1>5
  <2>2. \A k, s : Within(cs[k], s)' <=> Within(cs[k], s)
    BY <1>5
  <2> QED BY <1>4, <2>1, <2>2 DEF ChunksAre
<1> QED BY <1>1, <1>3, <1>6

LEMMA ChunkFields ==
    ASSUME NEW cs \in Seq(ChunkRecords)
    PROVE  \A k \in 1 .. Len(cs) : cs[k].start \in Nat /\ cs[k].end \in Nat /\ cs[k].part \in Nat
<1>1. \A k \in 1 .. Len(cs) : cs[k] \in ChunkRecords
  BY ElementOfSeq
<1> QED BY <1>1 DEF ChunkRecords

(* No chunk lies in two sections.                                          *)
LEMMA OneSection ==
    ASSUME Sectioned, NEW c, c.start \in Nat, c.end \in Nat, c.start < c.end,
           NEW r \in 1 .. Len(sections), NEW s \in 1 .. Len(sections), Within(c, r), Within(c, s)
    PROVE  r = s
<1>1. /\ sections[r].start \in Nat /\ sections[r].end \in Nat
      /\ sections[s].start \in Nat /\ sections[s].end \in Nat
      /\ r < s => sections[r].end <= sections[s].start
      /\ s < r => sections[s].end <= sections[r].start
      /\ r \in Nat /\ s \in Nat
  BY SectionsAre
<1> QED BY <1>1 DEF Within

LEMMA FlushStep ==
    ASSUME Sectioned, WhileSplitting, bufStart < bufEnd, ChunksAre(chunks, nextSection, bufStart, parts)
    PROVE  ChunksAre(Flushed, nextSection, bufEnd, parts + 1)
<1> DEFINE m   == Len(chunks)
           t   == nextSection
           cs  == Flushed
           new == [heading |-> HeadingPath(t), part |-> parts, start |-> bufStart, end |-> bufEnd]
<1>1. /\ chunks \in Seq(ChunkRecords) /\ m \in Nat
      /\ \A k \in 1 .. m : chunks[k].start \in Nat /\ chunks[k].end \in Nat /\ chunks[k].part \in Nat
  BY ChunkFields DEF ChunksAre
<1>2. /\ t \in 1 .. Len(sections) /\ bufStart \in Nat /\ bufEnd \in Nat /\ parts \in Nat
      /\ HasContent(t) /\ bufEnd - bufStart <= MaxTokens
      /\ sections[t].start <= bufStart /\ bufEnd <= sections[t].end
  BY DEF WhileSplitting
<1>3. Len(sections) \in Nat /\ t \in Nat /\ sections[t].start \in Nat /\ sections[t].end \in Nat
  BY <1>2, SectionsAre
<1>4. new \in ChunkRecords
  BY <1>2 DEF ChunkRecords
<1>5. /\ new.start = bufStart /\ new.end = bufEnd /\ new.part = parts /\ new.heading = HeadingPath(t)
  OBVIOUS
<1> HIDE DEF new
<1>6. /\ cs \in Seq(ChunkRecords) /\ Len(cs) = m + 1 /\ cs[m + 1] = new
      /\ \A k \in 1 .. m : cs[k] = chunks[k]
  <2>1. cs = Append(chunks, new)
    BY DEF Flushed, new
  <2> QED BY <1>1, <1>4, <2>1
<1> HIDE DEF cs, m
<1>7. \A k \in 1 .. m + 1 : k \in 1 .. m \/ k = m + 1
  BY <1>1
<1>8. \A k \in 1 .. m : \E s \in 1 .. Len(sections) : From(chunks[k], s, t, bufStart, parts)
  BY DEF ChunksAre, m
<1>9. Within(new, t)
  BY <1>2, <1>5 DEF Within
<1>10. \A k \in 1 .. Len(cs) :
          /\ cs[k].start < cs[k].end /\ cs[k].end - cs[k].start <= MaxTokens
          /\ \E s \in 1 .. Len(sections) : From(cs[k], s, t, bufEnd, parts + 1)
  <2> SUFFICES ASSUME NEW k \in 1 .. m + 1
               PROVE  /\ cs[k].start < cs[k].end /\ cs[k].end - cs[k].start <= MaxTokens
                      /\ \E s \in 1 .. Len(sections) : From(cs[k], s, t, bufEnd, parts + 1)
    BY <1>6
  <2>1. CASE k \in 1 .. m
    <3>1. PICK s \in 1 .. Len(sections) : From(chunks[k], s, t, bufStart, parts)
      BY <1>8, <2>1
    <3>2. From(chunks[k], s, t, bufEnd, parts + 1)
      BY <1>1, <1>2, <2>1, <3>1 DEF From
    <3>3. chunks[k].start < chunks[k].end /\ chunks[k].end - chunks[k].start <= MaxTokens
      BY <2>1 DEF ChunksAre, m
    <3> QED BY <1>6, <2>1, <3>2, <3>3
  <2>2. CASE k = m + 1
    <3>1. From(new, t, t, bufEnd, parts + 1)
      BY <1>2, <1>5, <1>9 DEF From
    <3> QED BY <1>2, <1>5, <1>6, <2>2, <3>1
  <2> QED BY <1>7, <2>1, <2>2
<1>11. \A j, k \in 1 .. Len(cs) : j < k =>
          /\ cs[j].end <= cs[k].start
          /\ \A s \in 1 .. Len(sections) : Within(cs[j], s) /\ Within(cs[k], s) => cs[j].part < cs[k].part
  <2> SUFFICES ASSUME NEW j \in 1 .. m + 1, NEW k \in 1 .. m + 1, j < k
               PROVE  /\ cs[j].end <= cs[k].start
                      /\ \A s \in 1 .. Len(sections) :
                            Within(cs[j], s) /\ Within(cs[k], s) => cs[j].part < cs[k].part
    BY <1>6
  <2>1. j \in 1 .. m /\ cs[j] = chunks[j]
    BY <1>1, <1>6
  <2>2. CASE k \in 1 .. m
    <3>1. cs[k] = chunks[k]
      BY <1>6, <2>2
    <3> QED BY <2>1, <2>2, <3>1 DEF ChunksAre, m
  <2>3. CASE k = m + 1
    <3>1. cs[k] = new
      BY <1>6, <2>3
    <3>2. PICK r \in 1 .. Len(sections) : From(chunks[j], r, t, bufStart, parts)
      BY <1>8, <2>1
    <3>3. r \in Nat /\ sections[r].end \in Nat /\ (r < t => sections[r].end <= sections[t].start)
      BY <1>2, SectionsAre
    <3>4. chunks[j].end <= bufStart
      <4>1. /\ chunks[j].end <= sections[r].end
            /\ r < t \/ chunks[j].end <= bufStart
        BY <3>2 DEF From, Within
      <4>2. chunks[j].end \in Nat
        BY <1>1, <2>1
      <4> QED BY <1>2, <1>3, <3>3, <4>1, <4>2
    <3>5. ASSUME NEW s \in 1 .. Len(sections), Within(chunks[j], s), Within(new, s)
          PROVE  chunks[j].part < parts
      <4>1. s = t
        BY <1>2, <1>5, <1>9, <3>5, OneSection
      <4>2. chunks[j].start < chunks[j].end
        BY <2>1 DEF ChunksAre, m
      <4>3. r = s
        BY <1>1, <2>1, <3>2, <3>5, <4>2, OneSection DEF From
      <4> QED BY <1>3, <3>2, <3>3, <4>1, <4>3 DEF From
    <3> QED BY <1>5, <2>1, <3>1, <3>4, <3>5
  <2> QED BY <1>7, <2>2, <2>3
<1>12. \A p \in Nat : (\E k \in 1 .. Len(cs) : Shows(cs[k], p)) <=>
          \E s \in 1 .. Len(sections) : Shows(sections[s], p) /\ (s < t \/ (s = t /\ p < bufEnd))
  <2> SUFFICES ASSUME NEW p \in Nat
               PROVE  (\E k \in 1 .. m + 1 : Shows(cs[k], p)) <=>
                         \E s \in 1 .. Len(sections) : Shows(sections[s], p) /\ (s < t \/ (s = t /\ p < bufEnd))
    BY <1>6
  <2>1. (\E k \in 1 .. m : Shows(chunks[k], p)) <=>
           \E s \in 1 .. Len(sections) : Shows(sections[s], p) /\ (s < t \/ (s = t /\ p < bufStart))
    BY DEF ChunksAre, m
  <2>2. (\E k \in 1 .. m + 1 : Shows(cs[k], p)) <=> (\E k \in 1 .. m : Shows(chunks[k], p)) \/ Shows(new, p)
    <3>1. 1 .. m \subseteq 1 .. m + 1 /\ m + 1 \in 1 .. m + 1
      BY <1>1
    <3> QED BY <1>6, <1>7, <3>1
  <2>3. Shows(new, p) <=> bufStart <= p /\ p < bufEnd
    BY <1>5 DEF Shows
  <2>4. bufStart <= p /\ p < bufEnd => Shows(sections[t], p)
    BY <1>2, <1>3 DEF Shows
  <2>5. p < bufStart => p < bufEnd
    BY <1>2
  <2>6. p < bufStart \/ bufStart <= p
    BY <1>2
  <2> QED BY <1>2, <2>1, <2>2, <2>3, <2>4, <2>5, <2>6
<1>13. ChunksAre(cs, t, bufEnd, parts + 1)
  BY <1>6, <1>10, <1>11, <1>12 DEF ChunksAre
<1> QED BY <1>13 DEF cs

(* The section is finished, or had nothing.                                *)
LEMMA AdvanceStep ==
    ASSUME Sectioned, NEW cs, NEW t \in 1 .. Len(sections), NEW filled \in Nat, NEW n, NEW k,
           ChunksAre(cs, t, filled, n), filled = sections[t].end \/ (~HasContent(t) /\ filled = 0)
    PROVE  ChunksAre(cs, t + 1, 0, k)
<1>1. Len(sections) \in Nat /\ t \in Nat /\ \A s \in 1 .. Len(sections) : s \in Nat
  BY SectionsAre
<1>2. \A c : \A s \in 1 .. Len(sections) : From(c, s, t, filled, n) => From(c, s, t + 1, 0, k)
  BY <1>1 DEF From
<1>3. \A p \in Nat : \A s \in 1 .. Len(sections) : Shows(sections[s], p) =>
          ((s < t \/ (s = t /\ p < filled)) <=> (s < t + 1 \/ (s = t + 1 /\ p < 0)))
  <2> SUFFICES ASSUME NEW p \in Nat, NEW s \in 1 .. Len(sections), Shows(sections[s], p)
               PROVE  (s < t \/ (s = t /\ p < filled)) <=> (s < t + 1 \/ (s = t + 1 /\ p < 0))
    OBVIOUS
  <2>1. s = t => p < filled
    <3> SUFFICES ASSUME s = t PROVE p < filled
      OBVIOUS
    <3>1. HasContent(t)
      <4>1. sections[t].start \in Nat /\ sections[t].end \in Nat
        BY SectionsAre
      <4> QED BY <4>1 DEF Shows, HasContent
    <3> QED BY <3>1 DEF Shows
  <2> QED BY <1>1, <2>1
<1> QED BY <1>2, <1>3 DEF ChunksAre

(* A section is begun.                                                     *)
LEMMA BeginStep ==
    ASSUME Sectioned, NEW cs, NEW t \in 1 .. Len(sections), NEW n, ChunksAre(cs, t, 0, n)
    PROVE  ChunksAre(cs, t, sections[t].start, 0)
<1>1. Len(sections) \in Nat /\ t \in Nat /\ \A s \in 1 .. Len(sections) : s \in Nat
  BY SectionsAre
<1>2. cs \in Seq(ChunkRecords)
  BY DEF ChunksAre
<1>3. \A k \in 1 .. Len(cs) : \A s \in 1 .. Len(sections) :
          From(cs[k], s, t, 0, n) => From(cs[k], s, t, sections[t].start, 0)
  <2> SUFFICES ASSUME NEW k \in 1 .. Len(cs), NEW s \in 1 .. Len(sections), From(cs[k], s, t, 0, n)
               PROVE  s < t
    BY DEF From
  <2>1. cs[k].start \in Nat /\ cs[k].end \in Nat /\ cs[k].start < cs[k].end
    BY <1>2, ChunkFields DEF ChunksAre
  <2> QED BY <2>1 DEF From
<1>4. \A p \in Nat : \A s \in 1 .. Len(sections) : Shows(sections[s], p) =>
          ((s < t \/ (s = t /\ p < 0)) <=> (s < t \/ (s = t /\ p < sections[t].start)))
  <2> SUFFICES ASSUME NEW p \in Nat, NEW s \in 1 .. Len(sections), Shows(sections[s], p)
               PROVE  s = t => ~ (p < sections[t].start)
    BY <1>1
  <2>1. sections[t].start \in Nat
    BY SectionsAre
  <2> QED BY <2>1 DEF Shows
<1> QED BY <1>3, <1>4 DEF ChunksAre

(* A unit joins the part, or the part is flushed and the unit begins one.  *)
LEMMA UnitStep ==
    ASSUME Sectioned, WhileSplitting, chunkPc = "split",
           ChunksAre(chunks, nextSection, bufStart, parts),
           NEW i \in DOMAIN body, NEW e \in UnitEnds(sections[nextSection], i), AddUnit(i, e)
    PROVE  WhileSplitting' /\ ChunksAre(chunks', nextSection, bufStart', parts')
<1> DEFINE t == nextSection
           S == sections[nextSection]
<1>1. /\ t \in 1 .. Len(sections) /\ HasContent(t) /\ S.start \in Nat /\ S.end \in Nat
      /\ bufStart \in Nat /\ bufEnd \in Nat /\ parts \in Nat
      /\ S.start <= bufStart /\ bufStart < S.end /\ bufStart <= bufEnd /\ bufEnd < S.end
      /\ bufEnd - bufStart <= MaxTokens
  BY SectionsAre DEF WhileSplitting, AddUnit
<1>2. /\ i \in 1 .. Len(body) /\ body[i].start \in Nat /\ body[i].end \in Nat
      /\ body[i].start <= bufEnd /\ bufEnd < body[i].end
  BY BlocksAre DEF Sectioned, Parsed, AddUnit
<1>3. body[i].end <= S.end
  <2>1. S.start < body[i].end /\ body[i].start < S.end
    <3> HIDE DEF S, t
    <3> QED BY ONLY <1>1, <1>2
  <2>2. Overlaps(S, body[i])
    BY <2>1 DEF Overlaps
  <2> QED BY <1>1, <1>2, <2>2 DEF Sectioned, Tiled
<1>4. MaxTokens \in Nat /\ TargetTokens \in Nat /\ TargetTokens <= MaxTokens
  BY ChunkerAssumption
<1>5. e \in Nat /\ bufEnd < e /\ e <= S.end /\ e - bufEnd <= MaxTokens
  <2>1. CASE S.end - S.start <= MaxTokens
    <3>1. e = S.end
      BY <2>1 DEF UnitEnds
    <3> QED BY <1>1, <1>4, <2>1, <3>1
  <2>2. CASE ~ (S.end - S.start <= MaxTokens) /\ body[i].end - body[i].start <= MaxTokens
    <3>1. e = body[i].end
      BY <2>2 DEF UnitEnds
    <3> QED BY <1>1, <1>2, <1>3, <1>4, <2>2, <3>1
  <2>3. CASE ~ (S.end - S.start <= MaxTokens) /\ ~ (body[i].end - body[i].start <= MaxTokens)
    <3>1. e \in bufEnd + 1 .. body[i].end /\ e - bufEnd <= MaxTokens
      BY <2>3 DEF UnitEnds
    <3> QED BY <1>1, <1>2, <1>3, <3>1
  <2> QED BY <2>1, <2>2, <2>3
<1>6. bufEnd' = e /\ UNCHANGED <<sections, nextSection>>
  BY DEF AddUnit
<1>7. CASE bufEnd > bufStart /\ e - bufStart > TargetTokens
  <2>1. bufStart' = bufEnd /\ parts' = parts + 1 /\ chunks' = Flushed
    BY <1>7 DEF AddUnit
  <2>2. ChunksAre(chunks', t, bufStart', parts')
    BY <1>7, <2>1, FlushStep
  <2>3. bufEnd' - bufStart' <= MaxTokens
    BY <1>5, <1>6, <2>1
  <2>4. WhileSplitting'
    BY <1>1, <1>5, <1>6, <2>1, <2>3 DEF WhileSplitting, HasContent
  <2> QED BY <2>2, <2>4
<1>8. CASE ~ (bufEnd > bufStart /\ e - bufStart > TargetTokens)
  <2>1. UNCHANGED <<bufStart, parts, chunks>>
    BY <1>8 DEF AddUnit
  <2>2. bufEnd' - bufStart' <= MaxTokens
    BY <1>1, <1>4, <1>5, <1>6, <1>8, <2>1
  <2>3. WhileSplitting'
    BY <1>1, <1>5, <1>6, <2>1, <2>2 DEF WhileSplitting, HasContent
  <2> QED BY <2>1, <2>3
<1> QED BY <1>7, <1>8

LEMMA ChunkerStart == ChunkerInit => ChunkerInv
BY DEF ChunkerInit, ChunkerInv

LEMMA SectionedStays ==
    ASSUME Sectioned, UNCHANGED <<body, title, firstH1, sections>> PROVE Sectioned'
<1>1. (Parsed' <=> Parsed) /\ Length' = Length /\ \A ss, n : Tiled(ss, n)' <=> Tiled(ss, n)
  BY SameDocument
<1>2. Tiled(sections, Length)' <=> Tiled(sections, Length)
  BY <1>1
<1> QED BY <1>1, <1>2 DEF Sectioned

LEMMA ChunkerStep == ChunkerInv /\ [ChunkerNext]_chunkerVars => ChunkerInv'
<1> SUFFICES ASSUME ChunkerInv, [ChunkerNext]_chunkerVars PROVE ChunkerInv'
  OBVIOUS
<1>1. ASSUME NEW b \in Bodies, NEW fm \in Titles, chunkPc = "idle", Parse(b, fm) PROVE ChunkerInv'
  <2>1. WhileReading'
    BY <1>1, ParseStep DEF ChunkerInv
  <2>2. chunkPc' = "headings"
    BY <1>1 DEF Parse
  <2> QED BY <2>1, <2>2 DEF ChunkerInv
<1>2. CASE Block
  <2>1. chunkPc = "headings" /\ chunkPc' = "headings"
    BY <1>2 DEF Block
  <2> QED BY <1>2, <2>1, BlockStep DEF ChunkerInv
<1>3. CASE Heading
  <2>1. chunkPc = "headings" /\ chunkPc' = "headings"
    BY <1>3 DEF Heading
  <2> QED BY <1>3, <2>1, HeadingStep DEF ChunkerInv
<1>4. CASE EndOfBody
  <2>1. chunkPc = "headings" /\ chunkPc' = "sections"
    BY <1>4 DEF EndOfBody
  <2>2. /\ Parsed' /\ Tiled(sections, Length)' /\ Len(sections') <= Len(body') + 1
        /\ nextSection' = 1 /\ chunks' = <<>>
    BY <1>4, <2>1, EndOfBodyStep DEF ChunkerInv
  <2>3. Sectioned'
    BY <2>2 DEF Sectioned
  <2>4. Len(sections') \in Nat
    BY <2>2 DEF Tiled
  <2>5. ChunksAre(<<>>, 1, 0, parts)'
    <3>1. \A s \in 1 .. Len(sections') : ~ (s < 1 \/ (s = 1 /\ FALSE))
      BY <2>4
    <3>2. \A p \in Nat : ~ (p < 0)
      OBVIOUS
    <3> QED BY <3>1, <3>2 DEF ChunksAre
  <2>6. Filled' = 0
    BY <2>1 DEF Filled
  <2>7. ChunksAre(chunks, nextSection, Filled, parts)'
    BY <2>2, <2>5, <2>6
  <2> QED BY <2>1, <2>2, <2>3, <2>4, <2>7 DEF ChunkerInv
<1>5. CASE SkipSection
  <2>1. /\ chunkPc = "sections" /\ chunkPc' = "sections" /\ nextSection' = nextSection + 1
        /\ nextSection \in DOMAIN sections /\ ~HasContent(nextSection)
        /\ UNCHANGED <<body, title, firstH1, sections, chunks>>
    BY <1>5 DEF SkipSection
  <2>2. Sectioned /\ ChunksAre(chunks, nextSection, 0, parts)
    BY <2>1 DEF ChunkerInv, Filled
  <2>3. nextSection \in 1 .. Len(sections) /\ Len(sections) \in Nat
    BY <2>1, <2>2, SectionsAre
  <2>4. ChunksAre(chunks, nextSection + 1, 0, parts')
    BY <2>1, <2>2, <2>3, AdvanceStep
  <2>5. ChunksAre(chunks, nextSection, Filled, parts)'
    BY <2>1, <2>4, SameSections DEF Filled
  <2>6. Sectioned'
    BY <2>1, <2>2, SectionedStays
  <2> QED BY <2>1, <2>3, <2>5, <2>6 DEF ChunkerInv
<1>6. CASE BeginSection
  <2>1. /\ chunkPc = "sections" /\ chunkPc' = "split" /\ nextSection' = nextSection
        /\ nextSection \in DOMAIN sections /\ HasContent(nextSection)
        /\ bufStart' = sections[nextSection].start /\ bufEnd' = sections[nextSection].start
        /\ parts' = 0 /\ UNCHANGED <<body, title, firstH1, sections, chunks>>
    BY <1>6 DEF BeginSection
  <2>2. Sectioned /\ ChunksAre(chunks, nextSection, 0, parts)
    BY <2>1 DEF ChunkerInv, Filled
  <2>3. /\ nextSection \in 1 .. Len(sections) /\ Len(sections) \in Nat
        /\ sections[nextSection].start \in Nat /\ sections[nextSection].end \in Nat
    BY <2>1, <2>2, SectionsAre
  <2>4. ChunksAre(chunks, nextSection, sections[nextSection].start, 0)
    BY <2>2, <2>3, BeginStep
  <2>5. ChunksAre(chunks, nextSection, Filled, parts)'
    BY <2>1, <2>4, SameSections DEF Filled
  <2>6. Sectioned'
    BY <2>1, <2>2, SectionedStays
  <2>7. WhileSplitting'
    BY <2>1, <2>3, ChunkerAssumption DEF WhileSplitting, HasContent
  <2> QED BY <2>1, <2>3, <2>5, <2>6, <2>7 DEF ChunkerInv
<1>7. ASSUME NEW i \in DOMAIN body, chunkPc = "split",
             NEW e \in UnitEnds(sections[nextSection], i), AddUnit(i, e)
      PROVE  ChunkerInv'
  <2>1. chunkPc' = "split" /\ UNCHANGED <<body, title, firstH1, sections, nextSection>>
    BY <1>7 DEF AddUnit
  <2>2. Sectioned /\ WhileSplitting /\ ChunksAre(chunks, nextSection, bufStart, parts)
        /\ nextSection \in 1 .. Len(sections) + 1
    BY <1>7 DEF ChunkerInv, Filled
  <2>3. WhileSplitting' /\ ChunksAre(chunks', nextSection, bufStart', parts')
    BY <1>7, <2>2, UnitStep
  <2>4. ChunksAre(chunks, nextSection, Filled, parts)'
    BY <2>1, <2>3, SameSections DEF Filled
  <2>5. Sectioned'
    BY <2>1, <2>2, SectionedStays
  <2> QED BY <2>1, <2>2, <2>3, <2>4, <2>5 DEF ChunkerInv
<1>8. CASE EndOfSection
  <2>1. /\ chunkPc = "split" /\ chunkPc' = "sections" /\ nextSection' = nextSection + 1
        /\ bufEnd = sections[nextSection].end /\ chunks' = Flushed
        /\ UNCHANGED <<body, title, firstH1, sections>>
    BY <1>8 DEF EndOfSection
  <2>2. Sectioned /\ WhileSplitting /\ ChunksAre(chunks, nextSection, bufStart, parts)
    BY <2>1 DEF ChunkerInv, Filled
  <2>3. /\ nextSection \in 1 .. Len(sections) /\ Len(sections) \in Nat
        /\ bufStart < bufEnd /\ bufEnd \in Nat
    BY <2>1, <2>2, SectionsAre DEF WhileSplitting
  <2>4. ChunksAre(Flushed, nextSection, bufEnd, parts + 1)
    BY <2>2, <2>3, FlushStep
  <2>5. ChunksAre(Flushed, nextSection + 1, 0, parts')
    BY <2>1, <2>2, <2>3, <2>4, AdvanceStep
  <2>6. ChunksAre(chunks, nextSection, Filled, parts)'
    BY <2>1, <2>5, SameSections DEF Filled
  <2>7. Sectioned'
    BY <2>1, <2>2, SectionedStays
  <2> QED BY <2>1, <2>3, <2>6, <2>7 DEF ChunkerInv
<1>9. CASE EndOfSections
  <2>1. /\ chunkPc = "sections" /\ chunkPc' = "done" /\ nextSection = Len(sections) + 1
        /\ UNCHANGED <<body, title, firstH1, sections, nextSection, parts, chunks>>
    BY <1>9 DEF EndOfSections
  <2>2. Sectioned /\ ChunksAre(chunks, nextSection, 0, parts) /\ nextSection \in 1 .. Len(sections) + 1
    BY <2>1 DEF ChunkerInv, Filled
  <2>3. ChunksAre(chunks, nextSection, Filled, parts)'
    BY <2>1, <2>2, SameSections DEF Filled
  <2>4. Sectioned'
    BY <2>1, <2>2, SectionedStays
  <2> QED BY <2>1, <2>2, <2>3, <2>4 DEF ChunkerInv
<1>10. CASE UNCHANGED chunkerVars
  <2>1. UNCHANGED <<chunkPc, body, title, firstH1, nextBlock, current, h2, sections,
                    nextSection, bufStart, bufEnd, parts, chunks>>
    BY <1>10 DEF chunkerVars
  <2>2. WhileReading => WhileReading'
    BY <2>1, SameDocument DEF WhileReading, Open
  <2>3. Sectioned => Sectioned'
    BY <2>1, SectionedStays
  <2>4. ChunksAre(chunks, nextSection, Filled, parts)' <=> ChunksAre(chunks, nextSection, Filled, parts)
    BY <2>1, SameSections DEF Filled
  <2>5. WhileSplitting => WhileSplitting'
    BY <2>1, SameSections DEF WhileSplitting
  <2> QED BY <2>1, <2>2, <2>3, <2>4, <2>5 DEF ChunkerInv
<1> QED BY <1>1, <1>2, <1>3, <1>4, <1>5, <1>6, <1>7, <1>8, <1>9, <1>10 DEF ChunkerNext

(* Numbers of repeated breadcrumbs.                                        *)
LEMMA TimesCount ==
    ASSUME Sectioned, NEW s \in 1 .. Len(sections), HasContent(s)
    PROVE  /\ Times(s) \in 1 .. Len(body) + 1
           /\ \A r \in 1 .. Len(sections) :
                 /\ r < s /\ HasContent(r) /\ sections[r].path = sections[s].path
                 => Times(r) \in Nat /\ Times(r) < Times(s)
<1> DEFINE Same(i) == {r \in 1 .. i : HasContent(r) /\ sections[r].path = sections[i].path}
<1>1. Len(sections) \in Nat /\ Len(sections) <= Len(body) + 1 /\ Len(body) \in Nat
  BY SectionsAre, BlocksAre DEF Sectioned, Parsed
<1>2. IsFiniteSet(1 .. s) /\ Cardinality(1 .. s) = s
  BY <1>1, FS_Interval
<1>3. Same(s) \subseteq 1 .. s /\ s \in Same(s)
  BY <1>1
<1>4. Times(s) = Cardinality(Same(s))
  BY DEF Times
<1>5. IsFiniteSet(Same(s)) /\ Times(s) \in Nat /\ Times(s) <= s /\ Times(s) # 0
  <2> HIDE DEF Same
  <2> QED BY <1>2, <1>3, <1>4, FS_Subset, FS_CardinalityType, FS_EmptySet
<1>6. ASSUME NEW r \in 1 .. Len(sections), r < s, HasContent(r), sections[r].path = sections[s].path
      PROVE  Times(r) \in Nat /\ Times(r) < Times(s)
  <2>1. Same(r) \subseteq Same(s) /\ s \notin Same(r)
    BY <1>1, <1>6
  <2>2. Times(r) = Cardinality(Same(r))
    BY DEF Times
  <2>3. Same(r) \subseteq Same(s) /\ Same(r) # Same(s)
    BY <1>3, <2>1
  <2> HIDE DEF Same
  <2>4. Cardinality(Same(r)) \in Nat /\ Cardinality(Same(r)) < Cardinality(Same(s))
    BY <1>5, <2>3, FS_Subset, FS_CardinalityType
  <2> QED BY <1>4, <2>2, <2>4
<1> QED BY <1>1, <1>5, <1>6

(* A breadcrumb is all but its last text, and the last.                    *)
LEMMA FrontAndLast ==
    ASSUME NEW S, NEW p \in Seq(S), p # <<>>
    PROVE  Front(p) \in Seq(S) /\ p = Append(Front(p), Last(p)) /\ Last(p) = p[Len(p)] /\ Last(p) \in S
<1>1. Len(p) \in Nat /\ Len(p) > 0 /\ \A i \in 1 .. Len(p) : p[i] \in S
  BY EmptySeq, ElementOfSeq
<1> DEFINE f == Front(p)
<1>2. f = SubSeq(p, 1, Len(p) - 1) /\ Last(p) = p[Len(p)]
  BY DEF Front, Last
<1>3. /\ f \in Seq(S) /\ Len(f) = Len(p) - 1
      /\ \A i \in 1 .. Len(p) - 1 : f[i] = p[i]
  <2>1. \A i \in 1 .. Len(p) - 1 : p[i] \in S
    BY <1>1
  <2>2. 1 \in Int /\ Len(p) - 1 \in Int
    BY <1>1
  <2>3. /\ SubSeq(p, 1, Len(p) - 1) \in Seq(S)
        /\ Len(SubSeq(p, 1, Len(p) - 1)) = IF 1 <= Len(p) - 1 THEN (Len(p) - 1) - 1 + 1 ELSE 0
        /\ \A i \in 1 .. (Len(p) - 1) - 1 + 1 : SubSeq(p, 1, Len(p) - 1)[i] = p[1 + i - 1]
    BY <2>1, <2>2, SubSeqProperties
  <2>4. (Len(p) - 1) - 1 + 1 = Len(p) - 1
    BY <1>1
  <2>5. \A i \in 1 .. Len(p) - 1 : 1 + i - 1 = i
    BY <1>1
  <2>6. Len(f) = Len(p) - 1
    <3>1. Len(f) = IF 1 <= Len(p) - 1 THEN (Len(p) - 1) - 1 + 1 ELSE 0
      BY <1>2, <2>3, Zenon
    <3>2. \A n \in Nat : n > 0 => (IF 1 <= n - 1 THEN (n - 1) - 1 + 1 ELSE 0) = n - 1
      OBVIOUS
    <3> HIDE DEF f
    <3> QED BY <1>1, <3>1, <3>2, Zenon
  <2> QED BY <1>2, <2>3, <2>4, <2>5, <2>6
<1> HIDE DEF f
<1>4. Last(p) \in S
  BY <1>1, <1>2
<1>5. /\ Append(f, Last(p)) \in Seq(S) /\ Len(Append(f, Last(p))) = Len(p)
      /\ \A i \in 1 .. Len(p) : Append(f, Last(p))[i] = p[i]
  BY <1>1, <1>2, <1>3, <1>4
<1>6. p = Append(f, Last(p))
  BY <1>5, SeqEqual
<1> QED BY <1>2, <1>3, <1>4, <1>6 DEF f

LEMMA HeadingPathIs ==
    ASSUME Sectioned, NEW s \in 1 .. Len(sections), HasContent(s)
    PROVE  LET path == sections[s].path IN
           /\ Crumb(path)
           /\ \/ HeadingPath(s) = path /\ Times(s) = 1
              \/ /\ Times(s) \in 2 .. Len(body) + 1
                 /\ HeadingPath(s) = Front(path) \o <<Numbered[<<Last(path), Times(s)>>]>>
<1>1. Crumb(sections[s].path)
  BY DEF Sectioned, Tiled
<1>2. Times(s) \in 1 .. Len(body) + 1 /\ Len(body) \in Nat
  BY TimesCount, BlocksAre DEF Sectioned, Parsed
<1>3. Times(s) = 1 \/ Times(s) \in 2 .. Len(body) + 1
  BY <1>2
<1>4. Times(s) \in 2 .. Len(body) + 1 => Times(s) # 1
  BY <1>2
<1> QED BY <1>1, <1>3, <1>4 DEF HeadingPath

LEMMA ChunksCover == ChunkerInv => EveryBlockIsChunked
<1> SUFFICES ASSUME ChunkerInv, chunkPc = "done" PROVE EveryBlockIsChunked
  BY DEF EveryBlockIsChunked
<1> DEFINE m == Len(chunks)
           t == Len(sections) + 1
<1>1. Sectioned /\ nextSection = t /\ ChunksAre(chunks, t, 0, parts)
  BY DEF ChunkerInv, Filled
<1>2. /\ Len(sections) \in Nat
      /\ \A s \in 1 .. Len(sections) : sections[s].start \in Nat /\ sections[s].end \in Nat
                                       /\ sections[s].end <= Length
  BY <1>1, SectionsAre
<1>3. body \in Bodies /\ DOMAIN body = 1 .. Len(body) /\ Len(body) \in Nat /\ Length \in Nat
  <2>1. body \in Bodies
    BY <1>1 DEF Sectioned, Parsed
  <2>2. /\ DOMAIN body = 1 .. Len(body) /\ Len(body) \in Nat /\ Length = EndOf(Len(body))
        /\ \A i \in 0 .. Len(body) : EndOf(i) \in Nat
    BY <2>1, BlocksAre
  <2>3. Len(body) \in 0 .. Len(body)
    BY <2>2
  <2> QED BY <2>1, <2>2, <2>3
<1>4. /\ DOMAIN chunks = 1 .. m /\ chunks \in Seq(ChunkRecords)
      /\ \A k \in 1 .. m : chunks[k].start \in Nat /\ chunks[k].end \in Nat
  BY <1>1, ChunkFields DEF ChunksAre
<1>5. \A p \in 0 .. Length - 1 : (\E k \in DOMAIN chunks : Shows(chunks[k], p)) <=> ~IsTitle(p)
  <2> SUFFICES ASSUME NEW p \in 0 .. Length - 1
               PROVE  (\E k \in 1 .. m : Shows(chunks[k], p)) <=> ~IsTitle(p)
    BY <1>4
  <2>1. p \in Nat /\ p < Length
    BY <1>3
  <2>2. (\E s \in 1 .. Len(sections) : Shows(sections[s], p)) <=> ~IsTitle(p)
    BY <1>1, <2>1 DEF Sectioned, Tiled
  <2>3. (\E k \in 1 .. m : Shows(chunks[k], p)) <=>
           \E s \in 1 .. Len(sections) : Shows(sections[s], p) /\ (s < t \/ (s = t /\ p < 0))
    BY <1>1, <2>1 DEF ChunksAre
  <2>4. \A s \in 1 .. Len(sections) : s < t
    BY <1>2
  <2> QED BY <2>2, <2>3, <2>4
<1>6. \A j, k \in DOMAIN chunks : j < k => chunks[j].end <= chunks[k].start
  BY <1>1, <1>4 DEF ChunksAre
<1>7. \A k \in DOMAIN chunks :
         /\ chunks[k].start < chunks[k].end /\ chunks[k].end <= Length
         /\ chunks[k].end - chunks[k].start <= MaxTokens
         /\ \A i \in DOMAIN body : Overlaps(chunks[k], body[i]) =>
               \/ chunks[k].heading = Under(i)
               \/ \E n \in 2 .. Len(body) + 1 :
                     chunks[k].heading = Front(Under(i)) \o <<Numbered[<<Last(Under(i)), n>>]>>
  <2> SUFFICES ASSUME NEW k \in 1 .. m
               PROVE  /\ chunks[k].start < chunks[k].end /\ chunks[k].end <= Length
                      /\ chunks[k].end - chunks[k].start <= MaxTokens
                      /\ \A i \in DOMAIN body : Overlaps(chunks[k], body[i]) =>
                            \/ chunks[k].heading = Under(i)
                            \/ \E n \in 2 .. Len(body) + 1 :
                                  chunks[k].heading = Front(Under(i)) \o <<Numbered[<<Last(Under(i)), n>>]>>
    BY <1>4
  <2>1. PICK s \in 1 .. Len(sections) : From(chunks[k], s, t, 0, parts)
    BY <1>1 DEF ChunksAre
  <2>2. chunks[k].start < chunks[k].end /\ chunks[k].end - chunks[k].start <= MaxTokens
    BY <1>1 DEF ChunksAre
  <2>3. /\ HasContent(s) /\ chunks[k].heading = HeadingPath(s)
        /\ sections[s].start <= chunks[k].start /\ chunks[k].end <= sections[s].end
    BY <2>1 DEF From, Within
  <2>4. chunks[k].end <= Length
    BY <1>2, <1>3, <1>4, <2>3
  <2>5. ASSUME NEW i \in DOMAIN body, Overlaps(chunks[k], body[i])
        PROVE  \/ chunks[k].heading = Under(i)
               \/ \E n \in 2 .. Len(body) + 1 :
                     chunks[k].heading = Front(Under(i)) \o <<Numbered[<<Last(Under(i)), n>>]>>
    <3>1. i \in 1 .. Len(body) /\ body[i].start \in Nat /\ body[i].end \in Nat
      BY <1>3, BlocksAre
    <3>2. Overlaps(sections[s], body[i])
      BY <1>2, <1>4, <2>3, <2>5, <3>1 DEF Overlaps
    <3>3. sections[s].path = Under(i)
      BY <1>1, <3>1, <3>2 DEF Sectioned, Tiled
    <3> QED BY <1>1, <2>3, <3>3, HeadingPathIs
  <2> QED BY <2>2, <2>4, <2>5
<1> QED BY <1>5, <1>6, <1>7 DEF EveryBlockIsChunked

(* EveryBlockIsChunked (Chunker): nothing of a document is lost, said twice*)
(* or filed under another heading, whatever its blocks are.                *)
THEOREM BlocksAreChunked == ChunkerSpec => []EveryBlockIsChunked
<1>1. ChunkerSpec => []ChunkerInv
  BY ChunkerStart, ChunkerStep, PTL DEF ChunkerSpec
<1> QED BY <1>1, ChunksCover, PTL

(* Two sections that have one name were named alike in the document.       *)
LEMMA NamesDiffer ==
    ASSUME Sectioned, NEW r \in 1 .. Len(sections), NEW s \in 1 .. Len(sections), r < s,
           HasContent(r), HasContent(s), HeadingPath(r) = HeadingPath(s)
    PROVE  \E x, y \in HeadingTexts, n \in 2 .. Len(body) + 1 : x = Numbered[<<y, n>>]
<1> DEFINE P == sections[r].path
           Q == sections[s].path
           a == Times(r)
           b == Times(s)
           x == Numbered[<<Last(P), a>>]
           y == Numbered[<<Last(Q), b>>]
<1>1. /\ Crumb(P) /\ Crumb(Q)
      /\ (HeadingPath(r) = P /\ a = 1) \/ (a \in 2 .. Len(body) + 1 /\ HeadingPath(r) = Front(P) \o <<x>>)
      /\ (HeadingPath(s) = Q /\ b = 1) \/ (b \in 2 .. Len(body) + 1 /\ HeadingPath(s) = Front(Q) \o <<y>>)
  BY HeadingPathIs
<1>2. /\ Front(P) \in Seq(Texts) /\ P = Append(Front(P), Last(P)) /\ Last(P) \in Texts
      /\ Front(Q) \in Seq(Texts) /\ Q = Append(Front(Q), Last(Q)) /\ Last(Q) \in Texts
      /\ Last(P) \in HeadingTexts /\ Last(Q) \in HeadingTexts
  BY <1>1, FrontAndLast DEF Crumb
<1>3. P = Q => a # b
  <2>1. P = Q => a \in Nat /\ a < b
    BY TimesCount
  <2>2. b \in Nat
    BY <1>1, BlocksAre DEF Sectioned, Parsed
  <2> QED BY <2>1, <2>2
<1>4. \A S : \A f, g \in Seq(S) : \A u, v \in S : Append(f, u) = Append(g, v) => f = g /\ u = v
  <2> SUFFICES ASSUME NEW S, NEW f \in Seq(S), NEW g \in Seq(S), NEW u \in S, NEW v \in S,
                      Append(f, u) = Append(g, v)
               PROVE  f = g /\ u = v
    OBVIOUS
  <2>1. /\ Len(Append(f, u)) = Len(f) + 1 /\ Append(f, u)[Len(f) + 1] = u
        /\ Len(Append(g, v)) = Len(g) + 1 /\ Append(g, v)[Len(g) + 1] = v
        /\ \A i \in 1 .. Len(f) : Append(f, u)[i] = f[i]
        /\ \A i \in 1 .. Len(g) : Append(g, v)[i] = g[i]
        /\ Len(f) \in Nat /\ Len(g) \in Nat
    OBVIOUS
  <2>2. Len(f) = Len(g)
    BY <2>1
  <2>3. u = v /\ \A i \in 1 .. Len(f) : f[i] = g[i]
    BY <2>1, <2>2
  <2> QED BY <2>2, <2>3, SeqEqual
<1>5. \A S : \A f \in Seq(S) : \A u : f \o <<u>> = Append(f, u)
  <2> SUFFICES ASSUME NEW S, NEW f \in Seq(S), NEW u PROVE f \o <<u>> = Append(f, u)
    OBVIOUS
  <2> DEFINE U == S \union {u}
  <2>1. f \in Seq(U) /\ u \in U
    BY SeqMonotonic
  <2> HIDE DEF U
  <2> QED BY <2>1, AppendIsConcat
<1> DEFINE All == Texts \union {x, y}
<1>6. /\ Front(P) \in Seq(All) /\ Front(Q) \in Seq(All)
      /\ Last(P) \in All /\ Last(Q) \in All /\ x \in All /\ y \in All
  BY <1>2, SeqMonotonic
<1>7. /\ Front(P) \o <<x>> = Append(Front(P), x) /\ Front(Q) \o <<y>> = Append(Front(Q), y)
  BY <1>2, <1>5
<1>8. \A f, g \in Seq(All) : \A u, v \in All : Append(f, u) = Append(g, v) => f = g /\ u = v
  <2> HIDE DEF All
  <2> QED BY <1>4
<1> HIDE DEF P, Q, x, y, a, b, All
<1>9. CASE a = 1 /\ b = 1 /\ HeadingPath(r) = P /\ HeadingPath(s) = Q
  BY <1>3, <1>9
<1>10. CASE HeadingPath(r) = P /\ b \in 2 .. Len(body) + 1 /\ HeadingPath(s) = Front(Q) \o <<y>>
  <2>1. Append(Front(P), Last(P)) = Append(Front(Q), y)
    BY <1>2, <1>7, <1>10
  <2>2. Last(P) = y
    BY <1>6, <1>8, <2>1
  <2> QED BY <1>2, <1>10, <2>2 DEF y
<1>11. CASE HeadingPath(s) = Q /\ a \in 2 .. Len(body) + 1 /\ HeadingPath(r) = Front(P) \o <<x>>
  <2>1. Append(Front(Q), Last(Q)) = Append(Front(P), x)
    BY <1>2, <1>7, <1>11
  <2>2. Last(Q) = x
    BY <1>6, <1>8, <2>1
  <2> QED BY <1>2, <1>11, <2>2 DEF x
<1>12. CASE /\ a \in 2 .. Len(body) + 1 /\ HeadingPath(r) = Front(P) \o <<x>>
            /\ b \in 2 .. Len(body) + 1 /\ HeadingPath(s) = Front(Q) \o <<y>>
  <2>1. Front(P) = Front(Q) /\ x = y
    <3>1. Append(Front(P), x) = Append(Front(Q), y)
      BY <1>7, <1>12
    <3> QED BY <1>6, <1>8, <3>1
  <2>2. <<Last(P), a>> \in DOMAIN Numbered /\ <<Last(Q), b>> \in DOMAIN Numbered
    <3>1. Texts \X (2 .. Len(body) + 1) \subseteq DOMAIN Numbered
      BY ChunkerAssumption DEF Sectioned, Parsed
    <3> QED BY <1>2, <1>12, <3>1
  <2>3. <<Last(P), a>> = <<Last(Q), b>>
    <3>1. Numbered[<<Last(P), a>>] = Numbered[<<Last(Q), b>>]
      BY <2>1 DEF x, y
    <3> QED BY <2>2, <3>1, ChunkerAssumption DEF IsInjective
  <2>4. P = Q /\ a = b
    BY <1>2, <2>1, <2>3
  <2> QED BY <1>3, <2>4
<1> QED BY <1>1, <1>9, <1>10, <1>11, <1>12 DEF P, Q, x, y, a, b

LEMMA IdsDiffer == ChunkerInv => IdsAreUnique
<1> SUFFICES ASSUME ChunkerInv, chunkPc = "done", NEW i \in DOMAIN chunks, NEW j \in DOMAIN chunks,
                    i # j, chunks[i].heading = chunks[j].heading, chunks[i].part = chunks[j].part
             PROVE  \E s, t \in HeadingTexts, n \in 2 .. Len(body) + 1 : s = Numbered[<<t, n>>]
  BY DEF IdsAreUnique, SameId
<1> DEFINE t == Len(sections) + 1
<1>1. Sectioned /\ ChunksAre(chunks, t, 0, parts)
  BY DEF ChunkerInv, Filled
<1>2. /\ i \in 1 .. Len(chunks) /\ j \in 1 .. Len(chunks) /\ Len(chunks) \in Nat
      /\ chunks[i].part \in Nat /\ chunks[j].part \in Nat
  <2>1. chunks \in Seq(ChunkRecords)
    BY <1>1 DEF ChunksAre
  <2>2. DOMAIN chunks = 1 .. Len(chunks) /\ Len(chunks) \in Nat
    BY <2>1
  <2> QED BY <2>1, <2>2, ChunkFields
<1>3. PICK r \in 1 .. Len(sections) : From(chunks[i], r, t, 0, parts)
  BY <1>1, <1>2 DEF ChunksAre
<1>4. PICK s \in 1 .. Len(sections) : From(chunks[j], s, t, 0, parts)
  BY <1>1, <1>2 DEF ChunksAre
<1>5. r # s
  <2> SUFFICES ASSUME r = s PROVE FALSE
    OBVIOUS
  <2>1. Within(chunks[i], r) /\ Within(chunks[j], r)
    BY <1>3, <1>4 DEF From
  <2>2. (i < j => chunks[i].part < chunks[j].part) /\ (j < i => chunks[j].part < chunks[i].part)
    BY <1>1, <1>2, <2>1 DEF ChunksAre
  <2> QED BY <1>2, <2>2
<1>6. HasContent(r) /\ HasContent(s) /\ HeadingPath(r) = HeadingPath(s)
  BY <1>3, <1>4 DEF From
<1>7. r < s \/ s < r
  BY <1>1, <1>5, SectionsAre
<1> QED BY <1>1, <1>6, <1>7, NamesDiffer

(* IdsAreUnique (Chunker): the numbers of repeated breadcrumbs keep ids    *)
(* apart, in every document without a heading written like one of them.    *)
THEOREM ChunkIdsUnique == ChunkerSpec => []IdsAreUnique
<1>1. ChunkerSpec => []ChunkerInv
  BY ChunkerStart, ChunkerStep, PTL DEF ChunkerSpec
<1> QED BY <1>1, IdsDiffer, PTL

-----------------------------------------------------------------------------
(* Globs.  How far a match has come is told in segments: those of the glob *)
(* up to the cut a are laid over those of the path up to the cut b (Laid), *)
(* and the characters of the next one up to the x-th over those up to the  *)
(* y-th (Over).                                                            *)
CutsTo(g, a) == Cuts(g) \intersect (0 .. a)
Laid(g, a, p, b) ==
    \E f \in [CutsTo(g, a) -> Cuts(p)] :
        /\ f[0] = 0 /\ f[a] = b
        /\ \A ab \in Neighbours(g) :
              ab[2] <= a => Takes(g, ab[1], ab[2], p, f[ab[1]], f[ab[2]])

Over(g, a, x, p, b, y) ==
    \E h \in [a .. x -> b .. Len(p)] :
        /\ h[a] = b /\ h[x] = y
        /\ \A i \in a + 1 .. x :
              IF g[i] = "*" THEN h[i - 1] <= h[i]
              ELSE h[i] = h[i - 1] + 1 /\ g[i] \in {"?", p[h[i]]}

(* The segment that x is in begins at the cut c.                           *)
Begins(s, c, x) == c \in Cuts(s) /\ c <= x /\ \A e \in Cuts(s) : e <= c \/ x < e

Matches(g, x, p, y) ==
    \E a, b \in Nat : Begins(g, a, x) /\ Begins(p, b, y) /\ Laid(g, a, p, b) /\ Over(g, a, x, p, b, y)

(* What the items for the first x characters of the glob can match; at its *)
(* end "**" takes any characters.                                          *)
EndsDeep(g) == Len(g) >= 2 /\ g[Len(g) - 1] = "*" /\ g[Len(g)] = "*"
Reach(g, x, p) ==
    {y \in 0 .. Len(p) :
        IF x = Len(g) /\ EndsDeep(g) THEN \E b \in 0 .. y : Laid(g, Len(g) - 2, p, b)
        ELSE Matches(g, x, p, y)}

(* No item ends inside "**" or "**" followed by "/".                       *)
Boundary(g, x) ==
    /\ ~(x >= 1 /\ Is(g, x, "*") /\ Is(g, x + 1, "*"))
    /\ ~(x >= 2 /\ Is(g, x - 1, "*") /\ Is(g, x, "*") /\ Is(g, x + 1, "/"))

(* e[t] is where the t-th item ends in the glob.                           *)
Written(g, items, e) ==
    /\ e \in [0 .. Len(items) -> 0 .. Len(g)] /\ e[0] = 0
    /\ \A t \in 1 .. Len(items) : /\ e[t - 1] < Len(g)
                                  /\ items[t] = ItemAt(g, e[t - 1] + 1).re
                                  /\ e[t] = e[t - 1] + ItemAt(g, e[t - 1] + 1).takes
    /\ \A t \in 0 .. Len(items) : Boundary(g, e[t])

Matching == globPc \in {"match", "done"}

WhileWild ==
    \E e \in [0 .. Len(re) -> 0 .. Len(glob)] :
        /\ Written(glob, re, e)
        /\ at = e[Len(re)] + 1
        /\ globPc # "write" => at = Len(glob) + 1
        /\ Matching => reached = Reach(glob, e[item - 1], against)

(* Without a wildcard the items are the characters themselves.             *)
Prefix(s, p, k) == k <= Len(p) /\ \A l \in 1 .. k : p[l] = s[l]
PlainReach(s, i, p) ==
    IF i <= Len(s) + 1 THEN {k \in 0 .. Len(p) : k = i - 1 /\ Prefix(s, p, k)}
    ELSE {k \in 0 .. Len(p) : /\ Prefix(s, p, Len(s))
                              /\ k = Len(s) \/ (k > Len(s) /\ p[Len(s) + 1] = "/")}
WhilePlain ==
    /\ globPc # "write"
    /\ re = Append(TrimSlash(glob), "beneath")
    /\ Matching => reached = PlainReach(TrimSlash(glob), item, against)

WhileEmpty ==
    /\ globPc # "write" /\ re = <<>>
    /\ Matching => reached = {0}

GlobTypes ==
    /\ globPc \in {"idle", "write", "ask", "match", "done"}
    /\ glob \in Seq(Characters) /\ re \in Seq(Characters \union Items)
    /\ at \in Nat \ {0}
    /\ ~Matching => item = 1
    /\ Matching => against \in PathSet /\ item \in 1 .. Len(re) + 1
    /\ globPc = "done" => item = Len(re) + 1

GlobInv ==
    /\ GlobTypes
    /\ globPc = "idle" => at = 1 /\ re = <<>>
    /\ globPc # "idle" =>
          /\ glob = <<>> => WhileEmpty
          /\ glob # <<>> /\ ~Wild(glob) => WhilePlain
          /\ Wild(glob) /\ WholeSegments(glob) => WhileWild

LEMMA CutsAre ==
    ASSUME NEW s \in Seq(Characters)
    PROVE  /\ Len(s) \in Nat /\ DOMAIN s = 1 .. Len(s)
           /\ Cuts(s) \subseteq 0 .. Len(s) + 1
           /\ 0 \in Cuts(s) /\ Len(s) + 1 \in Cuts(s)
           /\ \A i \in 1 .. Len(s) : i \in Cuts(s) <=> s[i] = "/"
BY LenProperties DEF Cuts

LEMMA NeighboursAre ==
    ASSUME NEW s, NEW a, NEW b
    PROVE  <<a, b>> \in Neighbours(s) <=>
             /\ a \in Cuts(s) /\ b \in Cuts(s) /\ a < b
             /\ \A c \in Cuts(s) : c <= a \/ b <= c
BY DEF Neighbours

(* Every place is in a segment.                                            *)
LEMMA SegmentBegins ==
    ASSUME NEW s \in Seq(Characters), NEW x \in Nat
    PROVE  \E c \in Nat : Begins(s, c, x)
<1> DEFINE S == {c + 1 : c \in Cuts(s) \intersect (0 .. x)}
<1>1. Cuts(s) \subseteq Nat /\ 0 \in Cuts(s)
  BY CutsAre
<1>2. S \in SUBSET (1 .. x + 1) /\ S # {}
  BY <1>1
<1>3. PICK k \in S : \A j \in S : j <= k
  <2> HIDE DEF S
  <2>1. x + 1 \in Nat
    OBVIOUS
  <2> QED BY <1>2, <2>1, LastExists
<1>4. PICK c \in Cuts(s) \intersect (0 .. x) : k = c + 1
  OBVIOUS
<1>5. ASSUME NEW e \in Cuts(s) PROVE e <= c \/ x < e
  <2>1. CASE e <= x
    <3>1. e + 1 \in S
      BY <1>1, <2>1
    <3>2. e + 1 <= k
      <4> HIDE DEF S
      <4> QED BY <1>3, <3>1
    <3> QED BY <1>1, <1>4, <3>2
  <2> QED BY <1>1, <2>1
<1> QED BY <1>1, <1>4, <1>5 DEF Begins

LEMMA BeginsNext ==
    ASSUME NEW s \in Seq(Characters), NEW c \in Nat, NEW x \in 0 .. Len(s)
    PROVE  /\ x + 1 \in Cuts(s) => (Begins(s, c, x) <=> <<c, x + 1>> \in Neighbours(s))
           /\ x + 1 \in Cuts(s) => (Begins(s, c, x + 1) <=> c = x + 1)
           /\ x + 1 \notin Cuts(s) => (Begins(s, c, x) <=> Begins(s, c, x + 1))
<1>1. Len(s) \in Nat /\ Cuts(s) \subseteq Nat
  BY CutsAre
<1> QED BY <1>1, NeighboursAre DEF Begins

LEMMA BeginsStays ==
    ASSUME NEW s \in Seq(Characters), NEW c \in Nat, NEW x \in 0 .. Len(s), NEW z \in x .. Len(s), c <= x
    PROVE  Begins(s, c, z) <=> Begins(s, c, x) /\ \A l \in x + 1 .. z : s[l] # "/"
<1>1. /\ Len(s) \in Nat /\ Cuts(s) \subseteq Nat
      /\ \A i \in 1 .. Len(s) : i \in Cuts(s) <=> s[i] = "/"
  BY CutsAre
<1>2. ASSUME Begins(s, c, z) PROVE Begins(s, c, x) /\ \A l \in x + 1 .. z : s[l] # "/"
  BY <1>1, <1>2 DEF Begins
<1>3. ASSUME Begins(s, c, x), \A l \in x + 1 .. z : s[l] # "/" PROVE Begins(s, c, z)
  BY <1>1, <1>3 DEF Begins
<1> QED BY <1>2, <1>3

-----------------------------------------------------------------------------
(* Laying segments over segments, one at a time.                           *)
LEMMA LaidAtStart ==
    ASSUME NEW g \in Seq(Characters), NEW p \in Seq(Characters), NEW b
    PROVE  Laid(g, 0, p, b) <=> b = 0
<1>1. /\ Len(g) \in Nat /\ Cuts(g) \subseteq Nat /\ 0 \in Cuts(g) /\ 0 \in Cuts(p)
  BY CutsAre
<1>2. CutsTo(g, 0) = {0}
  BY <1>1 DEF CutsTo
<1>3. \A ab \in Neighbours(g) : ~(ab[2] <= 0)
  BY <1>1 DEF Neighbours
<1>4. ASSUME b = 0 PROVE Laid(g, 0, p, b)
  <2> DEFINE f == [c \in CutsTo(g, 0) |-> 0]
  <2>1. f \in [CutsTo(g, 0) -> Cuts(p)] /\ f[0] = 0
    BY <1>1, <1>2
  <2> HIDE DEF f
  <2> QED BY <1>3, <1>4, <2>1 DEF Laid
<1> QED BY <1>4 DEF Laid

LEMMA LaidNext ==
    ASSUME NEW g \in Seq(Characters), NEW p \in Seq(Characters),
           NEW a, NEW z, <<a, z>> \in Neighbours(g), NEW d
    PROVE  Laid(g, z, p, d) <=>
             d \in Cuts(p) /\ \E b \in Cuts(p) : Laid(g, a, p, b) /\ Takes(g, a, z, p, b, d)
<1>1. /\ Len(g) \in Nat /\ Cuts(g) \subseteq Nat /\ 0 \in Cuts(g) /\ 0 \in Cuts(p)
  BY CutsAre
<1>2. a \in Cuts(g) /\ z \in Cuts(g) /\ a < z /\ \A c \in Cuts(g) : c <= a \/ z <= c
  BY NeighboursAre
<1>3. /\ CutsTo(g, z) = CutsTo(g, a) \union {z} /\ z \notin CutsTo(g, a)
      /\ 0 \in CutsTo(g, a) /\ a \in CutsTo(g, a)
  BY <1>1, <1>2 DEF CutsTo
<1>4. ASSUME NEW ab \in Neighbours(g)
      PROVE  /\ ab = <<ab[1], ab[2]>>
             /\ ab[2] <= a => ab[1] \in CutsTo(g, a) /\ ab[2] \in CutsTo(g, a)
             /\ ab[2] <= z => ab[2] <= a \/ (ab[1] = a /\ ab[2] = z)
             /\ ab[2] <= a => ab[2] <= z
  <2>1. /\ ab = <<ab[1], ab[2]>> /\ ab[1] \in Cuts(g) /\ ab[2] \in Cuts(g) /\ ab[1] < ab[2]
        /\ \A c \in Cuts(g) : c <= ab[1] \/ ab[2] <= c
    BY DEF Neighbours
  <2> QED BY <1>1, <1>2, <2>1 DEF CutsTo
<1>5. ASSUME Laid(g, z, p, d)
      PROVE  d \in Cuts(p) /\ \E b \in Cuts(p) : Laid(g, a, p, b) /\ Takes(g, a, z, p, b, d)
  <2>1. PICK f \in [CutsTo(g, z) -> Cuts(p)] :
           /\ f[0] = 0 /\ f[z] = d
           /\ \A ab \in Neighbours(g) : ab[2] <= z => Takes(g, ab[1], ab[2], p, f[ab[1]], f[ab[2]])
    BY <1>5 DEF Laid
  <2> DEFINE h == [c \in CutsTo(g, a) |-> f[c]]
  <2>2. h \in [CutsTo(g, a) -> Cuts(p)] /\ h[0] = 0 /\ h[a] = f[a]
    BY <1>3, <2>1
  <2>3. \A c \in CutsTo(g, a) : h[c] = f[c]
    OBVIOUS
  <2> HIDE DEF h
  <2>4. \A ab \in Neighbours(g) : ab[2] <= a => Takes(g, ab[1], ab[2], p, h[ab[1]], h[ab[2]])
    BY <1>4, <2>1, <2>3
  <2>5. Laid(g, a, p, f[a])
    BY <2>2, <2>4 DEF Laid
  <2>6. Takes(g, a, z, p, f[a], f[z])
    <3>1. z <= z
      BY <1>1, <1>2
    <3> QED BY <2>1, <3>1
  <2>7. f[a] \in Cuts(p) /\ d \in Cuts(p)
    BY <1>3, <2>1
  <2> QED BY <2>1, <2>5, <2>6, <2>7
<1>6. ASSUME d \in Cuts(p), NEW b \in Cuts(p), Laid(g, a, p, b), Takes(g, a, z, p, b, d)
      PROVE  Laid(g, z, p, d)
  <2>1. PICK f \in [CutsTo(g, a) -> Cuts(p)] :
           /\ f[0] = 0 /\ f[a] = b
           /\ \A ab \in Neighbours(g) : ab[2] <= a => Takes(g, ab[1], ab[2], p, f[ab[1]], f[ab[2]])
    BY <1>6 DEF Laid
  <2> DEFINE h == [c \in CutsTo(g, z) |-> IF c = z THEN d ELSE f[c]]
  <2>2. /\ h \in [CutsTo(g, z) -> Cuts(p)] /\ h[z] = d
        /\ \A c \in CutsTo(g, a) : h[c] = f[c]
    BY <1>3, <1>6, <2>1
  <2> HIDE DEF h
  <2>3. ASSUME NEW ab \in Neighbours(g), ab[2] <= z
        PROVE  Takes(g, ab[1], ab[2], p, h[ab[1]], h[ab[2]])
    <3>1. CASE ab[2] <= a
      BY <1>4, <2>1, <2>2, <3>1
    <3>2. CASE ab[1] = a /\ ab[2] = z
      BY <1>3, <1>6, <2>1, <2>2, <3>2
    <3> QED BY <1>4, <2>3, <3>1, <3>2
  <2> QED BY <1>3, <2>1, <2>2, <2>3 DEF Laid
<1> QED BY <1>5, <1>6

LEMMA LaidIsCut ==
    ASSUME NEW g \in Seq(Characters), NEW p, NEW a \in Cuts(g), NEW b, Laid(g, a, p, b)
    PROVE  b \in Cuts(p)
<1>1. a \in CutsTo(g, a)
  BY CutsAre DEF CutsTo
<1> QED BY <1>1 DEF Laid

LEMMA PathMatchesIsLaid ==
    ASSUME NEW g \in Seq(Characters), NEW p
    PROVE  PathMatches(g, p) <=> Laid(g, Len(g) + 1, p, Len(p) + 1)
<1>1. Len(g) \in Nat /\ Cuts(g) \subseteq 0 .. Len(g) + 1
  BY CutsAre
<1>2. CutsTo(g, Len(g) + 1) = Cuts(g)
  BY <1>1 DEF CutsTo
<1>3. \A ab \in Neighbours(g) : ab[2] <= Len(g) + 1
  BY <1>1 DEF Neighbours
<1> QED BY <1>2, <1>3 DEF PathMatches, Laid

-----------------------------------------------------------------------------
(* Laying characters over characters, one at a time.                       *)
LEMMA OverAtStart ==
    ASSUME NEW g, NEW a \in Nat, NEW p \in Seq(Characters), NEW b \in Nat, NEW y \in Nat, b <= Len(p)
    PROVE  Over(g, a, a, p, b, y) <=> y = b
<1>1. Len(p) \in Nat
  BY LenProperties
<1>2. ASSUME y = b PROVE Over(g, a, a, p, b, y)
  <2> DEFINE h == [i \in a .. a |-> b]
  <2>1. h \in [a .. a -> b .. Len(p)] /\ h[a] = b
    BY <1>1
  <2>2. a + 1 .. a = {}
    OBVIOUS
  <2> HIDE DEF h
  <2> QED BY <1>2, <2>1, <2>2 DEF Over
<1> QED BY <1>2 DEF Over

OneMore(g, x, p, y, z) ==
    IF g[x + 1] = "*" THEN y <= z ELSE z = y + 1 /\ g[x + 1] \in {"?", p[z]}

LEMMA OverNext ==
    ASSUME NEW g, NEW a \in Nat, NEW x \in Nat, a <= x, NEW p \in Seq(Characters),
           NEW b \in Nat, NEW z \in Nat
    PROVE  Over(g, a, x + 1, p, b, z) <=>
             z \in b .. Len(p) /\ \E y \in b .. Len(p) : Over(g, a, x, p, b, y) /\ OneMore(g, x, p, y, z)
<1> DEFINE Step(h, i) == IF g[i] = "*" THEN h[i - 1] <= h[i]
                         ELSE h[i] = h[i - 1] + 1 /\ g[i] \in {"?", p[h[i]]}
<1>1. /\ Len(p) \in Nat /\ x \in a .. x /\ x + 1 \in a .. x + 1 /\ x + 1 \in a + 1 .. x + 1
      /\ a \in a .. x /\ a \in a .. x + 1
      /\ x + 1 - 1 = x /\ a .. x + 1 = (a .. x) \union {x + 1} /\ x + 1 \notin a .. x
      /\ \A i \in a + 1 .. x : i \in a .. x /\ i - 1 \in a .. x /\ i \in a + 1 .. x + 1
      /\ \A i \in a + 1 .. x + 1 : i \in a + 1 .. x \/ i = x + 1
  BY LenProperties
<1>2. ASSUME Over(g, a, x + 1, p, b, z)
      PROVE  z \in b .. Len(p) /\ \E y \in b .. Len(p) : Over(g, a, x, p, b, y) /\ OneMore(g, x, p, y, z)
  <2>1. PICK h \in [a .. x + 1 -> b .. Len(p)] :
           h[a] = b /\ h[x + 1] = z /\ \A i \in a + 1 .. x + 1 : Step(h, i)
    BY <1>2 DEF Over
  <2> DEFINE k == [i \in a .. x |-> h[i]]
  <2>2. k \in [a .. x -> b .. Len(p)] /\ \A i \in a .. x : k[i] = h[i]
    BY <1>1, <2>1
  <2> HIDE DEF k
  <2>3. ASSUME NEW i \in a + 1 .. x PROVE Step(k, i)
    <3>1. Step(h, i) /\ k[i] = h[i] /\ k[i - 1] = h[i - 1]
      BY <1>1, <2>1, <2>2
    <3> QED BY <3>1
  <2>4. Over(g, a, x, p, b, h[x])
    BY <1>1, <2>1, <2>2, <2>3 DEF Over
  <2>5. OneMore(g, x, p, h[x], z)
    <3>1. Step(h, x + 1)
      BY <1>1, <2>1
    <3> QED BY <1>1, <2>1, <3>1 DEF OneMore
  <2> QED BY <1>1, <2>1, <2>4, <2>5
<1>3. ASSUME z \in b .. Len(p), NEW y \in b .. Len(p), Over(g, a, x, p, b, y), OneMore(g, x, p, y, z)
      PROVE  Over(g, a, x + 1, p, b, z)
  <2>1. PICK h \in [a .. x -> b .. Len(p)] : h[a] = b /\ h[x] = y /\ \A i \in a + 1 .. x : Step(h, i)
    BY <1>3 DEF Over
  <2> DEFINE k == [i \in a .. x + 1 |-> IF i = x + 1 THEN z ELSE h[i]]
  <2>2. /\ k \in [a .. x + 1 -> b .. Len(p)] /\ k[x + 1] = z
        /\ \A i \in a .. x : k[i] = h[i]
    BY <1>1, <1>3, <2>1
  <2> HIDE DEF k
  <2>3. ASSUME NEW i \in a + 1 .. x + 1 PROVE Step(k, i)
    <3>1. CASE i \in a + 1 .. x
      <4>1. Step(h, i) /\ k[i] = h[i] /\ k[i - 1] = h[i - 1]
        BY <1>1, <2>1, <2>2, <3>1
      <4> QED BY <4>1
    <3>2. CASE i = x + 1
      <4>1. k[i] = z /\ k[i - 1] = y
        BY <1>1, <2>1, <2>2, <3>2
      <4> QED BY <1>3, <3>2, <4>1 DEF OneMore
    <3> QED BY <1>1, <3>1, <3>2
  <2> QED BY <1>1, <2>1, <2>2, <2>3 DEF Over
<1> QED BY <1>2, <1>3

LEMMA SegmentIsOver ==
    ASSUME NEW g, NEW p, NEW a \in Nat, NEW x \in Nat, NEW b \in Nat, NEW y \in Nat
    PROVE  SegmentMatches(g, a, x + 1, p, b, y + 1) <=> Over(g, a, x, p, b, y)
<1>1. x + 1 - 1 = x /\ y + 1 - 1 = y
  OBVIOUS
<1> QED BY <1>1 DEF SegmentMatches, Over

-----------------------------------------------------------------------------
(* What an item adds.                                                      *)
LEMMA MatchesAtCut ==
    ASSUME NEW g \in Seq(Characters), NEW p \in Seq(Characters),
           NEW x \in 0 .. Len(g), NEW y \in 0 .. Len(p), x \in Cuts(g)
    PROVE  Matches(g, x, p, y) <=> y \in Cuts(p) /\ Laid(g, x, p, y)
<1>1. Len(g) \in Nat /\ Len(p) \in Nat /\ x \in Nat /\ y \in Nat
  BY LenProperties
<1>2. \A a \in Nat : Begins(g, a, x) <=> a = x
  BY CutsAre DEF Begins
<1>3. \A b \in Nat : Begins(p, b, y) => b <= Len(p)
  BY <1>1 DEF Begins
<1>4. \A b \in Nat : b <= Len(p) => (Over(g, x, x, p, b, y) <=> y = b)
  BY <1>1, OverAtStart
<1>5. Begins(p, y, y) <=> y \in Cuts(p)
  BY CutsAre DEF Begins
<1> QED BY <1>1, <1>2, <1>3, <1>4, <1>5 DEF Matches

LEMMA EndOfSegment ==
    ASSUME NEW g \in Seq(Characters), NEW p \in Seq(Characters),
           NEW x \in 0 .. Len(g), NEW y \in 0 .. Len(p), x + 1 \in Cuts(g), y + 1 \in Cuts(p),
           \A a \in Nat : Begins(g, a, x) => ~IsDeep(g, a, x + 1)
    PROVE  Laid(g, x + 1, p, y + 1) <=> Matches(g, x, p, y)
<1>1. Len(g) \in Nat /\ Len(p) \in Nat /\ x \in Nat /\ y \in Nat /\ Cuts(g) \subseteq Nat /\ Cuts(p) \subseteq Nat
  BY CutsAre
<1>2. ASSUME NEW a \in Nat, NEW b \in Nat, Begins(g, a, x)
      PROVE  Takes(g, a, x + 1, p, b, y + 1) <=> Begins(p, b, y) /\ Over(g, a, x, p, b, y)
  <2>1. <<b, y + 1>> \in Neighbours(p) <=> Begins(p, b, y)
    BY BeginsNext
  <2>2. SegmentMatches(g, a, x + 1, p, b, y + 1) <=> Over(g, a, x, p, b, y)
    BY <1>1, SegmentIsOver
  <2>3. ~IsDeep(g, a, x + 1)
    BY <1>2
  <2> QED BY <2>1, <2>2, <2>3 DEF Takes
<1>3. ASSUME NEW a \in Nat, Begins(g, a, x)
      PROVE  Laid(g, x + 1, p, y + 1) <=>
               \E b \in Nat : Laid(g, a, p, b) /\ Begins(p, b, y) /\ Over(g, a, x, p, b, y)
  <2>1. <<a, x + 1>> \in Neighbours(g)
    BY <1>3, BeginsNext
  <2>2. Laid(g, x + 1, p, y + 1) <=> \E b \in Cuts(p) : Laid(g, a, p, b) /\ Takes(g, a, x + 1, p, b, y + 1)
    BY <2>1, LaidNext
  <2>3. \A b \in Nat : Begins(p, b, y) => b \in Cuts(p)
    BY DEF Begins
  <2> QED BY <1>1, <1>2, <1>3, <2>2, <2>3
<1>4. PICK a \in Nat : Begins(g, a, x)
  BY <1>1, SegmentBegins
<1>5. ASSUME Laid(g, x + 1, p, y + 1) PROVE Matches(g, x, p, y)
  BY <1>3, <1>4, <1>5 DEF Matches
<1>6. ASSUME Matches(g, x, p, y) PROVE Laid(g, x + 1, p, y + 1)
  BY <1>3, <1>6 DEF Matches
<1> QED BY <1>5, <1>6

LEMMA WithinSegment ==
    ASSUME NEW g \in Seq(Characters), NEW p \in Seq(Characters),
           NEW x \in 0 .. Len(g) - 1, g[x + 1] # "/", NEW z \in 0 .. Len(p)
    PROVE  Matches(g, x + 1, p, z) <=>
             \E y \in 0 .. z : /\ Matches(g, x, p, y) /\ OneMore(g, x, p, y, z)
                               /\ \A l \in y + 1 .. z : p[l] # "/"
<1>1. /\ Len(g) \in Nat /\ Len(p) \in Nat /\ x \in Nat /\ x + 1 \in 1 .. Len(g) /\ z \in Nat
      /\ x + 1 \notin Cuts(g) /\ x \in 0 .. Len(g)
  BY CutsAre
<1>2. \A a \in Nat : Begins(g, a, x) <=> Begins(g, a, x + 1)
  BY <1>1, BeginsNext
<1>3. \A a \in Nat : Begins(g, a, x) => a <= x
  BY DEF Begins
<1>4. ASSUME NEW a \in Nat, NEW b \in Nat, a <= x
      PROVE  Over(g, a, x + 1, p, b, z) <=>
               z \in b .. Len(p) /\ \E y \in b .. Len(p) : Over(g, a, x, p, b, y) /\ OneMore(g, x, p, y, z)
  BY <1>1, <1>4, OverNext
<1>5. ASSUME NEW y \in 0 .. Len(p), OneMore(g, x, p, y, z) PROVE y <= z
  BY <1>1, <1>5 DEF OneMore
<1>6. ASSUME Matches(g, x + 1, p, z)
      PROVE  \E y \in 0 .. z : /\ Matches(g, x, p, y) /\ OneMore(g, x, p, y, z)
                               /\ \A l \in y + 1 .. z : p[l] # "/"
  <2>1. PICK a, b \in Nat : /\ Begins(g, a, x + 1) /\ Begins(p, b, z) /\ Laid(g, a, p, b)
                            /\ Over(g, a, x + 1, p, b, z)
    BY <1>6 DEF Matches
  <2>2. PICK y \in b .. Len(p) : Over(g, a, x, p, b, y) /\ OneMore(g, x, p, y, z)
    BY <1>2, <1>3, <1>4, <2>1
  <2>3. y \in 0 .. Len(p) /\ y <= z /\ b <= y /\ y \in 0 .. z /\ z \in y .. Len(p)
    <3>1. y \in 0 .. Len(p)
      BY <1>1
    <3> QED BY <1>1, <1>5, <2>2, <3>1
  <2>4. Begins(p, b, y) /\ \A l \in y + 1 .. z : p[l] # "/"
    BY <2>1, <2>3, BeginsStays
  <2>5. Matches(g, x, p, y)
    BY <1>2, <2>1, <2>2, <2>4 DEF Matches
  <2> QED BY <2>2, <2>3, <2>4, <2>5
<1>7. ASSUME NEW y \in 0 .. z, Matches(g, x, p, y), OneMore(g, x, p, y, z), \A l \in y + 1 .. z : p[l] # "/"
      PROVE  Matches(g, x + 1, p, z)
  <2>1. PICK a, b \in Nat : /\ Begins(g, a, x) /\ Begins(p, b, y) /\ Laid(g, a, p, b)
                            /\ Over(g, a, x, p, b, y)
    BY <1>7 DEF Matches
  <2>2. b <= y
    BY <2>1 DEF Begins
  <2>3. y \in 0 .. Len(p) /\ y \in b .. Len(p) /\ z \in b .. Len(p) /\ z \in y .. Len(p)
    BY <1>1, <2>2
  <2>4. Begins(p, b, z)
    BY <1>7, <2>1, <2>2, <2>3, BeginsStays
  <2>5. Over(g, a, x + 1, p, b, z)
    BY <1>3, <1>4, <1>7, <2>1, <2>3
  <2> QED BY <1>2, <2>1, <2>4, <2>5 DEF Matches
<1> QED BY <1>6, <1>7

LEMMA SlashStep ==
    ASSUME NEW g \in Seq(Characters), NEW p \in Seq(Characters),
           NEW x \in 0 .. Len(g) - 1, g[x + 1] = "/", Boundary(g, x), NEW z \in 0 .. Len(p)
    PROVE  Matches(g, x + 1, p, z) <=>
             \E y \in 0 .. Len(p) : Matches(g, x, p, y) /\ z = y + 1 /\ p[z] = "/"
<1>1. /\ Len(g) \in Nat /\ Len(p) \in Nat /\ x \in Nat /\ z \in Nat
      /\ x \in 0 .. Len(g) /\ x + 1 \in 1 .. Len(g) /\ x + 1 \in 0 .. Len(g) /\ x + 1 \in Cuts(g)
      /\ Cuts(p) \subseteq Nat /\ \A i \in 1 .. Len(p) : i \in Cuts(p) <=> p[i] = "/"
  BY CutsAre
<1>2. Matches(g, x + 1, p, z) <=> z \in Cuts(p) /\ Laid(g, x + 1, p, z)
  BY <1>1, MatchesAtCut
<1>3. \A a \in Nat : ~IsDeep(g, a, x + 1)
  BY <1>1 DEF IsDeep, Boundary, Is
<1>4. ASSUME NEW y \in 0 .. Len(p), y + 1 \in Cuts(p)
      PROVE  Laid(g, x + 1, p, y + 1) <=> Matches(g, x, p, y)
  BY <1>1, <1>3, <1>4, EndOfSegment
<1>5. ASSUME Laid(g, x + 1, p, z) PROVE z # 0
  <2>1. PICK a \in Nat : Begins(g, a, x)
    BY <1>1, SegmentBegins
  <2>2. <<a, x + 1>> \in Neighbours(g)
    BY <1>1, <2>1, BeginsNext
  <2>3. PICK b \in Cuts(p) : Takes(g, a, x + 1, p, b, z)
    BY <1>5, <2>2, LaidNext
  <2>4. <<b, z>> \in Neighbours(p)
    BY <1>3, <2>3 DEF Takes
  <2> QED BY <1>1, <2>4, NeighboursAre
<1>6. ASSUME Matches(g, x + 1, p, z)
      PROVE  \E y \in 0 .. Len(p) : Matches(g, x, p, y) /\ z = y + 1 /\ p[z] = "/"
  <2>1. z \in Cuts(p) /\ Laid(g, x + 1, p, z) /\ z # 0
    BY <1>2, <1>5, <1>6
  <2>2. z - 1 \in 0 .. Len(p) /\ z - 1 + 1 = z /\ z \in 1 .. Len(p)
    BY <1>1, <2>1
  <2>3. Matches(g, x, p, z - 1)
    BY <1>4, <2>1, <2>2
  <2> QED BY <1>1, <2>1, <2>2, <2>3
<1>7. ASSUME NEW y \in 0 .. Len(p), Matches(g, x, p, y), z = y + 1, p[z] = "/"
      PROVE  Matches(g, x + 1, p, z)
  <2>1. z \in 1 .. Len(p) /\ y + 1 \in Cuts(p)
    BY <1>1, <1>7
  <2> QED BY <1>2, <1>4, <1>7, <2>1
<1> QED BY <1>6, <1>7

LEMMA DeepStep ==
    ASSUME NEW g \in Seq(Characters), NEW p \in Seq(Characters),
           NEW x \in 0 .. Len(g) - 2, x \in Cuts(g), x + 3 \in Cuts(g),
           g[x + 1] = "*", g[x + 2] = "*", NEW z \in Nat
    PROVE  Laid(g, x + 3, p, z) <=>
             z \in Cuts(p) /\ \E b \in Cuts(p) : Laid(g, x, p, b) /\ b <= z /\ (x + 2 = Len(g) => b < z)
<1>1. /\ Len(g) \in Nat /\ Cuts(g) \subseteq 0 .. Len(g) + 1 /\ x \in Nat
      /\ x + 1 \in 1 .. Len(g) /\ x + 2 \in 1 .. Len(g)
      /\ x + 1 \notin Cuts(g) /\ x + 2 \notin Cuts(g)
  BY CutsAre
<1>2. <<x, x + 3>> \in Neighbours(g)
  <2>1. \A c \in Cuts(g) : c <= x \/ x + 3 <= c
    BY <1>1
  <2> QED BY <1>1, <2>1, NeighboursAre
<1>3. x + 1 + 1 = x + 2 /\ (x + 3 = Len(g) + 1 <=> x + 2 = Len(g))
  BY <1>1
<1>4. \A b : Takes(g, x, x + 3, p, b, z) <=> b <= z /\ (x + 2 = Len(g) => b < z)
  BY <1>3 DEF Takes, IsDeep
<1> QED BY <1>2, <1>4, LaidNext

(* In a glob whose "**" are segments of their own the next item ends where *)
(* another may begin, and adds to what can be reached what it spans.       *)
Spanned(g, x, p, it) == {z \in 0 .. Len(p) : \E y \in Reach(g, x, p) : Spans(it, p, y, z)}

LEMMA DeepIsBetweenCuts ==
    ASSUME NEW g \in Seq(Characters), WholeSegments(g), NEW x \in 0 .. Len(g) - 2,
           g[x + 1] = "*", g[x + 2] = "*"
    PROVE  x \in Cuts(g) /\ x + 3 \in Cuts(g)
<1>1. Len(g) \in Nat /\ x + 1 \in 1 .. Len(g) - 1 /\ x + 1 + 1 = x + 2 /\ x + 1 - 1 = x /\ x + 1 + 2 = x + 3
  BY LenProperties
<1> QED BY <1>1 DEF WholeSegments

LEMMA ReachBefore ==
    ASSUME NEW g, NEW p, NEW x, x # Len(g)
    PROVE  Reach(g, x, p) = {y \in 0 .. Len(p) : Matches(g, x, p, y)}
BY DEF Reach

LEMMA SegsItem ==
    ASSUME NEW g \in Seq(Characters), NEW p \in Seq(Characters), WholeSegments(g),
           NEW x \in 0 .. Len(g) - 1, Is(g, x + 1, "*"), Is(g, x + 2, "*"), Is(g, x + 3, "/")
    PROVE  x + 3 <= Len(g) /\ Boundary(g, x + 3) /\ Reach(g, x + 3, p) = Spanned(g, x, p, "segs")
<1>1. /\ Len(g) \in Nat /\ Len(p) \in Nat /\ x \in Nat /\ x \in 0 .. Len(g) /\ x + 3 \in 0 .. Len(g)
      /\ g[x + 1] = "*" /\ g[x + 2] = "*" /\ g[x + 3] = "/" /\ x # Len(g) /\ x + 2 # Len(g)
      /\ x \in 0 .. Len(g) - 2
      /\ Cuts(p) \subseteq Nat /\ \A i \in 1 .. Len(p) : i \in Cuts(p) <=> p[i] = "/"
  BY CutsAre DEF Is
<1>2. x \in Cuts(g) /\ x + 3 \in Cuts(g)
  BY <1>1, DeepIsBetweenCuts
<1>3. Boundary(g, x + 3)
  BY <1>1 DEF Boundary, Is
<1>4. Reach(g, x + 3, p) = {z \in 0 .. Len(p) : Matches(g, x + 3, p, z)}
  BY <1>1 DEF Reach, EndsDeep
<1>5. Reach(g, x, p) = {y \in 0 .. Len(p) : Matches(g, x, p, y)}
  BY <1>1, ReachBefore
<1>6. ASSUME NEW z \in 0 .. Len(p)
      PROVE  Matches(g, x + 3, p, z) <=> \E y \in 0 .. Len(p) : Matches(g, x, p, y) /\ Spans("segs", p, y, z)
  <2>1. Matches(g, x + 3, p, z) <=> z \in Cuts(p) /\ Laid(g, x + 3, p, z)
    BY <1>1, <1>2, MatchesAtCut
  <2>2. Laid(g, x + 3, p, z) <=> z \in Cuts(p) /\ \E b \in Cuts(p) : Laid(g, x, p, b) /\ b <= z
    BY <1>1, <1>2, DeepStep
  <2>3. \A y \in 0 .. Len(p) : Matches(g, x, p, y) <=> y \in Cuts(p) /\ Laid(g, x, p, y)
    BY <1>1, <1>2, MatchesAtCut
  <2>4. \A y \in 0 .. Len(p) : Spans("segs", p, y, z) <=> y = z \/ (y < z /\ p[z] = "/")
    BY DEF Spans
  <2>5. ASSUME NEW b \in Cuts(p), Laid(g, x, p, b), b <= z, z \in Cuts(p)
        PROVE  \E y \in 0 .. Len(p) : Matches(g, x, p, y) /\ Spans("segs", p, y, z)
    <3>1. b \in 0 .. Len(p) /\ (b < z => z \in 1 .. Len(p))
      BY <1>1, <2>5
    <3>2. b = z \/ (b < z /\ p[z] = "/")
      BY <1>1, <2>5, <3>1
    <3> QED BY <2>3, <2>4, <2>5, <3>1, <3>2
  <2>6. ASSUME NEW y \in 0 .. Len(p), y \in Cuts(p), Laid(g, x, p, y), y = z \/ (y < z /\ p[z] = "/")
        PROVE  z \in Cuts(p) /\ y <= z
    <3>1. CASE y = z
      BY <1>1, <2>6, <3>1
    <3>2. CASE y < z /\ p[z] = "/"
      BY <1>1, <2>6, <3>2
    <3> QED BY <2>6, <3>1, <3>2
  <2> QED BY <2>1, <2>2, <2>3, <2>4, <2>5, <2>6
<1> QED BY <1>1, <1>3, <1>4, <1>5, <1>6 DEF Spanned

LEMMA AllItem ==
    ASSUME NEW g \in Seq(Characters), NEW p \in Seq(Characters), WholeSegments(g),
           NEW x \in 0 .. Len(g) - 1, Is(g, x + 1, "*"), Is(g, x + 2, "*"), ~Is(g, x + 3, "/")
    PROVE  x + 2 = Len(g) /\ Boundary(g, x + 2) /\ Reach(g, x + 2, p) = Spanned(g, x, p, "all")
<1>1. /\ Len(g) \in Nat /\ Len(p) \in Nat /\ x \in Nat /\ x \in 0 .. Len(g)
      /\ g[x + 1] = "*" /\ g[x + 2] = "*" /\ x # Len(g)
      /\ x \in 0 .. Len(g) - 2
      /\ Cuts(g) \subseteq Nat /\ Cuts(p) \subseteq Nat
      /\ \A i \in 1 .. Len(g) : i \in Cuts(g) <=> g[i] = "/"
  BY CutsAre DEF Is
<1>2. x \in Cuts(g) /\ x + 3 \in Cuts(g)
  BY <1>1, DeepIsBetweenCuts
<1>3. x + 2 = Len(g)
  <2>1. ~(x + 3 \in 1 .. Len(g))
    BY <1>1, <1>2 DEF Is
  <2> QED BY <1>1, <2>1
<1>4. Boundary(g, x + 2)
  BY <1>1, <1>3 DEF Boundary, Is
<1>5. Reach(g, x + 2, p) = {z \in 0 .. Len(p) : \E b \in 0 .. z : Laid(g, x, p, b)}
  <2>1. EndsDeep(g) /\ Len(g) - 2 = x
    <3>1. Len(g) - 1 = x + 1 /\ Len(g) >= 2 /\ Len(g) - 2 = x
      BY <1>1, <1>3
    <3> QED BY <1>1, <1>3, <3>1 DEF EndsDeep
  <2> QED BY <1>3, <2>1 DEF Reach
<1>6. Reach(g, x, p) = {y \in 0 .. Len(p) : Matches(g, x, p, y)}
  BY <1>1, ReachBefore
<1>7. ASSUME NEW z \in 0 .. Len(p)
      PROVE  (\E b \in 0 .. z : Laid(g, x, p, b)) <=>
                \E y \in 0 .. Len(p) : Matches(g, x, p, y) /\ Spans("all", p, y, z)
  <2>1. \A y \in 0 .. Len(p) : Matches(g, x, p, y) <=> y \in Cuts(p) /\ Laid(g, x, p, y)
    BY <1>1, <1>2, MatchesAtCut
  <2>2. \A y \in 0 .. Len(p) : Laid(g, x, p, y) => y \in Cuts(p)
    BY <1>2, LaidIsCut
  <2>3. \A y : Spans("all", p, y, z) <=> y <= z
    BY DEF Spans
  <2>4. \A y : y \in 0 .. z <=> y \in 0 .. Len(p) /\ y <= z
    BY <1>1
  <2> QED BY <2>1, <2>2, <2>3, <2>4
<1> QED BY <1>3, <1>4, <1>5, <1>6, <1>7 DEF Spanned

(* The items for one character.                                            *)
LEMMA OneBoundary ==
    ASSUME NEW g \in Seq(Characters), NEW p, NEW x \in 0 .. Len(g) - 1, Boundary(g, x),
           ~(Is(g, x + 1, "*") /\ Is(g, x + 2, "*"))
    PROVE  /\ x + 1 <= Len(g) /\ Boundary(g, x + 1)
           /\ Reach(g, x + 1, p) = {z \in 0 .. Len(p) : Matches(g, x + 1, p, z)}
<1>1. Len(g) \in Nat /\ x \in Nat /\ x + 1 <= Len(g) /\ x + 1 + 1 = x + 2 /\ x + 1 - 1 = x
  BY LenProperties
<1>2. Boundary(g, x + 1)
  BY <1>1 DEF Boundary, Is
<1>3. ~(x + 1 = Len(g) /\ EndsDeep(g))
  <2> SUFFICES ASSUME x + 1 = Len(g), EndsDeep(g) PROVE FALSE
    OBVIOUS
  <2>1. x = Len(g) - 1 /\ x >= 1 /\ g[x] = "*" /\ g[x + 1] = "*"
    BY <1>1 DEF EndsDeep
  <2> QED BY <1>1, <2>1 DEF Boundary, Is
<1>4. Reach(g, x + 1, p) = {z \in 0 .. Len(p) : Matches(g, x + 1, p, z)}
  BY <1>3 DEF Reach
<1> QED BY <1>1, <1>2, <1>4

LEMMA SlashItem ==
    ASSUME NEW g \in Seq(Characters), NEW p \in Seq(Characters),
           NEW x \in 0 .. Len(g) - 1, Boundary(g, x), g[x + 1] = "/"
    PROVE  Reach(g, x + 1, p) = Spanned(g, x, p, "/")
<1>1. Len(g) \in Nat /\ Len(p) \in Nat /\ x \in Nat /\ x # Len(g)
  BY LenProperties
<1>2. Reach(g, x + 1, p) = {z \in 0 .. Len(p) : Matches(g, x + 1, p, z)}
  BY OneBoundary DEF Is
<1>3. Reach(g, x, p) = {y \in 0 .. Len(p) : Matches(g, x, p, y)}
  BY <1>1, ReachBefore
<1>4. \A y, z : Spans("/", p, y, z) <=> z = y + 1 /\ p[z] = "/"
  BY DEF Spans
<1>5. \A z \in 0 .. Len(p) : Matches(g, x + 1, p, z) <=>
         \E y \in 0 .. Len(p) : Matches(g, x, p, y) /\ z = y + 1 /\ p[z] = "/"
  BY SlashStep
<1> QED BY <1>2, <1>3, <1>4, <1>5 DEF Spanned

LEMMA CharacterItem ==
    ASSUME NEW g \in Seq(Characters), NEW p \in Seq(Characters), NEW it,
           NEW x \in 0 .. Len(g) - 1, Boundary(g, x), g[x + 1] # "/",
           ~(Is(g, x + 1, "*") /\ Is(g, x + 2, "*")),
           it = IF g[x + 1] = "*" THEN "some" ELSE IF g[x + 1] = "?" THEN "one" ELSE g[x + 1]
    PROVE  Reach(g, x + 1, p) = Spanned(g, x, p, it)
<1>1. /\ Len(g) \in Nat /\ Len(p) \in Nat /\ x \in Nat /\ x # Len(g) /\ x + 1 \in 1 .. Len(g)
      /\ g[x + 1] \in Characters
  BY CutsAre, ElementOfSeq
<1>2. Reach(g, x + 1, p) = {z \in 0 .. Len(p) : Matches(g, x + 1, p, z)}
  BY OneBoundary
<1>3. Reach(g, x, p) = {y \in 0 .. Len(p) : Matches(g, x, p, y)}
  BY <1>1, ReachBefore
<1>4. ASSUME NEW z \in 0 .. Len(p), NEW y \in 0 .. Len(p)
      PROVE  Spans(it, p, y, z) <=>
               /\ y \in 0 .. z /\ OneMore(g, x, p, y, z)
               /\ \A l \in y + 1 .. z : p[l] # "/"
  <2>1. CASE g[x + 1] = "*"
    <3>1. Spans(it, p, y, z) <=> y <= z /\ \A l \in y + 1 .. z : p[l] # "/"
      BY <1>1, <2>1 DEF Spans
    <3> QED BY <1>1, <2>1, <3>1 DEF OneMore
  <2>2. CASE g[x + 1] = "?"
    <3>1. Spans(it, p, y, z) <=> z = y + 1 /\ p[z] # "/"
      BY <1>1, <2>2 DEF Spans
    <3>2. OneMore(g, x, p, y, z) <=> z = y + 1
      BY <2>2 DEF OneMore
    <3>3. z = y + 1 => y \in 0 .. z /\ \A l : l \in y + 1 .. z <=> l = z
      OBVIOUS
    <3> QED BY <3>1, <3>2, <3>3
  <2>3. CASE g[x + 1] # "*" /\ g[x + 1] # "?"
    <3>1. it = g[x + 1] /\ it \notin Items
      BY <1>1, <2>3, GlobsAssumption
    <3>2. Spans(it, p, y, z) <=> z = y + 1 /\ p[z] = it
      BY <3>1 DEF Spans, Items
    <3>3. OneMore(g, x, p, y, z) <=> z = y + 1 /\ p[z] = it
      BY <2>3, <3>1 DEF OneMore
    <3>4. z = y + 1 => y \in 0 .. z /\ \A l : l \in y + 1 .. z <=> l = z
      OBVIOUS
    <3> QED BY <3>1, <3>2, <3>3, <3>4
  <2> QED BY <2>1, <2>2, <2>3
<1>5. \A z \in 0 .. Len(p) : Matches(g, x + 1, p, z) <=>
         \E y \in 0 .. z : /\ Matches(g, x, p, y) /\ OneMore(g, x, p, y, z)
                           /\ \A l \in y + 1 .. z : p[l] # "/"
  BY WithinSegment
<1>6. \A z \in 0 .. Len(p) : \A y \in 0 .. z : y \in 0 .. Len(p)
  BY <1>1
<1> QED BY <1>2, <1>3, <1>4, <1>5, <1>6 DEF Spanned

LEMMA ReachNext ==
    ASSUME NEW g \in Seq(Characters), NEW p \in Seq(Characters), WholeSegments(g),
           NEW x \in 0 .. Len(g) - 1, Boundary(g, x)
    PROVE  /\ x + ItemAt(g, x + 1).takes \in x + 1 .. Len(g)
           /\ Boundary(g, x + ItemAt(g, x + 1).takes)
           /\ Reach(g, x + ItemAt(g, x + 1).takes, p) = Spanned(g, x, p, ItemAt(g, x + 1).re)
<1>1. /\ Len(g) \in Nat /\ x \in Nat /\ x + 1 \in 1 .. Len(g) /\ x + 1 + 1 = x + 2 /\ x + 1 + 2 = x + 3
      /\ (Is(g, x + 1, "*") <=> g[x + 1] = "*") /\ (Is(g, x + 1, "/") <=> g[x + 1] = "/")
  BY LenProperties DEF Is
<1>2. CASE Is(g, x + 1, "*") /\ Is(g, x + 2, "*") /\ Is(g, x + 3, "/")
  <2>1. ItemAt(g, x + 1).takes = 3 /\ ItemAt(g, x + 1).re = "segs"
    BY <1>1, <1>2 DEF ItemAt
  <2>2. x + 3 <= Len(g) /\ Boundary(g, x + 3) /\ Reach(g, x + 3, p) = Spanned(g, x, p, "segs")
    BY <1>2, SegsItem
  <2> QED BY <1>1, <2>1, <2>2
<1>3. CASE Is(g, x + 1, "*") /\ Is(g, x + 2, "*") /\ ~Is(g, x + 3, "/")
  <2>1. ItemAt(g, x + 1).takes = 2 /\ ItemAt(g, x + 1).re = "all"
    BY <1>1, <1>3 DEF ItemAt
  <2>2. x + 2 = Len(g) /\ Boundary(g, x + 2) /\ Reach(g, x + 2, p) = Spanned(g, x, p, "all")
    BY <1>3, AllItem
  <2> QED BY <1>1, <2>1, <2>2
<1>4. CASE ~(Is(g, x + 1, "*") /\ Is(g, x + 2, "*"))
  <2>1. /\ ItemAt(g, x + 1).takes = 1
        /\ ItemAt(g, x + 1).re = IF g[x + 1] = "*" THEN "some" ELSE IF g[x + 1] = "?" THEN "one" ELSE g[x + 1]
    BY <1>1, <1>4 DEF ItemAt
  <2>2. x + 1 <= Len(g) /\ Boundary(g, x + 1)
    BY <1>4, OneBoundary
  <2>3. Reach(g, x + 1, p) = Spanned(g, x, p, ItemAt(g, x + 1).re)
    <3>1. CASE g[x + 1] = "/"
      BY <2>1, <3>1, SlashItem
    <3>2. CASE g[x + 1] # "/"
      BY <1>4, <2>1, <3>2, CharacterItem
    <3> QED BY <3>1, <3>2
  <2> QED BY <1>1, <2>1, <2>2, <2>3
<1> QED BY <1>2, <1>3, <1>4

(* All items matched the whole path.                                       *)
LEMMA WildVerdict ==
    ASSUME NEW g \in Seq(Characters), NEW p \in Seq(Characters), WholeSegments(g), g # <<>>,
           p # <<>>, p[Len(p)] # "/"
    PROVE  Len(p) \in Reach(g, Len(g), p) <=> g[Len(g)] # "/" /\ PathMatches(g, p)
<1>1. /\ Len(g) \in Nat /\ Len(p) \in Nat /\ Len(g) # 0 /\ Len(p) # 0
      /\ Len(g) \in 1 .. Len(g) /\ Len(p) \in 1 .. Len(p) /\ Len(g) \in 0 .. Len(g) /\ Len(p) \in 0 .. Len(p)
      /\ Cuts(g) \subseteq Nat /\ Cuts(p) \subseteq 0 .. Len(p) + 1
      /\ Len(g) + 1 \in Cuts(g) /\ Len(p) + 1 \in Cuts(p) /\ Len(p) \notin Cuts(p)
      /\ (Len(g) \in Cuts(g) <=> g[Len(g)] = "/")
  BY CutsAre, EmptySeq
<1>2. PathMatches(g, p) <=> Laid(g, Len(g) + 1, p, Len(p) + 1)
  BY PathMatchesIsLaid
<1>3. CASE EndsDeep(g)
  <2> DEFINE x == Len(g) - 2
  <2>1. x \in 0 .. Len(g) - 2 /\ g[x + 1] = "*" /\ g[x + 2] = "*" /\ x + 2 = Len(g) /\ x + 3 = Len(g) + 1
    BY <1>1, <1>3 DEF EndsDeep
  <2>2. Len(p) \in Reach(g, Len(g), p) <=> \E b \in 0 .. Len(p) : Laid(g, x, p, b)
    BY <1>1, <1>3 DEF Reach
  <2> HIDE DEF x
  <2>3. x \in Cuts(g) /\ x + 3 \in Cuts(g)
    BY <2>1, DeepIsBetweenCuts
  <2>4. Laid(g, x + 3, p, Len(p) + 1) <=>
           \E b \in Cuts(p) : Laid(g, x, p, b) /\ b <= Len(p) + 1 /\ b < Len(p) + 1
    BY <1>1, <2>1, <2>3, DeepStep
  <2>5. \A b \in 0 .. Len(p) : Laid(g, x, p, b) => b \in Cuts(p)
    BY <2>3, LaidIsCut
  <2>6. \A b \in Cuts(p) : b < Len(p) + 1 <=> b \in 0 .. Len(p)
    BY <1>1
  <2>7. \A b \in 0 .. Len(p) : b <= Len(p) + 1 /\ b < Len(p) + 1
    BY <1>1
  <2> QED BY <1>2, <2>1, <2>2, <2>4, <2>5, <2>6, <2>7
<1>4. CASE ~EndsDeep(g) /\ g[Len(g)] = "/"
  <2>1. ~Matches(g, Len(g), p, Len(p))
    BY <1>1, <1>4, MatchesAtCut
  <2> QED BY <1>4, <2>1 DEF Reach
<1>5. CASE ~EndsDeep(g) /\ g[Len(g)] # "/"
  <2>1. \A a \in Nat : ~IsDeep(g, a, Len(g) + 1)
    <3> SUFFICES ASSUME NEW a \in Nat, IsDeep(g, a, Len(g) + 1) PROVE FALSE
      OBVIOUS
    <3>1. Len(g) >= 2 /\ a + 1 = Len(g) - 1 /\ a + 2 = Len(g)
      BY <1>1 DEF IsDeep
    <3> QED BY <1>5, <3>1 DEF EndsDeep, IsDeep
  <2>2. Laid(g, Len(g) + 1, p, Len(p) + 1) <=> Matches(g, Len(g), p, Len(p))
    BY <1>1, <2>1, EndOfSegment
  <2>3. Len(p) \in Reach(g, Len(g), p) <=> Matches(g, Len(g), p, Len(p))
    BY <1>1, <1>5 DEF Reach
  <2> QED BY <1>2, <1>5, <2>2, <2>3
<1> QED BY <1>3, <1>4, <1>5

-----------------------------------------------------------------------------
(* A glob without a wildcard.                                              *)
LEMMA TrimIs ==
    ASSUME NEW g \in Seq(Characters)
    PROVE  TrimSlash(g) \in Seq(Characters)
<1>1. CASE g # <<>> /\ g[Len(g)] = "/"
  <2>1. Len(g) \in Nat /\ Len(g) # 0 /\ Len(g) - 1 \in 0 .. Len(g)
    BY <1>1, LenProperties, EmptySeq
  <2>2. \A i \in 1 .. Len(g) - 1 : g[i] \in Characters
    BY <2>1, ElementOfSeq
  <2> QED BY <1>1, <2>1, <2>2 DEF TrimSlash
<1>2. CASE ~(g # <<>> /\ g[Len(g)] = "/")
  BY <1>2 DEF TrimSlash
<1> QED BY <1>1, <1>2

LEMMA PlainNext ==
    ASSUME NEW s \in Seq(Characters), NEW p \in Seq(Characters), NEW i \in 1 .. Len(s) + 1
    PROVE  PlainReach(s, i + 1, p) =
             {z \in 0 .. Len(p) :
                \E y \in PlainReach(s, i, p) : Spans(Append(s, "beneath")[i], p, y, z)}
<1>1. /\ Len(s) \in Nat /\ Len(p) \in Nat /\ \A l \in 1 .. Len(s) : s[l] \in Characters
      /\ \A l \in 1 .. Len(s) : Append(s, "beneath")[l] = s[l]
      /\ Append(s, "beneath")[Len(s) + 1] = "beneath"
  BY LenProperties, ElementOfSeq
<1>2. CASE i <= Len(s)
  <2>1. Append(s, "beneath")[i] = s[i] /\ s[i] \notin Items
    BY <1>1, <1>2, GlobsAssumption
  <2>2. \A y, z : Spans(s[i], p, y, z) <=> z = y + 1 /\ p[z] = s[i]
    BY <2>1 DEF Spans, Items
  <2>3. \A z : z \in PlainReach(s, i + 1, p) <=> z \in 0 .. Len(p) /\ z = i /\ Prefix(s, p, z)
    BY <1>1, <1>2 DEF PlainReach
  <2>4. \A y : y \in PlainReach(s, i, p) <=> y \in 0 .. Len(p) /\ y = i - 1 /\ Prefix(s, p, y)
    BY <1>1, <1>2 DEF PlainReach
  <2>5. i <= Len(p) => (Prefix(s, p, i) <=> Prefix(s, p, i - 1) /\ p[i] = s[i])
    BY <1>1 DEF Prefix
  <2>6. i - 1 + 1 = i /\ (i \in 0 .. Len(p) <=> i <= Len(p)) /\ (i <= Len(p) => i - 1 \in 0 .. Len(p))
    BY <1>1
  <2>7. \A y : y = i - 1 => y + 1 = i
    BY <2>6
  <2> QED BY <2>1, <2>2, <2>3, <2>4, <2>5, <2>6, <2>7
<1>3. CASE i = Len(s) + 1
  <2>1. Append(s, "beneath")[i] = "beneath"
    BY <1>1, <1>3
  <2>2. \A y, z : Spans("beneath", p, y, z) <=> y = z \/ (y < z /\ p[y + 1] = "/")
    BY DEF Spans
  <2>3. \A z : z \in PlainReach(s, i + 1, p) <=>
                 /\ z \in 0 .. Len(p) /\ Prefix(s, p, Len(s))
                 /\ z = Len(s) \/ (z > Len(s) /\ p[Len(s) + 1] = "/")
    BY <1>1, <1>3 DEF PlainReach
  <2>4. \A y : y \in PlainReach(s, i, p) <=> y \in 0 .. Len(p) /\ y = Len(s) /\ Prefix(s, p, Len(s))
    BY <1>1, <1>3 DEF PlainReach
  <2>5. Prefix(s, p, Len(s)) => Len(s) \in 0 .. Len(p)
    BY <1>1 DEF Prefix
  <2>6. \A z \in 0 .. Len(p) : z > Len(s) <=> Len(s) < z
    BY <1>1
  <2> QED BY <2>1, <2>2, <2>3, <2>4, <2>5, <2>6
<1> QED BY <1>1, <1>2, <1>3

LEMMA PlainVerdict ==
    ASSUME NEW s \in Seq(Characters), NEW p \in Seq(Characters)
    PROVE  Len(p) \in PlainReach(s, Len(s) + 2, p) <=>
             \E c \in Cuts(p) \ {0} : SubSeq(p, 1, c - 1) = s
<1>1. /\ Len(s) \in Nat /\ Len(p) \in Nat /\ DOMAIN s = 1 .. Len(s)
      /\ Cuts(p) \subseteq 0 .. Len(p) + 1 /\ Len(p) + 1 \in Cuts(p)
      /\ \A i \in 1 .. Len(p) : i \in Cuts(p) <=> p[i] = "/"
  BY CutsAre
<1>2. Len(p) \in PlainReach(s, Len(s) + 2, p) <=>
         Prefix(s, p, Len(s)) /\ (Len(p) = Len(s) \/ (Len(p) > Len(s) /\ p[Len(s) + 1] = "/"))
  BY <1>1 DEF PlainReach
<1>3. ASSUME NEW c \in Cuts(p) \ {0}
      PROVE  SubSeq(p, 1, c - 1) = s <=> c = Len(s) + 1 /\ Prefix(s, p, Len(s))
  <2>1. c - 1 \in 0 .. Len(p) /\ c \in Nat
    BY <1>1
  <2>2. /\ SubSeq(p, 1, c - 1) \in Seq(Characters) /\ Len(SubSeq(p, 1, c - 1)) = c - 1
        /\ \A l \in 1 .. c - 1 : SubSeq(p, 1, c - 1)[l] = p[l]
    BY <1>1, <2>1, ElementOfSeq
  <2>3. ASSUME SubSeq(p, 1, c - 1) = s PROVE c = Len(s) + 1 /\ Prefix(s, p, Len(s))
    <3>1. c - 1 = Len(s) /\ \A l \in 1 .. Len(s) : p[l] = s[l]
      BY <2>2, <2>3
    <3> QED BY <1>1, <2>1, <3>1 DEF Prefix
  <2>4. ASSUME c = Len(s) + 1, Prefix(s, p, Len(s)) PROVE SubSeq(p, 1, c - 1) = s
    <3>1. c - 1 = Len(s) /\ \A l \in 1 .. Len(s) : p[l] = s[l]
      BY <1>1, <2>1, <2>4 DEF Prefix
    <3> DEFINE q == SubSeq(p, 1, c - 1)
    <3>2. q \in Seq(Characters) /\ Len(q) = Len(s) /\ \A l \in 1 .. Len(s) : q[l] = s[l]
      BY <2>2, <3>1
    <3> HIDE DEF q
    <3>3. q = s
      BY <3>2
    <3> QED BY <3>3 DEF q
  <2> QED BY <2>3, <2>4
<1>4. Prefix(s, p, Len(s)) =>
        ((Len(p) = Len(s) \/ (Len(p) > Len(s) /\ p[Len(s) + 1] = "/")) <=> Len(s) + 1 \in Cuts(p) \ {0})
  <2> SUFFICES ASSUME Prefix(s, p, Len(s))
               PROVE  (Len(p) = Len(s) \/ (Len(p) > Len(s) /\ p[Len(s) + 1] = "/")) <=> Len(s) + 1 \in Cuts(p) \ {0}
    OBVIOUS
  <2>1. Len(s) <= Len(p)
    BY DEF Prefix
  <2>2. CASE Len(s) = Len(p)
    BY <1>1, <2>2
  <2>3. CASE Len(s) < Len(p)
    <3>1. Len(s) + 1 \in 1 .. Len(p)
      BY <1>1, <2>3
    <3> QED BY <1>1, <2>3, <3>1
  <2> QED BY <1>1, <2>1, <2>2, <2>3
<1> QED BY <1>2, <1>3, <1>4

-----------------------------------------------------------------------------
(* The invariant is kept.                                                  *)
LEMMA ItemIs ==
    ASSUME NEW g \in Seq(Characters), NEW i \in 1 .. Len(g)
    PROVE  /\ ItemAt(g, i).re \in Characters \union Items
           /\ ItemAt(g, i).takes \in 1 .. 3
<1>1. g[i] \in Characters
  BY ElementOfSeq
<1>2. Is(g, i, "*") <=> g[i] = "*"
  BY LenProperties DEF Is
<1> QED BY <1>1 DEF ItemAt, Items

LEMMA WildIsNotEmpty ==
    ASSUME NEW g \in Seq(Characters), Wild(g)
    PROVE  g # <<>>
BY DEF Wild

LEMMA ReachAtStart ==
    ASSUME NEW g \in Seq(Characters), NEW p \in Seq(Characters), g # <<>>
    PROVE  Reach(g, 0, p) = {0}
<1>1. /\ Len(g) \in Nat /\ Len(g) # 0 /\ Len(p) \in Nat
      /\ 0 \in 0 .. Len(g) /\ 0 \in Cuts(g) /\ 0 \in Cuts(p) /\ 0 \in 0 .. Len(p)
  BY CutsAre, EmptySeq
<1>2. Reach(g, 0, p) = {y \in 0 .. Len(p) : Matches(g, 0, p, y)}
  BY <1>1, ReachBefore
<1>3. \A y \in 0 .. Len(p) : Matches(g, 0, p, y) <=> y \in Cuts(p) /\ Laid(g, 0, p, y)
  BY <1>1, MatchesAtCut
<1>4. \A y : Laid(g, 0, p, y) <=> y = 0
  BY LaidAtStart
<1> QED BY <1>1, <1>2, <1>3, <1>4

LEMMA GlobInitOk == GlobsInit => GlobInv
<1> SUFFICES ASSUME GlobsInit PROVE GlobInv
  OBVIOUS
<1>1. <<>> \in Seq(Characters) /\ <<>> \in Seq(Characters \union Items)
  OBVIOUS
<1> QED BY <1>1 DEF GlobsInit, GlobInv, GlobTypes, Matching

LEMMA StartsGlob == ASSUME GlobInv, GlobToRegexp PROVE GlobInv'
<1> DEFINE g == glob'
<1>1. /\ globPc = "idle" /\ g \in GlobSet /\ at' = 1 /\ item' = 1 /\ re = <<>>
      /\ IF Wild(g) THEN globPc' = "write" /\ re' = re
         ELSE globPc' = "ask" /\ re' = IF g = <<>> THEN <<>> ELSE Append(TrimSlash(g), "beneath")
  BY DEF GlobToRegexp, GlobInv, GlobTypes, Matching
<1>2. g \in Seq(Characters)
  BY <1>1, GlobsAssumption
<1>3. re' \in Seq(Characters \union Items)
  <2>1. TrimSlash(g) \in Seq(Characters)
    BY <1>2, TrimIs
  <2>2. Append(TrimSlash(g), "beneath") \in Seq(Characters \union Items)
    BY <2>1 DEF Items
  <2>3. <<>> \in Seq(Characters \union Items)
    OBVIOUS
  <2>4. re' \in {<<>>, Append(TrimSlash(g), "beneath")}
    BY <1>1
  <2> QED BY <2>2, <2>3, <2>4
<1>4. GlobTypes'
  BY <1>1, <1>2, <1>3 DEF GlobTypes, Matching
<1>5. ASSUME g = <<>> PROVE WhileEmpty'
  <2>1. ~Wild(g)
    BY <1>2, <1>5, WildIsNotEmpty
  <2> QED BY <1>1, <1>5, <2>1 DEF WhileEmpty, Matching
<1>6. ASSUME g # <<>>, ~Wild(g) PROVE WhilePlain'
  BY <1>1, <1>6 DEF WhilePlain, Matching
<1>7. ASSUME Wild(g) PROVE WhileWild'
  <2>1. re' = <<>> /\ Len(re') = 0 /\ globPc' = "write"
    BY <1>1, <1>7
  <2>2. Len(g) \in Nat
    BY <1>2, LenProperties
  <2> DEFINE e == [t \in 0 .. 0 |-> 0]
  <2>3. e \in [0 .. Len(re') -> 0 .. Len(g)] /\ e[0] = 0 /\ \A t \in 0 .. 0 : e[t] = 0
    BY <2>1, <2>2
  <2> HIDE DEF e
  <2>4. Boundary(g, 0)
    BY DEF Boundary
  <2>5. Written(g, re', e)
    BY <2>1, <2>3, <2>4 DEF Written
  <2> QED BY <1>1, <2>1, <2>3, <2>5 DEF WhileWild, Matching
<1> QED BY <1>1, <1>4, <1>5, <1>6, <1>7 DEF GlobInv

LEMMA WritesItem == ASSUME GlobInv, WriteItem PROVE GlobInv'
<1>1. /\ globPc = "write" /\ globPc' = "write" /\ glob' = glob /\ item' = item /\ at <= Len(glob)
      /\ re' = Append(re, ItemAt(glob, at).re) /\ at' = at + ItemAt(glob, at).takes
      /\ glob \in Seq(Characters) /\ re \in Seq(Characters \union Items) /\ at \in Nat \ {0} /\ item = 1
  BY DEF WriteItem, GlobInv, GlobTypes, Matching
<1>2. Wild(glob) /\ WholeSegments(glob) => WhileWild
  BY <1>1 DEF GlobInv
<1>3. /\ ~(glob = <<>>) /\ ~(glob # <<>> /\ ~Wild(glob))
  BY <1>1 DEF GlobInv, WhileEmpty, WhilePlain
<1>4. Len(glob) \in Nat /\ Len(re) \in Nat
  BY <1>1, LenProperties
<1>5. at' \in Nat \ {0} /\ re' \in Seq(Characters \union Items)
  <2>1. ItemAt(glob, at).takes \in Nat /\ ItemAt(glob, at).re \in Characters \union Items
    <3>1. at \in 1 .. Len(glob)
      BY <1>1, <1>4
    <3>2. ItemAt(glob, at).takes \in 1 .. 3
      BY <1>1, <3>1, ItemIs
    <3> QED BY <1>1, <3>1, <3>2, ItemIs
  <2> QED BY <1>1, <2>1
<1>6. GlobTypes'
  BY <1>1, <1>5 DEF GlobTypes, Matching
<1>7. ASSUME Wild(glob), WholeSegments(glob) PROVE WhileWild'
  <2>1. PICK e \in [0 .. Len(re) -> 0 .. Len(glob)] : Written(glob, re, e) /\ at = e[Len(re)] + 1
    BY <1>2, <1>7 DEF WhileWild
  <2> DEFINE k == Len(re)
             x == e[k]
             it == ItemAt(glob, at)
             z == x + it.takes
             f == [t \in 0 .. k + 1 |-> IF t = k + 1 THEN z ELSE e[t]]
  <2>2. x \in 0 .. Len(glob) - 1 /\ at = x + 1 /\ Boundary(glob, x)
    <3>1. x \in 0 .. Len(glob) /\ Boundary(glob, x)
      BY <1>4, <2>1 DEF Written
    <3> QED BY <1>1, <1>4, <2>1, <3>1
  <2>3. z \in 0 .. Len(glob) /\ Boundary(glob, z)
    <3>1. x + ItemAt(glob, x + 1).takes \in x + 1 .. Len(glob) /\ Boundary(glob, x + ItemAt(glob, x + 1).takes)
      BY <1>1, <1>7, <2>2, ReachNext
    <3> QED BY <1>4, <2>2, <3>1
  <2>4. /\ Len(re') = k + 1 /\ re'[k + 1] = it.re /\ \A t \in 1 .. k : re'[t] = re[t]
    BY <1>1, <1>4
  <2>5. /\ k \in Nat /\ \A t \in 0 .. k + 1 : t \in 0 .. k \/ t = k + 1
        /\ \A t \in 1 .. k : t \in 0 .. k /\ t - 1 \in 0 .. k
        /\ k + 1 - 1 = k /\ 0 \in 0 .. k /\ k \in 0 .. k /\ k + 1 \notin 0 .. k /\ k + 1 \in 0 .. k + 1
        /\ \A t \in 1 .. k + 1 : t \in 1 .. k \/ t = k + 1
        /\ \A t \in 0 .. k : t \in 0 .. k + 1
    BY <1>4
  <2>6. f \in [0 .. k + 1 -> 0 .. Len(glob)] /\ f[k + 1] = z /\ \A t \in 0 .. k : f[t] = e[t]
    BY <2>1, <2>3, <2>5
  <2>7. at' = z + 1
    <3>1. it.takes \in 1 .. 3
      BY <1>1, <2>2, <1>4, ItemIs
    <3> QED BY <1>1, <1>4, <2>2, <3>1
  <2> HIDE DEF f
  <2>8. Written(glob, re', f)
    <3>1. f[0] = 0
      BY <2>1, <2>5, <2>6 DEF Written
    <3>2. ASSUME NEW t \in 1 .. k + 1
          PROVE  /\ f[t - 1] < Len(glob)
                 /\ re'[t] = ItemAt(glob, f[t - 1] + 1).re
                 /\ f[t] = f[t - 1] + ItemAt(glob, f[t - 1] + 1).takes
      <4>1. CASE t \in 1 .. k
        <5>1. f[t - 1] = e[t - 1] /\ f[t] = e[t] /\ re'[t] = re[t]
          BY <2>4, <2>5, <2>6, <4>1
        <5> QED BY <2>1, <4>1, <5>1 DEF Written
      <4>2. CASE t = k + 1
        <5>1. f[t - 1] = x /\ f[t] = z /\ re'[t] = it.re /\ x < Len(glob)
          BY <1>4, <2>2, <2>4, <2>5, <2>6, <4>2
        <5> QED BY <2>2, <5>1
      <4> QED BY <2>5, <4>1, <4>2
    <3>3. ASSUME NEW t \in 0 .. k + 1 PROVE Boundary(glob, f[t])
      <4>1. CASE t \in 0 .. k
        BY <2>1, <2>6, <4>1 DEF Written
      <4>2. CASE t = k + 1
        BY <2>3, <2>6, <4>2
      <4> QED BY <2>5, <4>1, <4>2
    <3> QED BY <2>4, <2>6, <3>1, <3>2, <3>3 DEF Written
  <2> QED BY <1>1, <2>4, <2>6, <2>7, <2>8 DEF WhileWild, Matching
<1> QED BY <1>1, <1>3, <1>6, <1>7 DEF GlobInv

LEMMA EndsWriting == ASSUME GlobInv, Compiled PROVE GlobInv'
<1>1. /\ globPc = "write" /\ globPc' = "ask" /\ glob' = glob /\ item' = item /\ at > Len(glob)
      /\ re' = re /\ at' = at
      /\ glob \in Seq(Characters) /\ re \in Seq(Characters \union Items) /\ at \in Nat \ {0} /\ item = 1
  BY DEF Compiled, GlobInv, GlobTypes, Matching
<1>2. Wild(glob) /\ WholeSegments(glob) => WhileWild
  BY <1>1 DEF GlobInv
<1>3. ~(glob = <<>>) /\ ~(glob # <<>> /\ ~Wild(glob))
  BY <1>1 DEF GlobInv, WhileEmpty, WhilePlain
<1>4. GlobTypes'
  BY <1>1 DEF GlobTypes, Matching
<1>5. ASSUME Wild(glob), WholeSegments(glob) PROVE WhileWild'
  <2>1. PICK e \in [0 .. Len(re) -> 0 .. Len(glob)] : Written(glob, re, e) /\ at = e[Len(re)] + 1
    BY <1>2, <1>5 DEF WhileWild
  <2>2. Len(re) \in Nat /\ Len(glob) \in Nat /\ e[Len(re)] \in 0 .. Len(glob)
    BY <1>1, LenProperties, <2>1
  <2>3. at = Len(glob) + 1
    BY <1>1, <2>1, <2>2
  <2> QED BY <1>1, <2>1, <2>3 DEF WhileWild, Matching
<1> QED BY <1>1, <1>3, <1>4, <1>5 DEF GlobInv

LEMMA AsksGoverning == ASSUME GlobInv, AskGoverning PROVE GlobInv'
<1>1. /\ globPc = "ask" /\ globPc' = "match" /\ glob' = glob /\ item' = item
      /\ re' = re /\ at' = at /\ against' \in PathSet /\ reached' = {0}
      /\ glob \in Seq(Characters) /\ re \in Seq(Characters \union Items) /\ at \in Nat \ {0} /\ item = 1
  BY DEF AskGoverning, GlobInv, GlobTypes, Matching
<1>2. against' \in Seq(Characters) /\ Len(against') \in Nat /\ Len(re) \in Nat
  BY <1>1, GlobsAssumption, LenProperties
<1>3. GlobTypes'
  BY <1>1, <1>2 DEF GlobTypes, Matching
<1>4. ASSUME glob = <<>> PROVE WhileEmpty'
  BY <1>1, <1>4 DEF GlobInv, WhileEmpty, Matching
<1>5. ASSUME glob # <<>>, ~Wild(glob) PROVE WhilePlain'
  <2> DEFINE s == TrimSlash(glob)
  <2>1. s \in Seq(Characters) /\ Len(s) \in Nat
    BY <1>1, TrimIs, LenProperties
  <2> HIDE DEF s
  <2>2. PlainReach(s, 1, against') = {0}
    BY <1>2, <2>1 DEF PlainReach, Prefix
  <2>3. re = Append(s, "beneath")
    BY <1>1, <1>5 DEF GlobInv, WhilePlain, s
  <2> QED BY <1>1, <2>2, <2>3 DEF WhilePlain, s
<1>6. ASSUME Wild(glob), WholeSegments(glob) PROVE WhileWild'
  <2>1. WhileWild
    BY <1>1, <1>6 DEF GlobInv
  <2>2. PICK e \in [0 .. Len(re) -> 0 .. Len(glob)] :
           Written(glob, re, e) /\ at = e[Len(re)] + 1 /\ at = Len(glob) + 1
    BY <1>1, <2>1 DEF WhileWild
  <2>3. Reach(glob, e[1 - 1], against') = {0}
    <3>1. e[1 - 1] = 0
      BY <2>2 DEF Written
    <3>2. Reach(glob, 0, against') = {0}
      BY <1>1, <1>2, <1>6, WildIsNotEmpty, ReachAtStart
    <3> QED BY <3>1, <3>2
  <2> QED BY <1>1, <2>2, <2>3 DEF WhileWild
<1> QED BY <1>1, <1>3, <1>4, <1>5, <1>6 DEF GlobInv

LEMMA MatchesItem == ASSUME GlobInv, MatchItem PROVE GlobInv'
<1> DEFINE n == Len(against)
<1>1. /\ globPc = "match" /\ globPc' = "match" /\ glob' = glob /\ item' = item + 1
      /\ re' = re /\ at' = at /\ against' = against /\ item <= Len(re)
      /\ reached' = {k \in 0 .. n : \E j \in reached : Spans(re[item], against, j, k)}
      /\ glob \in Seq(Characters) /\ re \in Seq(Characters \union Items) /\ at \in Nat \ {0}
      /\ against \in PathSet /\ item \in 1 .. Len(re) + 1
  BY DEF MatchItem, GlobInv, GlobTypes, Matching
<1>2. against \in Seq(Characters) /\ n \in Nat /\ Len(re) \in Nat /\ item \in 1 .. Len(re)
      /\ item + 1 \in 1 .. Len(re) + 1 /\ item + 1 - 1 = item
  BY <1>1, GlobsAssumption, LenProperties
<1>3. GlobTypes'
  BY <1>1, <1>2 DEF GlobTypes, Matching
<1>4. ASSUME glob = <<>> PROVE WhileEmpty'
  <2>1. re = <<>>
    BY <1>1, <1>4 DEF GlobInv, WhileEmpty
  <2> QED BY <1>2, <2>1
<1>5. ASSUME glob # <<>>, ~Wild(glob) PROVE WhilePlain'
  <2> DEFINE s == TrimSlash(glob)
  <2>1. s \in Seq(Characters) /\ Len(s) \in Nat
    BY <1>1, TrimIs, LenProperties
  <2>2. re = Append(s, "beneath") /\ reached = PlainReach(s, item, against)
    BY <1>1, <1>5 DEF GlobInv, WhilePlain, Matching
  <2>3. reached' = PlainReach(s, item + 1, against)
    <3> HIDE DEF s
    <3>1. item \in 1 .. Len(s) + 1
      BY <1>2, <2>1, <2>2
    <3>2. PlainReach(s, item + 1, against) =
            {z \in 0 .. Len(against) :
               \E y \in PlainReach(s, item, against) : Spans(Append(s, "beneath")[item], against, y, z)}
      BY <1>2, <2>1, <3>1, PlainNext
    <3> QED BY <1>1, <2>2, <3>2
  <2> QED BY <1>1, <2>2, <2>3 DEF WhilePlain
<1>6. ASSUME Wild(glob), WholeSegments(glob) PROVE WhileWild'
  <2>1. WhileWild
    BY <1>1, <1>6 DEF GlobInv
  <2>2. PICK e \in [0 .. Len(re) -> 0 .. Len(glob)] :
           /\ Written(glob, re, e) /\ at = e[Len(re)] + 1 /\ at = Len(glob) + 1
           /\ reached = Reach(glob, e[item - 1], against)
    BY <1>1, <2>1 DEF WhileWild, Matching
  <2> DEFINE x == e[item - 1]
  <2>3. /\ x \in 0 .. Len(glob) - 1 /\ Boundary(glob, x)
        /\ re[item] = ItemAt(glob, x + 1).re /\ e[item] = x + ItemAt(glob, x + 1).takes
    <3>1. Len(glob) \in Nat /\ item - 1 \in 0 .. Len(re)
      BY <1>1, <1>2, LenProperties
    <3>2. x \in 0 .. Len(glob)
      BY <2>2, <3>1
    <3>3. /\ x < Len(glob) /\ Boundary(glob, x)
          /\ re[item] = ItemAt(glob, x + 1).re /\ e[item] = x + ItemAt(glob, x + 1).takes
      BY <1>2, <2>2, <3>1 DEF Written
    <3> HIDE DEF x
    <3>4. x \in 0 .. Len(glob) - 1
      BY <3>1, <3>2, <3>3
    <3> QED BY <3>3, <3>4
  <2> HIDE DEF x
  <2>4. Reach(glob, e[item], against) = Spanned(glob, x, against, re[item])
    <3>1. Reach(glob, x + ItemAt(glob, x + 1).takes, against) = Spanned(glob, x, against, ItemAt(glob, x + 1).re)
      BY <1>1, <1>2, <1>6, <2>3, ReachNext
    <3> QED BY <2>3, <3>1
  <2>5. reached' = Reach(glob, e[item + 1 - 1], against)
    BY <1>1, <1>2, <2>2, <2>4 DEF Spanned, x
  <2> QED BY <1>1, <2>2, <2>5 DEF WhileWild
<1> QED BY <1>1, <1>3, <1>4, <1>5, <1>6 DEF GlobInv

LEMMA EndsMatching == ASSUME GlobInv, Matched PROVE GlobInv'
<1>1. /\ globPc = "match" /\ globPc' = "done" /\ glob' = glob /\ item' = item
      /\ re' = re /\ at' = at /\ against' = against /\ reached' = reached /\ item > Len(re)
      /\ glob \in Seq(Characters) /\ re \in Seq(Characters \union Items) /\ at \in Nat \ {0}
      /\ against \in PathSet /\ item \in 1 .. Len(re) + 1
  BY DEF Matched, GlobInv, GlobTypes, Matching
<1>2. Len(re) \in Nat
  BY <1>1, LenProperties
<1>3. GlobTypes'
  BY <1>1, <1>2 DEF GlobTypes, Matching
<1>4. WhileEmpty => WhileEmpty'
  BY <1>1 DEF WhileEmpty, Matching
<1>5. WhilePlain => WhilePlain'
  BY <1>1 DEF WhilePlain, Matching
<1>6. WhileWild => WhileWild'
  <2> SUFFICES ASSUME WhileWild PROVE WhileWild'
    OBVIOUS
  <2>1. PICK e \in [0 .. Len(re) -> 0 .. Len(glob)] :
           /\ Written(glob, re, e) /\ at = e[Len(re)] + 1 /\ at = Len(glob) + 1
           /\ reached = Reach(glob, e[item - 1], against)
    BY <1>1 DEF WhileWild, Matching
  <2> QED BY <1>1, <2>1 DEF WhileWild
<1> QED BY <1>1, <1>3, <1>4, <1>5, <1>6 DEF GlobInv

THEOREM GlobInvariant == GlobsSpec => []GlobInv
<1>1. ASSUME GlobInv, UNCHANGED globVars PROVE GlobInv'
  <2>1. /\ globPc' = globPc /\ glob' = glob /\ item' = item /\ re' = re /\ at' = at
        /\ against' = against /\ reached' = reached
    BY <1>1 DEF globVars
  <2> QED BY <1>1, <2>1 DEF GlobInv, GlobTypes, WhileEmpty, WhilePlain, WhileWild, Matching
<1>2. ASSUME GlobInv, [GlobsNext]_globVars PROVE GlobInv'
  BY <1>1, <1>2, StartsGlob, WritesItem, EndsWriting, AsksGoverning, MatchesItem, EndsMatching DEF GlobsNext
<1> QED BY <1>2, GlobInitOk, PTL DEF GlobsSpec

LEMMA InvMatches == GlobInv => MatchesBySegment
<1> SUFFICES ASSUME GlobInv, globPc = "done"
             PROVE  /\ glob = <<>> => ~Verdict
                    /\ glob # <<>> /\ ~Wild(glob) =>
                          (Verdict <=> \E c \in Cuts(against) \ {0} : SubSeq(against, 1, c - 1) = TrimSlash(glob))
                    /\ Wild(glob) /\ WholeSegments(glob) /\ glob[Len(glob)] # "/" =>
                          (Verdict <=> PathMatches(glob, against))
  BY DEF MatchesBySegment
<1>1. /\ glob \in Seq(Characters) /\ re \in Seq(Characters \union Items)
      /\ against \in PathSet /\ item = Len(re) + 1
  BY DEF GlobInv, GlobTypes, Matching
<1>2. /\ against \in Seq(Characters) /\ against # <<>> /\ against[Len(against)] # "/"
      /\ Len(against) \in Nat /\ Len(against) # 0 /\ Len(re) \in Nat
  BY <1>1, GlobsAssumption, LenProperties, EmptySeq
<1>3. ASSUME glob = <<>> PROVE ~Verdict
  <2>1. reached = {0}
    BY <1>3 DEF GlobInv, WhileEmpty, Matching
  <2> QED BY <1>2, <2>1 DEF Verdict
<1>4. ASSUME glob # <<>>, ~Wild(glob)
      PROVE  Verdict <=> \E c \in Cuts(against) \ {0} : SubSeq(against, 1, c - 1) = TrimSlash(glob)
  <2> DEFINE s == TrimSlash(glob)
  <2>1. s \in Seq(Characters) /\ Len(s) \in Nat
    BY <1>1, TrimIs, LenProperties
  <2>2. re = Append(s, "beneath") /\ reached = PlainReach(s, item, against)
    BY <1>4 DEF GlobInv, WhilePlain, Matching
  <2> HIDE DEF s
  <2>3. item = Len(s) + 2
    BY <1>1, <2>1, <2>2
  <2>4. Verdict <=> \E c \in Cuts(against) \ {0} : SubSeq(against, 1, c - 1) = s
    BY <1>2, <2>1, <2>2, <2>3, PlainVerdict DEF Verdict
  <2> QED BY <2>4 DEF s
<1>5. ASSUME Wild(glob), WholeSegments(glob), glob[Len(glob)] # "/"
      PROVE  Verdict <=> PathMatches(glob, against)
  <2>1. WhileWild
    BY <1>5 DEF GlobInv
  <2>2. PICK e \in [0 .. Len(re) -> 0 .. Len(glob)] :
           /\ at = e[Len(re)] + 1 /\ at = Len(glob) + 1
           /\ reached = Reach(glob, e[item - 1], against)
    BY <2>1 DEF WhileWild, Matching
  <2>3. item - 1 = Len(re) /\ e[Len(re)] = Len(glob)
    <3>1. Len(glob) \in Nat /\ e[Len(re)] \in Nat
      BY <1>1, <1>2, <2>2, LenProperties
    <3> QED BY <1>1, <1>2, <2>2, <3>1
  <2>4. Verdict <=> Len(against) \in Reach(glob, Len(glob), against)
    BY <2>2, <2>3 DEF Verdict
  <2> QED BY <1>1, <1>2, <1>5, <2>4, WildIsNotEmpty, WildVerdict
<1> QED BY <1>3, <1>4, <1>5

(* "* and ? stay within one path segment; ** spans segments, and a leading *)
(* **/ also matches the root" (staleness.go:80-82), for every glob whose   *)
(* "**" are segments of their own and that does not end in "/"; a glob     *)
(* without a wildcard matches what it names and what is beneath.           *)
THEOREM GlobsMatchBySegment == GlobsSpec => []MatchesBySegment
BY GlobInvariant, InvMatches, PTL
=============================================================================
