------------------------------ MODULE CodeDrift ------------------------------
(***************************************************************************)
(* The drift check that ends every sync run (cmd/briefd/serve.go           *)
(* checkDrift): fetch the code repositories, decide whether anything moved,*)
(* walk their histories, replace the drift table, invalidate the bundles.  *)
(*                                                                         *)
(* The commits of a code repository are numbered in committer-time order.  *)
(* A document's updated_at is known by how many commits of each repository *)
(* are not after it, so "after the document" compares positions.  What a   *)
(* cached bundle shows while requests overlap an invalidation is           *)
(* BundleCompiler's subject; here the cache is the set of drift figures    *)
(* its bundles may have been rendered with.                                *)
(***************************************************************************)
EXTENDS Naturals, FiniteSets

CONSTANTS
    NumRepos,     \* code.repos, in configuration order
    Local,        \* those of them opened in place (OpenLocal)
    Docs,         \* documents
    MaxCommits,   \* bound: commits of one repository
    Touched,      \* Touched[r][k], the documents whose refs match commit k of r
    WalkCap,      \* code.max_commits
    NoRow,        \* no drift row; no document with refs and a known age
    MaxFaults     \* bound: fetch, store and walk errors

Repos   == 1 .. NumRepos
Commits == 0 .. MaxCommits

ASSUME SizeAssumption == /\ NumRepos \in Nat /\ MaxCommits \in Nat
                         /\ WalkCap \in Nat \ {0} /\ MaxFaults \in Nat
ASSUME ReposAssumption == /\ Local \subseteq Repos
                          /\ Touched \in [Repos -> [1 .. MaxCommits -> SUBSET Docs]]
ASSUME NoRowAssumption == NoRow \notin [Repos -> Commits]
                            \union [repo : Repos, commits : 1 .. MaxCommits, last : 1 .. MaxCommits]

VARIABLES
    remote,    \* commits of each code repository
    head,      \* the head that repository's last Sync returned
    since,     \* DocumentsWithRefs: each document's updated_at
    table,     \* code_drift
    cached,    \* drift figures cached bundles may show
    checked,   \* syncer.driftChecked
    runPc,     \* next step of the run
    moved,     \* checkDrift's local: something may have changed
    next,      \* the repository to fetch or to walk next
    found,     \* byDoc, the rows collected so far
    lost,      \* auxiliary: what a fault left behind: "table", "cache"
    faults     \* faults so far

vars == <<remote, head, since, table, cached, checked, runPc, moved, next, found, lost, faults>>

Rows == [repo : Repos, commits : 1 .. MaxCommits, last : 1 .. MaxCommits]
None == [d \in Docs |-> NoRow]

(* What bundles and comparisons see of a row: not its path, nor its repo   *)
(* but for the time of its last change.                                    *)
Rendered(rows) == [d \in Docs |-> IF rows[d] = NoRow THEN NoRow
                                  ELSE <<rows[d].commits, <<rows[d].repo, rows[d].last>>>>]

(* Local repositories are read in place; the others as last fetched.       *)
WalkedHead(r) == IF r \in Local THEN remote[r] ELSE head[r]

(* ChangesSince and Compute: the newest WalkCap commits of r up to h that  *)
(* are after the document and touched what it governs.                     *)
BehindOneMore(d, r, h) ==
    IF since[d] = NoRow THEN {}
    ELSE {k \in 1 .. h : k > since[d][r] /\ k + WalkCap >= h /\ d \in Touched[r][k]}
Behind(d, r, h) ==
    IF since[d] = NoRow THEN {}
    ELSE {k \in 1 .. h : k > since[d][r] /\ k + WalkCap > h /\ d \in Touched[r][k]}

RowOf(r, ks) == IF ks = {} THEN NoRow
                ELSE [repo |-> r, commits |-> Cardinality(ks),
                      last |-> CHOOSE k \in ks : \A j \in ks : j <= k]

(* The row with more commits; the earlier repository's on a tie.           *)
Worse(a, b) == IF b = NoRow \/ (a # NoRow /\ a.commits >= b.commits) THEN a ELSE b

(* The drift of the documents against code heads h: for each, the row of   *)
(* the repository it is furthest behind, the first of several.             *)
DriftAt(h) ==
    [d \in Docs |->
        LET n(r)   == Cardinality(Behind(d, r, h[r]))
            most   == {r \in Repos : \A q \in Repos : n(q) < n(r) \/ (n(q) = n(r) /\ r <= q)}
            drifted == {r \in most : n(r) > 0}
        IN  IF drifted = {} THEN NoRow
            ELSE LET r == CHOOSE r \in drifted : TRUE IN RowOf(r, Behind(d, r, h[r]))]

Init ==
    /\ remote = [r \in Repos |-> 0] /\ head = remote
    /\ since \in [Docs -> {NoRow, remote}]
    /\ table = None /\ cached = {Rendered(table)}
    /\ checked = FALSE /\ runPc = "idle" /\ moved = FALSE /\ next = 1 /\ found = None
    /\ lost = {} /\ faults = 0

-----------------------------------------------------------------------------
(* Someone commits to a code repository.                                   *)
CommitCode(r) ==
    /\ remote[r] < MaxCommits
    /\ remote' = [remote EXCEPT ![r] = @ + 1]
    /\ UNCHANGED <<head, since, table, cached, checked, runPc, moved, next, found, lost, faults>>

(* The documents in ds were indexed again or deleted: edited just before   *)
(* the run, without refs now, or the same as before (Rebuild index).       *)
Reindexed(ds) ==
    since' \in {s \in [Docs -> {remote, NoRow} \cup {since[d] : d \in Docs}] :
                   \A d \in Docs : \/ s[d] = since[d]
                                   \/ d \in ds /\ s[d] \in {remote, NoRow}}

(* indexer.Run succeeded; moved starts from what it reported.              *)
ForgetIndexChange ==
    /\ runPc = "idle"
    /\ \E ds \in SUBSET Docs : Reindexed(ds)
    /\ moved' = ~checked
    /\ runPc' = "sync" /\ next' = 1
    /\ UNCHANGED <<remote, head, table, cached, checked, found, lost, faults>>

StartCheck ==
    /\ runPc = "idle"
    /\ \E ds \in SUBSET Docs : /\ Reindexed(ds)
                               /\ moved' = (ds # {} \/ ~checked)
    /\ runPc' = "sync" /\ next' = 1
    /\ UNCHANGED <<remote, head, table, cached, checked, found, lost, faults>>

(* repo.Sync.  In a checkout that is not ours it reports no change ever.   *)
SyncCode ==
    /\ runPc = "sync" /\ next <= NumRepos
    /\ head' = [head EXCEPT ![next] = remote[next]]
    /\ moved' = (moved \/ (next \notin Local /\ head[next] # remote[next]))
    /\ next' = next + 1
    /\ UNCHANGED <<remote, since, table, cached, checked, runPc, found, lost, faults>>

NothingMoved ==
    /\ runPc = "sync" /\ next > NumRepos /\ ~moved
    /\ runPc' = "idle"
    /\ UNCHANGED <<remote, head, since, table, cached, checked, moved, next, found, lost, faults>>

StartWalk ==
    /\ runPc = "sync" /\ next > NumRepos /\ moved
    /\ runPc' = "walk" /\ next' = 1 /\ found' = None
    /\ UNCHANGED <<remote, head, since, table, cached, checked, moved, lost, faults>>

(* ChangesSince and Compute for one repository, merged into byDoc.         *)
Walk ==
    /\ runPc = "walk" /\ next <= NumRepos
    /\ found' = [d \in Docs |-> Worse(found[d], RowOf(next, Behind(d, next, WalkedHead(next))))]
    /\ next' = next + 1
    /\ UNCHANGED <<remote, head, since, table, cached, checked, runPc, moved, lost, faults>>

(* ReplaceDrift compares what bundles render.                              *)
CompareRowCount ==
    /\ runPc = "walk" /\ next > NumRepos
    /\ table' = found /\ checked' = TRUE /\ lost' = lost \ {"table"}
    /\ cached' = cached \cup {Rendered(found)}
    /\ runPc' = IF Cardinality({d \in Docs : found[d] # NoRow})
                   # Cardinality({d \in Docs : table[d] # NoRow})
                THEN "invalidate" ELSE "idle"
    /\ UNCHANGED <<remote, head, since, moved, next, found, faults>>

ReplaceDrift ==
    /\ runPc = "walk" /\ next > NumRepos
    /\ table' = found /\ checked' = TRUE /\ lost' = lost \ {"table"}
    /\ cached' = cached \cup {Rendered(found)}
    /\ runPc' = IF Rendered(found) # Rendered(table) THEN "invalidate" ELSE "idle"
    /\ UNCHANGED <<remote, head, since, moved, next, found, faults>>

(* compiler.Invalidate.                                                    *)
Invalidate ==
    /\ runPc = "invalidate"
    /\ cached' = {Rendered(table)}
    /\ runPc' = "idle" /\ lost' = lost \ {"cache"}
    /\ UNCHANGED <<remote, head, since, table, checked, moved, next, found, faults>>

-----------------------------------------------------------------------------
Fault == faults < MaxFaults /\ faults' = faults + 1

(* A run that changes documents and fails before the drift check.          *)
IndexFails ==
    /\ runPc = "idle" /\ Fault
    /\ \E ds \in SUBSET Docs : Reindexed(ds)
    /\ lost' = lost \cup {"table"}
    /\ UNCHANGED <<remote, head, table, cached, checked, runPc, moved, next, found>>

(* One repository cannot be fetched; those before it were.  A bare clone's *)
(* branch may have moved before the error (gitsync.go:219-225).            *)
SyncFails ==
    /\ runPc = "sync" /\ next <= NumRepos /\ Fault
    /\ head' \in {head, [head EXCEPT ![next] = remote[next]]}
    /\ runPc' = "idle" /\ lost' = lost \cup {"table"}
    /\ UNCHANGED <<remote, since, table, cached, checked, moved, next, found>>

(* A history cannot be read, or the table not be written or invalidated.   *)
CheckFails ==
    /\ runPc \in {"walk", "invalidate"} /\ Fault
    /\ runPc' = "idle"
    /\ lost' = lost \cup IF runPc = "walk" THEN {"table"} ELSE {"cache"}
    /\ UNCHANGED <<remote, head, since, table, cached, checked, moved, next, found>>

(* The process is started again: the tables and clones survive.            *)
Restart ==
    /\ Fault
    /\ checked' = FALSE /\ runPc' = "idle"
    /\ lost' = lost \cup IF runPc = "invalidate" THEN {"cache"} ELSE {}
    /\ UNCHANGED <<remote, head, since, table, cached, moved, next, found>>

-----------------------------------------------------------------------------
Next ==
    \/ \E r \in Repos : CommitCode(r)
    \/ StartCheck \/ SyncCode \/ NothingMoved \/ StartWalk \/ Walk
    \/ ReplaceDrift \/ Invalidate
    \/ IndexFails \/ SyncFails \/ CheckFails \/ Restart

Spec == Init /\ [][Next]_vars

-----------------------------------------------------------------------------
(* Type invariant.  In particular a row never counts more commits than the *)
(* walk is capped at, nor ends before as many as it counts.                *)
DriftTypeOK ==
    /\ remote \in [Repos -> Commits] /\ head \in [Repos -> Commits]
    /\ \A r \in Repos : head[r] <= remote[r]
    /\ since \in [Docs -> [Repos -> Commits] \cup {NoRow}]
    /\ \A rows \in {table, found} :
          /\ rows \in [Docs -> Rows \cup {NoRow}]
          /\ \A d \in Docs : rows[d] # NoRow => /\ rows[d].commits <= WalkCap
                                                /\ rows[d].commits <= rows[d].last
    /\ Rendered(table) \in cached
    /\ checked \in BOOLEAN /\ moved \in BOOLEAN
    /\ runPc \in {"idle", "sync", "walk", "invalidate"}
    /\ next \in 1 .. NumRepos + 1
    /\ lost \subseteq {"table", "cache"} /\ faults \in 0 .. MaxFaults

(* Between runs the table is exactly the drift of the indexed documents    *)
(* against the fetched heads, although most runs skip the walk: the three  *)
(* reasons not to skip (serve.go:574-588) miss no change, over any sequence*)
(* of code commits, edits, removals and rebuilds.  What a fault loses is   *)
(* lost until the next walk, which repairs it, and no longer; what moves   *)
(* in a repository opened in place is lost always (MovedHeadIsCounted).    *)
TableIsExact ==
    (runPc = "idle" /\ checked /\ "table" \notin lost) => table = DriftAt(head)

(* Between runs cached bundles show the table's drift: whatever differs    *)
(* between two tables as rendered is seen by ReplaceDrift's comparison     *)
(* (drift.go:60-70), a row that moved to another document included.  An    *)
(* invalidation that fails is made up for only by the next that succeeds.  *)
CachedDriftIsCurrent ==
    (runPc = "idle" /\ "cache" \notin lost) => cached = {Rendered(table)}

(* ADR-0007 decision 2: on every sync, when a code head moved, history is  *)
(* walked.  Between runs no commit that a Sync has returned is missing     *)
(* from the table.                                                         *)
MovedHeadIsCounted ==
    (runPc = "idle" /\ checked) =>
        \A d \in Docs : DriftAt(head)[d] # NoRow =>
            table[d] # NoRow /\ table[d].commits >= DriftAt(head)[d].commits
=============================================================================
