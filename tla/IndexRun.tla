------------------------------ MODULE IndexRun ------------------------------
(***************************************************************************)
(* One indexing run after another (internal/indexer/indexer.go Run, driven *)
(* by cmd/briefd/serve.go runWith): the documents, link, age and vector    *)
(* tables, the published fingerprint and the vector index in memory, with  *)
(* a run failing or the process dying between any two statements.          *)
(*                                                                         *)
(* Documents are numbered in path order, the order Walk sorts them in.  A  *)
(* document's file goes through revisions that all differ, so a revision   *)
(* stands for its content, its content hash and the commit time            *)
(* LastModified reports for it.  A document has one chunk.                 *)
(***************************************************************************)
EXTENDS Naturals

CONSTANTS
    NumDocs,      \* documents, in path order
    MaxRev,       \* bound: revisions of a file are 0..MaxRev
    Gone,         \* the pairs <<d, r>> for which revision r has no file
    Malformed,    \* the pairs <<d, r>> that ingest.Load cannot parse
    LinksTo,      \* LinksTo[d][r], the documents revision r of d links to
    NoRow,        \* no row, no vector, no age ('')
    MaxFaults     \* bound: store errors, cancellations and crashes

Docs == 1 .. NumDocs
Revs == 0 .. MaxRev

ASSUME SizeAssumption == NumDocs \in Nat /\ MaxRev \in Nat /\ MaxFaults \in Nat
ASSUME FilesAssumption == /\ Gone \subseteq Docs \X Revs /\ Malformed \subseteq Docs \X Revs
                          /\ LinksTo \in [Docs -> [Revs -> SUBSET Docs]]
ASSUME NoRowAssumption == NoRow \notin Revs

VARIABLES
    tree,      \* revision of each file in the checkout
    rows,      \* documents and chunks: the revision stored
    old,       \* stored documents with links_scanned < LinksVersion
    age,       \* documents.updated_at, as the revision it is the time of
    links,     \* doc_links: the targets written for a document
    resolved,  \* doc_links: those of them with a to_path
    vec,       \* chunk_vectors: the revision embedded
    mem,       \* the vector index in memory
    pub,       \* the documents whose fingerprint sync_state holds
    synced,    \* sync_state.last_commit, as the checkout it names
    booted,    \* the initial run succeeded: the process listens and embeds
    runPc,     \* next step of the run
    todo,      \* files still to load; or the deleted row whose links remain
    force,     \* opts.Force
    indexed,   \* documents this run indexed
    deleted,   \* stats.Deleted > 0
    embedded,  \* stats.Embedded > 0
    faults     \* faults so far

tables == <<rows, old, age, links, resolved, vec, pub, synced>>
locals == <<todo, force, indexed, deleted, embedded>>
vars   == <<tables, locals, tree, mem, booted, runPc, faults>>

Empty       == [d \in Docs |-> NoRow]
Files       == {d \in Docs : <<d, tree[d]>> \notin Gone}
Snapshot(t) == [d \in Docs |-> IF <<d, t[d]>> \in Gone THEN NoRow ELSE t[d]]
Columns     == [Docs -> Revs \cup {NoRow}]
Stored      == {d \in Docs : rows[d] # NoRow}
Stale       == Stored \ Files
Pending     == {d \in Stored : vec[d] # rows[d]}

(* The next document in path order.                                        *)
First(S) == CHOOSE d \in S : \A e \in S : d <= e

(* LoadVectors: the vectors of the stored chunks' present contents.        *)
Loaded(vectors) == [d \in Docs |-> IF d \in Stored /\ vectors[d] = rows[d]
                                   THEN vectors[d] ELSE NoRow]

(* An empty database, or one written before links and ages were recorded.  *)
Init ==
    /\ tree = [d \in Docs |-> 0]
    /\ \/ rows = Empty /\ old = {} /\ synced = Empty
       \/ rows = Snapshot(tree) /\ old = Files /\ synced = tree
    /\ pub = rows
    /\ age = Empty
    /\ links = [d \in Docs |-> {}] /\ resolved = links
    /\ vec = Empty /\ mem = Empty
    /\ booted = FALSE /\ runPc = "idle"
    /\ todo = {} /\ force = FALSE /\ indexed = {} /\ deleted = FALSE /\ embedded = FALSE
    /\ faults = 0

ForgetLocals == todo' = {} /\ force' = FALSE /\ indexed' = {} /\ deleted' = FALSE /\ embedded' = FALSE

-----------------------------------------------------------------------------
(* repo.Sync and Walk: some newer checkout, its files in path order.  Only *)
(* a process that listens can be asked to rebuild the index.               *)
StartRun ==
    /\ runPc = "idle"
    /\ tree' \in {t \in [Docs -> Revs] : \A d \in Docs : t[d] >= tree[d]}
    /\ todo' = {d \in Docs : <<d, tree'[d]>> \notin Gone}
    /\ force' \in {FALSE, booted}
    /\ runPc' = "load"
    /\ UNCHANGED <<tables, mem, booted, faults, indexed, deleted, embedded>>

(* A file that is stored as it is and was scanned for links is skipped.    *)
LoadUnchanged ==
    /\ runPc = "load" /\ todo # {}
    /\ LET d == First(todo)
       IN  /\ <<d, tree[d]>> \notin Malformed
           /\ ~force /\ rows[d] = tree[d] /\ d \notin old
           /\ todo' = todo \ {d}
    /\ UNCHANGED <<tables, tree, mem, booted, runPc, force, indexed, deleted, embedded, faults>>

(* UpsertDocument: one transaction.  Its links are stored unresolved; an   *)
(* existing row keeps its updated_at, and its chunk's vector goes stale.   *)
UpsertDocument ==
    /\ runPc = "load" /\ todo # {}
    /\ LET d == First(todo)
       IN  /\ <<d, tree[d]>> \notin Malformed
           /\ force \/ rows[d] # tree[d] \/ d \in old
           /\ rows' = [rows EXCEPT ![d] = tree[d]]
           /\ links' = [links EXCEPT ![d] = LinksTo[d][tree[d]]]
           /\ resolved' = [resolved EXCEPT ![d] = {}]
           /\ old' = old \ {d}
           /\ indexed' = indexed \cup {d}
           /\ todo' = todo \ {d}
    /\ UNCHANGED <<age, vec, pub, synced, tree, mem, booted, runPc, force, deleted, embedded, faults>>

DeleteRowKeepsAge ==
    /\ runPc = "load" /\ todo = {} /\ Stale # {}
    /\ LET d == First(Stale)
       IN  /\ rows' = [rows EXCEPT ![d] = NoRow]
           /\ old' = old \ {d}
           /\ todo' = {d}
    /\ runPc' = "unlink"
    /\ UNCHANGED <<age, links, resolved, vec, pub, synced, tree, mem, booted, force, indexed, deleted,
                   embedded, faults>>

(* DeleteDocument is two statements: the row (its chunks follow) ...       *)
DeleteRow ==
    /\ runPc = "load" /\ todo = {} /\ Stale # {}
    /\ LET d == First(Stale)
       IN  /\ rows' = [rows EXCEPT ![d] = NoRow]
           /\ age' = [age EXCEPT ![d] = NoRow]
           /\ old' = old \ {d}
           /\ todo' = {d}
    /\ runPc' = "unlink"
    /\ UNCHANGED <<links, resolved, vec, pub, synced, tree, mem, booted, force, indexed, deleted,
                   embedded, faults>>

(* ... then its links; stats.Deleted counts it after both.                 *)
DeleteLinks ==
    /\ runPc = "unlink"
    /\ links' = [d \in Docs |-> IF d \in todo THEN {} ELSE links[d]]
    /\ resolved' = [d \in Docs |-> IF d \in todo THEN {} ELSE resolved[d]]
    /\ todo' = {} /\ deleted' = TRUE
    /\ runPc' = "load"
    /\ UNCHANGED <<rows, old, age, vec, pub, synced, tree, mem, booted, force, indexed, embedded, faults>>

(* resolveAges: what this run indexed, and what has no age yet.            *)
ResolveAges ==
    /\ runPc = "load" /\ todo = {} /\ Stale = {}
    /\ age' = [d \in Docs |-> IF d \in indexed \/ (d \in Stored /\ age[d] = NoRow)
                              THEN tree[d] ELSE age[d]]
    /\ runPc' = "links"
    /\ UNCHANGED <<rows, old, links, resolved, vec, pub, synced, locals, tree, mem, booted, faults>>

(* ResolveLinks, over every link row, if the run wrote or deleted anything;*)
(* a link resolves when the document it names is stored.                   *)
ResolveIndexedOnly ==
    /\ runPc = "links"
    /\ resolved' = [d \in Docs |-> IF d \in indexed THEN links[d] \cap Stored ELSE resolved[d]]
    /\ runPc' = IF booted THEN "vectors" ELSE "publish"
    /\ UNCHANGED <<rows, old, age, links, vec, pub, synced, locals, tree, mem, booted, faults>>

ResolveLinks ==
    /\ runPc = "links"
    /\ resolved' = IF indexed # {} \/ deleted
                   THEN [d \in Docs |-> links[d] \cap Stored]
                   ELSE resolved
    /\ runPc' = IF booted THEN "vectors" ELSE "publish"
    /\ UNCHANGED <<rows, old, age, links, vec, pub, synced, locals, tree, mem, booted, faults>>

(* embedPending: PruneVectors, then batch after batch until none is        *)
(* pending.  A batch may end with a reload of the index in memory.         *)
PruneVectors ==
    /\ runPc = "vectors"
    /\ vec' = [d \in Docs |-> IF d \in Stored THEN vec[d] ELSE NoRow]
    /\ runPc' = "embed"
    /\ UNCHANGED <<rows, old, age, links, resolved, pub, synced, locals, tree, mem, booted, faults>>

PutVectors ==
    /\ runPc = "embed" /\ Pending # {}
    /\ \E batch \in SUBSET Pending :
          /\ batch # {}
          /\ vec' = [d \in Docs |-> IF d \in batch THEN rows[d] ELSE vec[d]]
          /\ mem' \in {mem, Loaded(vec')}
    /\ embedded' = TRUE
    /\ UNCHANGED <<rows, old, age, links, resolved, pub, synced, tree, booted, runPc, todo, force,
                   indexed, deleted, faults>>

NoneToEmbed ==
    /\ runPc = "embed" /\ Pending = {}
    /\ runPc' = "publish"
    /\ UNCHANGED <<tables, locals, tree, mem, booted, faults>>

(* IndexFingerprint and SetIndexFingerprint, in every run.                 *)
SetIndexFingerprint ==
    /\ runPc = "publish"
    /\ pub' = rows
    /\ runPc' = "record"
    /\ UNCHANGED <<rows, old, age, links, resolved, vec, synced, locals, tree, mem, booted, faults>>

(* SetSyncState.                                                           *)
SetSyncState ==
    /\ runPc = "record"
    /\ synced' = tree
    /\ runPc' = "reload"
    /\ UNCHANGED <<rows, old, age, links, resolved, vec, pub, locals, tree, mem, booted, faults>>

ReloadWhenEmbedded ==
    /\ runPc = "reload"
    /\ mem' = IF embedded THEN Loaded(vec) ELSE mem
    /\ booted' = TRUE /\ runPc' = "idle" /\ ForgetLocals
    /\ UNCHANGED <<tables, tree, faults>>

(* runWith reloads the index in memory, and the run is over.               *)
Reload ==
    /\ runPc = "reload"
    /\ mem' = IF embedded \/ deleted THEN Loaded(vec) ELSE mem
    /\ booted' = TRUE /\ runPc' = "idle" /\ ForgetLocals
    /\ UNCHANGED <<tables, tree, faults>>

-----------------------------------------------------------------------------
AbortPublishing ==
    /\ runPc' = "idle" /\ ForgetLocals /\ pub' = rows
    /\ UNCHANGED <<rows, old, age, links, resolved, vec, synced, tree, mem, booted>>

(* An error ends the run and keeps what it wrote.  When the run is the     *)
(* initial one the process exits, and is started again like after a crash. *)
Abort ==
    /\ runPc' = "idle" /\ ForgetLocals
    /\ UNCHANGED <<tables, tree, mem, booted>>

(* A file whose front matter does not parse ends the run where it stands.  *)
ParseFails ==
    /\ runPc = "load" /\ todo # {}
    /\ <<First(todo), tree[First(todo)]>> \in Malformed
    /\ Abort /\ UNCHANGED faults

RunFails ==
    /\ runPc # "idle"
    /\ faults < MaxFaults /\ faults' = faults + 1
    /\ Abort

(* The process dies; buildProcess loads the vectors, then indexes again.   *)
Crash ==
    /\ faults < MaxFaults /\ faults' = faults + 1
    /\ mem' = Loaded(vec)
    /\ booted' = FALSE /\ runPc' = "idle" /\ ForgetLocals
    /\ UNCHANGED <<tables, tree>>

-----------------------------------------------------------------------------
RunStep ==
    \/ LoadUnchanged \/ UpsertDocument \/ ParseFails
    \/ DeleteRow \/ DeleteLinks
    \/ ResolveAges \/ ResolveLinks
    \/ PruneVectors \/ PutVectors \/ NoneToEmbed
    \/ SetIndexFingerprint \/ SetSyncState \/ Reload

Next == StartRun \/ RunStep \/ RunFails \/ Crash

Spec == Init /\ [][Next]_vars

(* The ticker starts runs for ever, and a run's statements return.         *)
Fairness == WF_vars(StartRun) /\ WF_vars(RunStep)

FairSpec == Spec /\ Fairness

-----------------------------------------------------------------------------
(* Type invariant.  In particular an age belongs to a stored document and  *)
(* is never later than its content, so it never hides drift (resolveAges   *)
(* runs after the documents are written and deleted).                      *)
IndexTypeOK ==
    /\ tree \in [Docs -> Revs]
    /\ {rows, pub, synced} \subseteq Columns /\ {age, vec, mem} \subseteq Columns
    /\ old \subseteq Stored
    /\ \A d \in Docs : age[d] # NoRow => d \in Stored /\ age[d] <= rows[d]
    /\ {links, resolved} \subseteq [Docs -> SUBSET Docs]
    /\ \A d \in Docs : resolved[d] \subseteq links[d]
    /\ runPc \in {"idle", "load", "unlink", "links", "vectors", "embed", "publish", "record", "reload"}
    /\ todo \subseteq Docs /\ indexed \subseteq Docs
    /\ booted \in BOOLEAN /\ force \in BOOLEAN /\ deleted \in BOOLEAN /\ embedded \in BOOLEAN
    /\ faults \in 0 .. MaxFaults

(* The published fingerprint, which keys every cached bundle, is only ever *)
(* that of one whole checkout, and sync_state names a commit only once its *)
(* fingerprint is published (indexer.go:139-163): runs that failed half way*)
(* leave a mixture of checkouts in the tables and never publish it.        *)
PublishedIsOneCheckout ==
    [][/\ pub' # pub => pub' = Snapshot(tree)
       /\ synced' # synced => pub = Snapshot(synced')]_vars

(* When a run that wrote or deleted anything is done with the tables, the  *)
(* link table is exact for every stored document, those it did not touch   *)
(* included: also when an earlier run failed before resolving, and when a  *)
(* target appeared or disappeared in this one (links.go:69-71).            *)
LinksExactAfterChange ==
    (runPc \in {"vectors", "embed", "publish", "record", "reload"} /\ (indexed # {} \/ deleted)) =>
        \A d \in Stored : /\ links[d] = LinksTo[d][rows[d]]
                          /\ resolved[d] = links[d] \cap Stored

(* Whatever faults interrupt runs, once they stop and every file parses the*)
(* checkout is stored, published and fully embedded, and stays so; if there*)
(* was none, the index in memory holds exactly its vectors.                *)
CaughtUp ==
    /\ rows = Snapshot(tree) /\ pub = rows /\ synced = tree
    /\ old = {} /\ booted
    /\ vec = rows
    /\ faults = 0 => mem = vec
Converges ==
    <>[]( (\A d \in Docs : <<d, tree[d]>> \notin Malformed) => CaughtUp )

(* What documents.go:40-41 says of updated_at: after a run has recorded the*)
(* sync, every stored document's age is that of its content.               *)
UpdatedAtIsWhenContentChanged ==
    runPc = "reload" => \A d \in Stored : age[d] = rows[d]
=============================================================================
