--------------------------- MODULE BundleCompiler ---------------------------
(***************************************************************************)
(* The bundle compiler and its two caches (internal/bundle/bundle.go,      *)
(* internal/store/bundles.go), shared by concurrent requests and by the    *)
(* one sync run that rewrites the index underneath them                    *)
(* (cmd/briefd/serve.go runWith, internal/indexer/indexer.go Run).         *)
(*                                                                         *)
(* A document is followed through numbered revisions; Text[d][r] is what   *)
(* its file holds at revision r (Absent: there is no file), so two         *)
(* revisions with one text have one content hash.  Fingerprint hashes the  *)
(* texts, never the revision numbers.                                      *)
(***************************************************************************)
EXTENDS Naturals, Sequences

CONSTANTS
    Docs,          \* knowledge documents
    Requests,      \* normalised (task, scopes, max_tokens, model, paths)
    Clients,       \* concurrent callers of Compile
    MaxRev,        \* bound: revisions of a document are 0..MaxRev
    Text,          \* Text[d][r], the content of d at revision r
    Texts,         \* the contents a document can have
    Absent,        \* no such file
    DriftTables,   \* the contents the code_drift table can have
    NoDrift,       \* a compile that has not reached AttachDrift
    NoBundle,      \* an idle caller holds nothing
    LruSize        \* bound: bundles kept in process memory

Revs == 0 .. MaxRev

ASSUME BoundsAssumption == MaxRev \in Nat /\ LruSize \in Nat \ {0}
ASSUME TextAssumption == Text \in [Docs -> [Revs -> Texts \cup {Absent}]]
ASSUME DriftAssumption == NoDrift \notin DriftTables /\ DriftTables # {}

VARIABLES
    source,    \* revision of each document in the tree the current run walks
    docs,      \* revision of each document in the documents/chunks tables
    pub,       \* the index state whose fingerprint sync_state holds
    drift,     \* the code_drift table
    rows,      \* the bundles table
    lru,       \* Compiler.lru, as the set of bundles it maps keys to
    order,     \* Compiler.order, least recently used key first
    serving,   \* the initial run succeeded and the process listens
    runPc,     \* next step of the sync run
    changed,   \* the run indexed or deleted something
    cutShort,  \* auxiliary: the last Invalidate did not reach the bundles table
    pc,        \* next step of each caller
    asof,      \* auxiliary: the index state published when the request began
    held       \* the bundle the caller is building or was handed by the table

runVars    == <<source, docs, pub, drift, serving, runPc, changed, cutShort>>
cacheVars  == <<rows, lru, order>>
clientVars == <<pc, asof, held>>
vars       == <<source, docs, pub, drift, rows, lru, order, serving, runPc,
                changed, cutShort, pc, asof, held>>

(* IndexFingerprint: a hash of every document's path and content hash.     *)
FingerprintOfPaths(index) ==
    [d \in Docs |-> IF Text[d][index[d]] = Absent THEN Absent ELSE CHOOSE t \in Texts : TRUE]
Fingerprint(index) == [d \in Docs |-> Text[d][index[d]]]

(* cacheKey: the normalised request and the published fingerprint.         *)
CacheKeyOfTaskOnly(q, index) == [req |-> q, fp |-> [d \in Docs |-> Absent]]
CacheKey(q, index) == [req |-> q, fp |-> Fingerprint(index)]

Keys     == [req : Requests, fp : [Docs -> Texts \cup {Absent}]]
Sections == [doc : Docs, rev : Revs]

(* A bundle: the sections it renders and the drift rendered with them.     *)
(* The two flags are auxiliary.  torn: the index was being rewritten while *)
(* it was compiled.  late: an invalidation was under way meanwhile.        *)
Bundle(drifts) == [key : Keys, body : SUBSET Sections, drift : drifts,
                   torn : BOOLEAN, late : BOOLEAN]

(* Documents whose stored content differs from the tree the run walks.     *)
Outdated     == {d \in Docs : Text[d][docs[d]] # Text[d][source[d]]}
ToUpsert     == {d \in Outdated : Text[d][source[d]] # Absent}
Invalidating == runPc \in {"clearMemory", "clearRows"}

Reading  == {"memory", "row", "search", "hydrate"}
InFlight == Reading \cup {"attach", "store", "remember"}

Oldest == [d \in Docs |-> 0]

(* The key of the request c is serving.                                    *)
Key(c) == held[c].key

Init ==
    /\ source = Oldest
    /\ docs = source /\ pub = source
    /\ drift \in DriftTables
    /\ rows = {} /\ lru = {} /\ order = <<>>
    /\ serving = FALSE /\ runPc = "idle" /\ changed = FALSE /\ cutShort = FALSE
    /\ pc = [c \in Clients |-> "idle"]
    /\ asof = [c \in Clients |-> Oldest]
    /\ held = [c \in Clients |-> NoBundle]

-----------------------------------------------------------------------------
(* The process-memory cache.                                               *)

Without(s, i) == [j \in 1 .. Len(s) - 1 |-> IF j < i THEN s[j] ELSE s[j + 1]]

(* touch: the first occurrence of k moves to the back.                     *)
Touch(s, k) ==
    IF \E i \in DOMAIN s : s[i] = k
    THEN LET first == CHOOSE i \in DOMAIN s :
                         s[i] = k /\ \A j \in DOMAIN s : s[j] = k => i <= j
         IN  Append(Without(s, first), k)
    ELSE s

Lookup(table, k) == {b \in table : b.key = k}

(* lruPut: replace the bundle of a known key, or add the key at the back   *)
(* and drop keys from the front until LruSize remain.                      *)
LruPutUnbounded(k, b) ==
    IF Lookup(lru, k) # {}
    THEN /\ lru' = (lru \ Lookup(lru, k)) \cup {b}
         /\ order' = Touch(order, k)
    ELSE /\ lru' = lru \cup {b}
         /\ order' = Append(order, k)

LruPut(k, b) ==
    IF Lookup(lru, k) # {}
    THEN /\ lru' = (lru \ Lookup(lru, k)) \cup {b}
         /\ order' = Touch(order, k)
    ELSE LET all  == Append(order, k)
             over == IF Len(all) > LruSize THEN Len(all) - LruSize ELSE 0
         IN  /\ order' = SubSeq(all, over + 1, Len(all))
             /\ lru' = {e \in lru \cup {b} :
                           \A i \in 1 .. over : all[i] # e.key}

-----------------------------------------------------------------------------
(* Compile, one action per read or write of shared state.                  *)

GoTo(c, l) == pc' = [pc EXCEPT ![c] = l]

(* The request is over; its locals are gone.                               *)
Return(c) ==
    /\ GoTo(c, "idle")
    /\ asof' = [asof EXCEPT ![c] = Oldest]
    /\ held' = [held EXCEPT ![c] = NoBundle]

(* GetIndexFingerprint fixes the cache key for the rest of the request.    *)
GetIndexFingerprint(c, q) ==
    /\ serving
    /\ pc[c] = "idle"
    /\ GoTo(c, "memory")
    /\ asof' = [asof EXCEPT ![c] = pub]
    /\ held' = [held EXCEPT ![c] =
                   [key |-> CacheKey(q, pub), body |-> {}, drift |-> NoDrift,
                    torn |-> Fingerprint(docs) # Fingerprint(pub),
                    late |-> Invalidating]]
    /\ UNCHANGED <<runVars, cacheVars>>

(* lruGet: a hit is moved to the back and returned as it is.               *)
LruGet(c) ==
    /\ pc[c] = "memory"
    /\ IF Lookup(lru, Key(c)) # {}
       THEN Return(c) /\ order' = Touch(order, Key(c))
       ELSE GoTo(c, "row") /\ UNCHANGED <<asof, held, order>>
    /\ UNCHANGED <<runVars, rows, lru>>

GetBundleByKey(c) ==
    /\ pc[c] = "row"
    /\ IF Lookup(rows, Key(c)) # {}
       THEN /\ GoTo(c, "remember")
            /\ \E b \in Lookup(rows, Key(c)) :
                 held' = [held EXCEPT ![c] = [b EXCEPT !.late = @ \/ held[c].late]]
       ELSE GoTo(c, "search") /\ UNCHANGED held
    /\ UNCHANGED <<runVars, cacheVars, asof>>

(* What a query for one of the documents ds returns now.                   *)
ReadNow(ds) == {[doc |-> d, rev |-> docs[d]] : d \in {x \in ds : Text[x][docs[x]] # Absent}}

Collect(c, ds) == held' = [held EXCEPT ![c].body = @ \cup ReadNow(ds)]

(* bm25Split: chunks full-text search finds.                               *)
SearchFTS(c) ==
    /\ pc[c] = "search"
    /\ \E found \in SUBSET Docs : Collect(c, found)
    /\ GoTo(c, "hydrate")
    /\ UNCHANGED <<runVars, cacheVars, asof>>

(* The queries that follow, each in a transaction of its own, load chunks  *)
(* the first did not return: any-term search, hybrid's GetChunks and       *)
(* governed's ChunksByDoc.  They may be other chunks of the same document, *)
(* rewritten in the meantime.                                              *)
HydrateRest(c) ==
    /\ pc[c] = "hydrate"
    /\ \E more \in SUBSET Docs : Collect(c, more)
    /\ \E l \in {"hydrate", "attach"} : GoTo(c, l)
    /\ UNCHANGED <<runVars, cacheVars, asof>>

SkipAttachDrift(c) ==
    /\ pc[c] = "attach"
    /\ GoTo(c, "store")
    /\ UNCHANGED <<held, runVars, cacheVars, asof>>

AttachDrift(c) ==
    /\ pc[c] = "attach"
    /\ held' = [held EXCEPT ![c].drift = drift]
    /\ GoTo(c, "store")
    /\ UNCHANGED <<runVars, cacheVars, asof>>

(* PutBundle: on a conflicting key the existing row wins.                  *)
PutBundle(c) ==
    /\ pc[c] = "store"
    /\ rows' = IF Lookup(rows, Key(c)) = {} THEN rows \cup {held[c]} ELSE rows
    /\ GoTo(c, "remember")
    /\ UNCHANGED <<runVars, lru, order, asof, held>>

(* lruPut, then the bundle is returned.                                    *)
Remember(c) ==
    /\ pc[c] = "remember"
    /\ LruPut(Key(c), held[c])
    /\ Return(c)
    /\ UNCHANGED <<runVars, rows>>

(* A store error or a cancelled request returns without caching more.      *)
CompileFails(c) ==
    /\ pc[c] \in InFlight
    /\ Return(c)
    /\ UNCHANGED <<runVars, cacheVars>>

-----------------------------------------------------------------------------
(* The sync run; syncer.mu admits one at a time.                           *)

(* repo.Sync and Walk fix the tree to index.  force (Rebuild index)        *)
(* re-parses unchanged documents, which count as indexed.                  *)
StartRun ==
    /\ runPc = "idle"
    /\ source' \in {s \in [Docs -> Revs] : \A d \in Docs : s[d] >= source[d]}
    /\ changed' \in BOOLEAN
    /\ runPc' = "index"
    /\ UNCHANGED <<docs, pub, drift, serving, cutShort, cacheVars, clientVars>>

(* A write to the index is felt by every request that is still reading it. *)
Tear == held' = [c \in Clients |-> IF pc[c] \in Reading
                                   THEN [held[c] EXCEPT !.torn = TRUE]
                                   ELSE held[c]]

(* UpsertDocument, one transaction per changed file.                       *)
UpsertDocument(d) ==
    /\ runPc = "index"
    /\ d \in ToUpsert
    /\ docs' = [docs EXCEPT ![d] = source[d]]
    /\ changed' = TRUE
    /\ Tear
    /\ UNCHANGED <<source, pub, drift, serving, runPc, cutShort, cacheVars, pc, asof>>

(* DeleteDocument: documents whose file is gone, after every upsert.       *)
DeleteDocument(d) ==
    /\ runPc = "index"
    /\ ToUpsert = {} /\ d \in Outdated
    /\ docs' = [docs EXCEPT ![d] = source[d]]
    /\ changed' = TRUE
    /\ Tear
    /\ UNCHANGED <<source, pub, drift, serving, runPc, cutShort, cacheVars, pc, asof>>

(* SetIndexFingerprint, once the documents are written.                    *)
SetIndexFingerprint ==
    /\ runPc = "index"
    /\ Outdated = {}
    /\ pub' = docs
    /\ runPc' = IF changed THEN "prune" ELSE "checkDrift"
    /\ UNCHANGED <<source, docs, drift, serving, changed, cutShort, cacheVars, clientVars>>

(* PruneBundles: rows of another fingerprint; the LRU is not touched.      *)
PruneBundles ==
    /\ runPc = "prune"
    /\ rows' = {b \in rows : b.key.fp = Fingerprint(pub)}
    /\ runPc' = "checkDrift"
    /\ UNCHANGED <<source, docs, pub, drift, serving, changed, cutShort, lru, order, clientVars>>

(* checkDrift has nothing to recompute, fails, or finds what the table has.*)
DriftUnchanged ==
    /\ runPc = "checkDrift"
    /\ runPc' = "idle" /\ serving' = TRUE /\ changed' = FALSE
    /\ UNCHANGED <<source, docs, pub, drift, cutShort, cacheVars, clientVars>>

(* ReplaceDrift stores rows that differ from the table.                    *)
ReplaceDrift ==
    /\ runPc = "checkDrift"
    /\ drift' \in DriftTables \ {drift}
    /\ runPc' = "clearMemory"
    /\ held' = [c \in Clients |-> IF pc[c] \in InFlight
                                    THEN [held[c] EXCEPT !.late = TRUE]
                                    ELSE held[c]]
    /\ UNCHANGED <<source, docs, pub, serving, changed, cutShort, cacheVars, pc, asof>>

InvalidateKeepsMemory ==
    /\ runPc = "clearMemory"
    /\ runPc' = "clearRows"
    /\ UNCHANGED <<lru, order, source, docs, pub, drift, serving, changed, cutShort, rows, clientVars>>

(* Invalidate: the LRU under its mutex, then DeleteAllBundles.             *)
InvalidateMemory ==
    /\ runPc = "clearMemory"
    /\ lru' = {} /\ order' = <<>>
    /\ runPc' = "clearRows"
    /\ UNCHANGED <<source, docs, pub, drift, serving, changed, cutShort, rows, clientVars>>

DeleteAllBundles ==
    /\ runPc = "clearRows"
    /\ rows' = {}
    /\ cutShort' = FALSE
    /\ runPc' = "idle" /\ serving' = TRUE /\ changed' = FALSE
    /\ UNCHANGED <<source, docs, pub, drift, lru, order, clientVars>>

(* An error before the drift check, SetSyncState and Reload included, ends *)
(* the run; what it wrote stays.  An initial run that fails ends the       *)
(* process.                                                                *)
RunFails ==
    /\ runPc \in {"index", "prune", "checkDrift"}
    /\ runPc' = "idle" /\ changed' = FALSE
    /\ UNCHANGED <<source, docs, pub, drift, serving, cutShort, cacheVars, clientVars>>

(* DeleteAllBundles fails; runWith only logs it.                           *)
InvalidateFails ==
    /\ runPc = "clearRows"
    /\ cutShort' = TRUE
    /\ runPc' = "idle" /\ serving' = TRUE /\ changed' = FALSE
    /\ UNCHANGED <<source, docs, pub, drift, cacheVars, clientVars>>

(* The process dies and starts again: the tables survive, memory does not. *)
Restart ==
    /\ lru' = {} /\ order' = <<>>
    /\ serving' = FALSE /\ runPc' = "idle" /\ changed' = FALSE
    /\ cutShort' = (cutShort \/ Invalidating)
    /\ pc' = [c \in Clients |-> "idle"]
    /\ asof' = [c \in Clients |-> Oldest]
    /\ held' = [c \in Clients |-> NoBundle]
    /\ UNCHANGED <<source, docs, pub, drift, rows>>

-----------------------------------------------------------------------------
Compile(c) ==
    \/ \E q \in Requests : GetIndexFingerprint(c, q)
    \/ LruGet(c) \/ GetBundleByKey(c)
    \/ SearchFTS(c) \/ HydrateRest(c) \/ AttachDrift(c)
    \/ PutBundle(c) \/ Remember(c) \/ CompileFails(c)

SyncRun ==
    \/ StartRun
    \/ \E d \in Docs : UpsertDocument(d) \/ DeleteDocument(d)
    \/ SetIndexFingerprint \/ PruneBundles
    \/ DriftUnchanged \/ ReplaceDrift
    \/ InvalidateMemory \/ DeleteAllBundles
    \/ RunFails \/ InvalidateFails

Next == SyncRun \/ Restart \/ \E c \in Clients : Compile(c)

Spec == Init /\ [][Next]_vars

-----------------------------------------------------------------------------
(* Type invariant.  In particular a stored or remembered bundle always has *)
(* the drift table's figures attached: no path caches a bundle that skipped*)
(* AttachDrift.                                                            *)
CompilerTypeOK ==
    /\ source \in [Docs -> Revs] /\ docs \in [Docs -> Revs] /\ pub \in [Docs -> Revs]
    /\ drift \in DriftTables
    /\ rows \subseteq Bundle(DriftTables) /\ lru \subseteq Bundle(DriftTables)
    /\ order \in Seq(Keys)
    /\ serving \in BOOLEAN /\ changed \in BOOLEAN /\ cutShort \in BOOLEAN
    /\ runPc \in {"idle", "index", "prune", "checkDrift", "clearMemory", "clearRows"}
    /\ pc \in [Clients -> InFlight \cup {"idle"}]
    /\ asof \in [Clients -> [Docs -> Revs]]
    /\ held \in [Clients -> Bundle(DriftTables \cup {NoDrift}) \cup {NoBundle}]
    /\ \A c \in Clients :
          /\ pc[c] \in InFlight => held[c] \in Bundle(DriftTables \cup {NoDrift})
          /\ pc[c] \in {"store", "remember"} => held[c] \in Bundle(DriftTables)

(* The two halves of the LRU agree: order lists exactly the keys of the    *)
(* map, each once, at most LruSize of them, under any interleaving of gets,*)
(* puts of fresh and known keys, evictions and invalidations               *)
(* (bundle.go:444-478).                                                    *)
LruWellFormed ==
    /\ \A b \in lru : \E i \in DOMAIN order : order[i] = b.key
    /\ \A i \in DOMAIN order : \E b \in lru : b.key = order[i]
    /\ \A i, j \in DOMAIN order : order[i] = order[j] => i = j
    /\ \A a, b \in lru : a.key = b.key => a = b
    /\ Len(order) <= LruSize

(* Section s shows a text its document still had at, or got after, index   *)
(* state since.                                                            *)
Fresh(s, since) ==
    \E r \in Revs : r >= since[s.doc] /\ Text[s.doc][r] = Text[s.doc][s.rev]

(* The bundle c's next step hands to its caller: what the LRU holds for its*)
(* key, or what it read from the table or compiled.                        *)
Returning(c) ==
    CASE pc[c] = "memory"   -> Lookup(lru, Key(c))
      [] pc[c] = "remember" -> {held[c]}
      [] OTHER              -> {}

(* A bundle never shows knowledge older than the state its header names,   *)
(* the one published when the request began (bundle.go:101-110): neither   *)
(* cache brings back a superseded text or a deleted document, whatever run *)
(* overlaps the request.  Holds while no document returns to an earlier    *)
(* text; the history with a revert is the violation run.                   *)
NothingOlderThanAsked ==
    \A c \in Clients : \A b \in Returning(c) :
        \A s \in b.body : Fresh(s, asof[c])

(* What indexer.go:141-142 and bundles.go:162-163 say of pruned bundles:    *)
(* their keys never match again.  A bundle whose row is gone but which     *)
(* memory still holds never answers a request with superseded knowledge.   *)
PrunedStaysGone ==
    \A c \in Clients : (pc[c] = "memory" /\ Lookup(rows, Key(c)) = {}) =>
        \A b \in Lookup(lru, Key(c)) : \A s \in b.body : Fresh(s, asof[c])

(* Same task and same knowledge state give the same text: a bundle whose   *)
(* compile overlapped no index write shows, for every section, exactly the *)
(* content its fingerprint was computed from (bundle.go:89-90), for as long*)
(* as it is cached, across restarts and failed runs.                       *)
UntornBundleMatchesItsKey ==
    \A b \in rows \cup lru :
        ~b.torn => \A s \in b.body : Text[s.doc][s.rev] = b.key.fp[s.doc]

(* Only a request that overlapped the invalidation, or an invalidation cut *)
(* short before the bundles table, can leave a cached bundle whose drift is*)
(* not the drift table's (serve.go:618-630).                               *)
StaleDriftNeedsOverlap ==
    /\ \A b \in rows : b.drift = drift \/ b.late \/ cutShort \/ Invalidating
    /\ \A b \in lru : b.drift = drift \/ b.late \/ cutShort \/ runPc = "clearMemory"

(* What serve.go:626 says of cached bundles once drift changed: with no    *)
(* run and no request under way, every cached bundle of the current index  *)
(* shows the current drift.                                                *)
InvalidatedDriftIsGone ==
    (runPc = "idle" /\ ~cutShort /\ \A c \in Clients : pc[c] \notin InFlight) =>
        \A b \in rows \cup lru : b.key.fp = Fingerprint(pub) => b.drift = drift
=============================================================================
