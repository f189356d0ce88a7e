# A TLA+ model of briefd

briefd indexes a repository of Markdown knowledge, keeps the index current
while the repository moves, and answers agents with *bundles*: the sections
that fit a task and a token budget. This directory holds TLA+ modules for the
parts of it where order, concurrency and failure matter, the TLC configurations
that check them, and proofs that TLAPS checks. Paths below are relative to
`src/`.

## The system

| Component | State it keeps | Operations | What is hard about it | What makes it correct |
|---|---|---|---|---|
| Bundle compiler (`internal/bundle/bundle.go`, `internal/store/bundles.go`) | a memory LRU (map and recency list), the `bundles` table | `Compile`, `Invalidate`; pruning by the indexer | concurrent requests race each other, a sync run rewriting the index, and invalidation; the table survives restarts, memory does not | never older knowledge than asked for; one key, one text; the LRU stays bounded and consistent; drift shown is the drift known |
| Sync run (`cmd/briefd/serve.go`, `runWith`) | a mutex, `driftChecked` | `runWith` from the ticker, a webhook, the dashboard, start-up | any step can fail; a run is cancelled or the process dies; what is done stays done | a later run makes up for what an earlier one lost |
| Indexer (`internal/indexer/indexer.go`) | `documents`, `chunks`, `doc_links`, `chunk_vectors`, `sync_state` | `Run` | about a dozen separate transactions; "unchanged" is decided by content hash alone | only whole checkouts are published; links, ages, vectors follow the documents |
| Git checkout (`internal/gitsync/gitsync.go`) | the clone: tracking reference, branch, worktree | `Sync`, `Propose`, `LastModified`, `ChangesSince`, `Landed` | force pushes; a stop between two writes to the clone | files are those of the commit they are indexed under; the index follows the remote |
| Code drift (`serve.go` `checkDrift`, `internal/staleness`, `internal/store/drift.go`) | `code_drift`, code clones | fetch, decide, walk, replace, invalidate | most checks skip the walk; the walk is capped | the table is exact; every visible change invalidates bundles |
| Retrieval (`internal/search`) | the vector index in memory | `Search`, `Reload` | several queries without a common transaction; rank fusion | deterministic, within budget, scopes respected |
| Chunker and parser (`internal/ingest`) | none | `ChunkDocument`, `Parse`, `Resolve` | splitting at boundaries, ids | no text lost, chunk ids unique, sizes bounded |
| Proposals (`internal/proposal`, `internal/store/proposals.go`, `forge.go`) | `proposals`, branches, pull requests | `Create`, `SyncStatuses` | four effects in a row, each may fail; a rate limit | no proposal is forgotten; a status is earned and final; a commit changes one file |
| Counters (`internal/metrics`) | registry, saved state | `Record`, `Export`, `Import`, `Reset` | saving races resetting; ring buffers | what is reset stays reset; bounded |
| HTTP API and MCP server (`internal/httpapi`, `internal/mcpserver`) | the link-suggestion cache and its lock | one goroutine per request | the fingerprint is read before the lock; dismissals, usage reports and resets arrive beside everything else | nothing dismissed comes back; feedback reaches the bundle it is about |
| Query log (`internal/store/querylog.go`, `bundles.go`) | `query_log`, `usage_events` | `LogQuery`, `PutUsage`, `Gaps` | reports are judged against a row that may be another bundle, or gone | a gap is a question nobody was helped with |
| Store and migrations, tokenizer, embedders, configuration, evaluation, scaffold | | | see "Not modelled" | |

They interact so: the ticker, a webhook, the dashboard and start-up call
`runWith`, which admits one run at a time. A run syncs the checkout, runs the
indexer over its files, reloads the vector index, refreshes proposals and ends
with the drift check, which may invalidate the compiler's caches. Requests do
not take the run's mutex: they read the same tables between its statements. The
fingerprint in `sync_state`, a hash of all document hashes, ties the two sides
together; it is part of every bundle's key, and the link suggestions are kept
under it too.

## Modules

| Module | Models | Configurations |
|---|---|---|
| `BundleCompiler` | `Compile` of any number of callers, one action per access to shared state, against one sync run seen through what it writes for them: documents, fingerprint, pruning, drift, invalidation | `MCBundleIndex`, `MCBundleRevert`, `MCBundleDriftRace`, `MCRequests` |
| `IndexRun` | `indexer.Run` under `runWith`, one action per transaction, failing or crashing anywhere | `MCSync`, `MCIndexAge` |
| `CodeDrift` | `checkDrift` over several repositories: skip or walk, cap, merge, replace, invalidate | `MCDerived`, `MCCodeDriftLocal` |
| `GitCheckout` | `Sync` of the knowledge clone, one action per write, and what is indexed from it | `MCSync`, `MCGitCheckoutCut` |
| `ProposalLifecycle` | abstract: what the proposal table promises | |
| `Proposals` | `Create`, `SyncStatuses`, the forge, people at the remote; implements `ProposalLifecycle` | `MCSync`, `MCProposalsNoForge` |
| `GitTree` | the tree of a proposal's commit, one tree opened or stored a step | `MCSync` |
| `History` | `LastModified` and `ChangesSince` over commit graphs with merges and wrong clocks | `MCDerived` |
| `Globs` | what a ref governs: `globToRegexp` and `Match`, one item of the regular expression a step | `MCDerived`, `MCGlobsDirectory` |
| `Chunker` | `ChunkDocument`, `splitOversized` | `MCDerived`, `MCChunkerIds` |
| `LinkGraph` | the three queries of `store.LinkGraph` beside index runs | `MCDerived` |
| `Ranking` | `Search`: both full-text passes, vectors, fusion, governed rules, limits | `MCRequests` |
| `Packer` | `Pack`, `Order`, truncation and the drop loop of `compile` | `MCRequests` |
| `Feedback` | `compile_bundle`, the query log, `report_usage`, `Gaps` | `MCRequests` |
| `Suggestions` | the cached link suggestions and dismissals | `MCRequests` |
| `Counters` | the registry, its rings, saving, restoring and resetting | `MCRequests` |
| `Collections` | sorting and sums over finite sets, used by `Ranking`, `Packer` and `GitTree` | |
| `BundleProofs`, `IndexRunProofs` | theorems about `BundleCompiler`, `IndexRun` | |
| `ProposalsProofs` | theorems about `Proposals` and `GitTree` | |
| `GitSyncProofs` | theorems about `GitCheckout` and `History` | |
| `DerivedProofs` | theorems about `CodeDrift`, `LinkGraph`, `Chunker` and `Globs` | |
| `RequestsProofs` | theorems about `Feedback`, `Suggestions` and `Counters` | |
| `RetrievalProofs` | theorems about `Packer` and `Ranking` | |
| `CollectionsProofs` | lemmas on sums, sorting and least elements that five of the others cite | |
| `MC...` | the constants of the configurations, and the composites below | |

`BundleCompiler`, `IndexRun`, `CodeDrift` and `GitCheckout` are the same run at
four magnifications. Each keeps the part of the others that its properties can
see: `BundleCompiler` has a run that changes documents in any way and drift to
any other value; `IndexRun` takes checkouts as they come; `CodeDrift` takes any
re-indexing of documents; `GitCheckout` takes an index run as one step.
`Feedback`, `Suggestions` and `LinkGraph` see a run the same way: as writes that
may come between any two of their own steps.

Three MC modules check several modules in one run. `MCRequests` holds what
requests do, `MCDerived` what a sync run derives from repositories, and `MCSync`
the sync run's checkout and index, proposals and their trees. No part of a
composite reads what another writes, so interleaving them would only multiply
states: the variable `part`, chosen in the initial state, says which of them
moves, the others stay as they begin, and the states of the run are the sum of
those of its parts. The fairness of a module is required of the behaviours in
which it moves. Where another part of `MCSync` moves, the tables are those a
run has left of the first checkout (`AtRest`), as `Converges` speaks of how they
end. The other MC modules only give constants their values: those of
`MCIndexRun`, `MCGitCheckout`, `MCProposals`, `MCGlobs` and `MCChunker` serve a
composite and a violated run.

### `BundleCompiler`

A document has revisions, and `Text[d][r]` says what its file holds at each, so
that a revert is a later revision with an earlier text. `Fingerprint` is taken
over texts, as in `IndexFingerprint`, never over revisions; the SHA-256 of key
and fingerprint is modelled as injective. `Requests` are the other inputs of
`cacheKey` after normalisation. A bundle is the set of (document, revision)
sections it shows and the drift attached to them. Which chunks a search finds
is any subset of the documents: ranking and packing only choose among them.

A request goes `memory` (`lruGet`), `row` (`GetBundleByKey`), `search` and
`hydrate` (the queries of `Search`; the second set may be repeated, one query
at a time), `attach` (`AttachDrift`), `store` (`PutBundle`), `remember`
(`lruPut` and return); it can fail or be cancelled at each. `touch` and
`lruPut` are the sequence operations of `bundle.go:455-478`. The run goes
`index`, `prune`, `checkDrift`, `clearMemory`, `clearRows`, where each upsert
or delete of a document is a step. `Restart` drops memory and keeps tables, and
requests are served only after an initial run (`buildProcess`). The
auxiliary `asof`, `torn`, `late` and `cutShort` record what happened and guard
nothing.

### `IndexRun`

Documents are numbered in path order, which decides what a file that does not
parse prevents. Revisions of a file all differ; a document has one chunk, and a
link resolves when the document it names is stored. Local variables of a run
(`todo`, `force`, `indexed`, `deleted`, `embedded`) die with it. `Init` is an
empty database, or one an older version wrote, whose documents have neither
link scan nor age. The initial run has no embedder; runs after it have.
`DeleteDocument` is two actions because it is two statements outside a
transaction. `known` is read once per run but the mutex keeps it equal to the
table for every document the run has not reached, so the model reads the table.

### `CodeDrift`

Commits of a repository are numbered in committer-time order and a document's
age is a position in that order. `Touched[r][k]` stands for the globs: which
documents commit `k` concerns. `Behind` is `ChangesSince` with its cap, then
`Compute`; `Worse` is the merge by document; `Rendered` is what `ReplaceDrift`
compares. The auxiliary `lost` says what a fault has left undone, so that the
properties can be exact everywhere else.

### `GitCheckout`

The branch (which HEAD names), the tracking reference and the worktree are
three variables because `Sync` writes them separately; the worktree is written
file by file. `cut` and `mixed` record whether a reset was interrupted and
whether the last run indexed such a worktree. One process uses the clone.

### `Proposals`, `ProposalLifecycle` and `GitTree`

A call of `Create` goes `new`, `committed`, `pushed` or `unpushed`, `opened` or
`unopened`, `done`; as in the code a failed push or pull request only changes
what the row says, while a failed row fails the call and leaves its pull request
behind. `PullRequestFails` includes the forge opening the pull request and the
answer being lost. `SyncStatuses` is one action for the rate limit and the
list, then one per answer of the forge and one per row update, so a pull request
can be reopened between the two; without a forge, `SettleLanded` asks git for
one proposal at a time. All proposals are for one document, a branch head is
what the document holds there and which proposals' commits are its ancestors:
`Merge` covers merge commits, squashes and conflicts settled either way.

`ProposalLifecycle` has two variables: what the table says of each proposal and
what has happened to it. `Life` and `Fate` in `Proposals` are the refinement
mapping, and `ImplementsLifecycle` says that every step of the detailed
specification is a step of it or stutters. `Fate` is computed from the forge,
the branch and a history of reopenings, so a status is only written if it was
earned.

`GitTree` opens the trees along the path from the root down (`OpenTree`), then
copies them from the deepest up with one entry replaced or added (`RebuildTree`),
below directories that did not exist (`NewPath`): the recursion of `rebuildTree`
and `newPath`, whose stack is `trail`. Each tree is sorted as git does, where
directories sort as if their names ended in a slash (`KeyRank`). The hash of a tree
is its place among the trees stored, and a blob's is never a tree's. The history
variable `files` says which files a checkout of each stored tree writes; the code
has no such thing, the property is about it.

### `History`, `Globs`, `Chunker` and `LinkGraph`

`History` walks the commits `Pop` hands out newest committer time first, for any
commit graph and clocks. `changedPaths` counts a file as changed when it differs
from every parent. `DatesAreTheNewest` compares ages with a definition over the
graph; `MissedOnlyBehindAnOldClock` says when a change that is newer than
`since` may be missed: behind the cap, or behind a commit whose clock is older.

`Globs` writes a ref as a sequence of regular-expression items, one turn of the
loop of `globToRegexp` a step (`WriteItem`), and matches them against a path one
after the other: `reached` is how much of the path the items so far can match,
which is what `regexp` decides in its own way. The reference definition lays the
segments of a glob over those of a path. `MatchesBySegment` covers the globs that
do not end in `/` and those without a wildcard; what the comment of `Match` says of
the others, those with a wildcard and a `/` at their end, is
`DirectoryGlobsReachBeneath`, which is violated. This is the one module whose
properties are about characters, so its data are characters.

`Chunker` follows `ChunkDocument` in its two passes. A body is a sequence of blocks
with offsets, counted in tokens, so that a slice has its size for its length. The
first pass (`Block`, `Heading`, `EndOfBody`) cuts sections at headings and gives
each its breadcrumb; the second splits every section with content, one unit at a
time (`BeginSection`, `AddUnit`, `EndOfSection`), and numbers repeated breadcrumbs.
Where the code cuts a block into lines or runes, any pieces that fit may come out.
`EveryBlockIsChunked` says that nothing but the first H1 is lost, repeated or put
under headings it does not stand under; `IdsAreUnique` when two chunks may collide,
and `RepeatedBreadcrumbsGetUniqueIds`, that none do, is violated.

`LinkGraph` has runs that write documents one by one, delete one in two
statements, resolve all links at the end, and stop anywhere, and a reader whose
three queries fall between any of them. `same` notes whether a run wrote in
between.

### `Ranking` and `Packer`

What SQLite and the embedder answer is part of a query in `Ranking`: the order of
the matches of all terms and of any, and the similarities. Everything after that
is translated: any-term matches after all-term ones, the heap of the nearest
vectors with its tie-breaks, `RRFWeighted`, the governed sections and their
weight, the limits per document and in total, and the token budget. The loops
whose order decides the result are steps: `VectorSearch` offers one vector to
the heap, `Take` looks at one hit. Scores are whole numbers of 10^-7, and the
constants are held to what that precision can tell apart: `topK` up to 150,
fusion depth up to 200, up to six governed sections (the code has 50 and 6, and
`search.max_top_k` defaults to 50).

`Packer` estimates, drops near-duplicates, truncates the first chunk when nothing
fits, and since the rendered whole may be larger than its estimates, drops
sections from the end. What a chunk adds to the rendered whole is chosen freely
below and above its estimate.

### `Feedback`

One question, asked by several calls. A bundle's id is a hash of its cache key,
so an id is a fingerprint here, and two bundles compiled under one key share it:
`PutBundle` keeps the first, memory the last. Compilation is `ask`, `put`,
`remember`, `log`; feedback is judged against the row, which may be another
bundle than the one shown, or gone. Rows are dropped by a run that publishes and
then prunes (`PublishPrint`, `PruneRows`), and by `Invalidate`, which empties
memory and then the table (`ForgetBundles`, `DeleteRows`); either statement may
fail or be cut off by a restart. A run that publishes another fingerprint after
an earlier one stored the documents does not prune: that is `NotDropped`.

### `Suggestions`

A request reads the fingerprint, then takes the lock, then reads links, the
dismissed pairs and text in queries of their own, and stores the list under the
fingerprint it read first. A dismissal writes its row, then takes the lock to
forget the list, then is answered.

### `Counters`

A request is counted in the registry and its document in the served set, two
structures with a lock each; the order depends on the interface. `Export` reads
them one after the other and the ticker's save may overlap the last one. The
registry holds two rings of fixed size, one restored in order and one without
its position. `mixed` records that saves and resets overlapped.

## What the runs check

States are distinct states as TLC counts them.

| Run | Expectation | Bounds | What it shows |
|---|---|---|---|
| `bundle_index` | passes, 2.1 million states | 2 callers, 1 request, 1 document edited then deleted, cache of 2 | `CompilerTypeOK`, `LruWellFormed`, `NothingOlderThanAsked`, `UntornBundleMatchesItsKey` |
| `bundle_revert` | violated | the document is edited and the edit reverted | `PrunedStaysGone` |
| `bundle_drift_race` | violated | 2 callers, 3 drift tables, cache of 1 | `InvalidatedDriftIsGone` |
| `requests` | passes, 3.9 million | below | of the compiler `StaleDriftNeedsOverlap`; of `Ranking` `FusionRespectsBoth`, `RulesLead`; of `Packer` `SectionsAreTheBestThatFit`; of `Feedback` `FeedbackTypeOK`, `GapsFollowReports`, `RefusedNeedsAChange`; of `Suggestions` `SuggestionsTypeOK`, `DismissedIsGone`, `KeptListIsFresh`; of `Counters` `CountersTypeOK`, `RingsHoldTheLatest`, `ServedAreTheLatest`, `ResetStaysReset`, `CleanStopKeepsCounters` |
| `derived` | passes, 6.7 million | below | of `CodeDrift` `DriftTypeOK`, `TableIsExact`, `CachedDriftIsCurrent`; of `History` `DatesAreTheNewest`, `MissedOnlyBehindAnOldClock`; of `Globs` `MatchesBySegment`; of `Chunker` `EveryBlockIsChunked`, `IdsAreUnique`; `GraphIsExact` |
| `sync` | passes, 390,000 | below | of `IndexRun` `IndexTypeOK`, `LinksExactAfterChange`, `PublishedIsOneCheckout`, `Converges`; of `GitCheckout` `CheckoutTypeOK`, `OnlyACutResetMislabels`, `FollowsTheRemote`; of `Proposals` `ProposalsTypeOK`, `ImplementsLifecycle`, `PullRequestsAreSettled`, `LandedIsSettled`; of `GitTree` `OneFileChanges` |
| `proposals_no_forge` | violated | 1 call, 1 edit, no faults | `LandedWithoutForgeIsMerged` |
| `index_age` | violated | the index part of `sync`, no faults | `UpdatedAtIsWhenContentChanged` |
| `drift_local` | violated | 1 repository opened in place | `MovedHeadIsCounted` |
| `checkout_cut` | violated | 1 push, 1 fault | `CheckoutIsTheCommit` |
| `globs_directory` | violated | the globs part of `derived` | `DirectoryGlobsReachBeneath` |
| `chunk_ids` | violated | the chunker part of `derived` | `RepeatedBreadcrumbsGetUniqueIds` |

Why the bounds are enough:

* `bundle_index`: every property speaks of one section of one bundle, so one
  document suffices; its three states give three keys for a cache of two, so
  eviction happens, and a document's chunks can be read at different revisions.
  Two callers give every race for a key (double compile, row and memory
  disagreeing, a put after a prune). Invalidation is in the run, but the
  constraint `UntilInvalidated` ends a behaviour with the first one, and none
  begins beside a request: what drift does to caches is the compiler part of
  `requests`. The theorems below hold for any number.
* `requests`, compiler part: 2 callers, 1 document that is never edited, 3 drift
  tables, cache of 1. An overlap needs one late caller and one to read what it
  left; three tables let drift change away and on while it is at work.
* `requests`, ranking part: 3 chunks of 2 documents with every pair of match
  lists, every order of three similarities with ties, all modes, none, one or
  both documents governing; limits and budget below the number of chunks.
  Packer part: 4 chunks of which two are alike, rendered sizes below and above
  the estimates, budgets from below the header to above everything.
* `requests`, feedback part: 2 calls, 2 fingerprints, 1 chunk, 2 runs or
  invalidations. Two bundles of one id are the empty one and the full one; a
  fingerprint is left and comes back in two runs. Suggestions part: 2 requests, 2
  pairs, 3 contents, 3 rewrites, 2 dismissals, so a content returns and a
  dismissal follows a dismissal. Counters part: rings of 2 and a served set of 1
  for 4 requests, so all wrap or overflow; one reset, one end or failed write.
* `derived`, drift part: two repositories give the tie and the merge, and a
  failure after one of them was synced; three commits against a cap of two pass
  it; commit 1 touches one document and the others both, so the figures of the
  two move apart and together. History part: four commits in a line, a merge, and
  a merge of an ancestor, every assignment of three clock values and of changes.
  Globs part: every normalised glob of up to 4 characters of `*`, `?`, `/` and a
  letter against every path of up to 5. Chunker part: every body of up to 4
  blocks with repeated headings and one written like a number, blocks that fit
  and blocks above both limits. Links part: 2
  documents, 2 targets, 2 runs, 1 interruption.
* `sync`, index part: 2 documents, 3 revisions, 2 faults. Two documents give each
  order of failure before, between and after; each links to the other, so targets
  appear and disappear in runs that do not touch the linking document; document 2
  does not parse at revision 1 and is gone at revision 2. Two faults interrupt a
  run and then the repair. Checkout part: 2 files, 3 commits, 4 pushes, 3 stops.
  The third commit deletes one file and restores the other, so a cut reset can
  leave a tree of no commit, and one that is accidentally right; four pushes go
  forwards and back; three stops cut a reset, its repair and a fetch.
* `sync`, proposals part: 2 calls, 3 edits at the remote, 1 fault. Equal texts let
  one proposal land through the other; three edits close, reopen and merge; one
  fault loses any single answer, row, push or refresh, or restarts with or without
  a forge. Tree part: every root over `a` and `a.md`, the names that sort
  differently as file and directory, beside two directories of which one may hold
  the other, and paths of up to three names.

Deadlock is checked in every run except those of the three composites and the two
of their parts that are violated (`globs_directory`, `chunk_ids`): a search that was
answered, a path that was matched, a body that was chunked, a tree that was stored
and calls that are all answered have no next step.

### Fairness

The index and checkout parts of `sync` check liveness under weak fairness of
starting a run and of a run's next step, and its proposals part under weak fairness
of the sync run, of the steps of a refresh, of the passing of `StatusSyncInterval`,
and of the steps of a call that has begun. The ticker loop (`serve.go:652-665`) starts runs
for as long as the process lives, a run and a handler are straight-line code
whose calls return, with a result or an error, and time passes. Faults, pushes,
edits and new calls are not fair and bounded, as the properties say "once they
stop". `Converges` and `FollowsTheRemote` are of the form "eventually always":
they would fail for a run that skips work an earlier one left.
`PullRequestsAreSettled` and `LandedIsSettled` say that what ended at the forge,
or landed where git can tell, is settled in the table in the end; a failed
refresh waits for the interval, which is why its passing must be fair. No
fairness is assumed elsewhere.

## Where code and comments disagree

The eight violated runs each contradict a sentence of the repository; each
counterexample is a behaviour of the code as it is.

* `bundle_revert`: pruning leaves the memory cache alone and says its keys
  never match again (`internal/indexer/indexer.go:141-142`). A bundle compiled
  while an edit was being written carries the fingerprint from before the edit;
  after a revert that fingerprint is back and memory answers with it.
* `bundle_drift_race`: `Invalidate` cannot reach a bundle that a request holds
  (`cmd/briefd/serve.go:626`). The request stores it afterwards.
* `index_age`: ages are resolved after all files were loaded; a file that does
  not parse ends the run before, and the documents it had stored are unchanged
  to every later run (`internal/store/documents.go:29`).
* `drift_local`: a code repository opened in place never reports a new head
  (`docs/adr/0007-code-drift-via-refs.md:33-35`).
* `checkout_cut`: `Sync` moves the branch before it resets the worktree
  (`internal/gitsync/gitsync.go:233-243`); stopped in between, the next one sees
  nothing to do.
* `proposals_no_forge`: the refresh from git lists only proposals with a pull
  request URL (`internal/store/proposals.go:70`), and without a forge there is
  none, so no proposal is ever marked merged
  (`internal/proposal/proposal.go:162-163`).
* `globs_directory`: a ref with a wildcard that ends in `/` (`**/`, `a*/`) matches
  nothing, although such a pattern "matches everything beneath it"
  (`internal/staleness/staleness.go:82-83`); only one without a wildcard does.
* `chunk_ids`: the number given to a repeated heading may make it equal to another
  one: with the headings `A`, `A` and `A (2)` two chunks have one id
  (`internal/ingest/chunker.go:142`), `UpsertDocument` refuses the document
  (`internal/store/documents.go:84`) and every index run ends there.

The passing properties next to them say how far each reaches: only overlapping
requests (`StaleDriftNeedsOverlap`), only cut resets (`OnlyACutResetMislabels`),
only histories in which a text recurs (`Freshness`), only proposals that were
opened without a forge (`LandedIsSettled`), only globs with a wildcard
(`MatchesBySegment`), only headings written like a number (`IdsAreUnique`).

Smaller deviations are conditions of passing properties, named in their comments:

* A bundle without sections may exceed its budget by its header, although
  `internal/mcpserver/server.go:278` says "Never exceeded"
  (`SectionsAreTheBestThatFit`).
* A proposal whose path is a directory of the base commits a tree git does not
  accept: the blob takes the directory's mode (`internal/gitsync/gitsync.go:387-389`,
  `OneFileChanges`).
* A save of the counters that overlaps a reset may bring back what was reset, and a
  save of the ticker that overlaps the last one may put older counters over it
  (`ResetStaysReset`, `CleanStopKeepsCounters`).
* A pull request whose row could not be written is followed by nobody
  (`PullRequestsAreSettled`).
* A link graph read beside a write may be of no single moment (`GraphIsExact`).
* Restored latency samples forget which is the oldest, so until the ring was
  refilled it need not hold the latest (`RingsHoldTheLatest`).
* A kept list of link suggestions may be another content's when the index goes
  back to it (`KeptListIsFresh`).
* Feedback on a bundle just served may be refused without a change of the
  knowledge since: its row went while it was on its way to memory
  (`RefusedNeedsAChange`).

## What is proved

Every theorem holds for every value of its module's constants.

About `BundleCompiler` (any documents, requests, callers, history, cache size),
in `BundleProofs`:

* `TypeCorrect`: `Spec => []CompilerTypeOK`, which is inductive by itself: it
  includes that a request past `AttachDrift` holds a bundle with drift attached.
* `LruCorrect`: `Spec => []LruWellFormed`. Inductive
  with `CompilerTypeOK`. `TouchPermutes` shows that moving a key to the back permutes
  the list, `TouchedWellFormed` and `PutWellFormed` that `lruGet` and `lruPut`
  keep map and list one another's mirror; what makes the eviction loop correct
  is that the list has no duplicates, so a dropped key is nowhere behind.
* `Freshness`: `NoRecurrence => (Spec => []NothingOlderThanAsked)`.
  `NoRecurrence` says that no document returns to an earlier text, and the
  violated run `bundle_revert` shows that it is needed. The property is not
  inductive: it speaks of what a caller is about to return, but the reason lies
  in what was cached earlier. The invariant `FreshInv` adds that published and
  stored revisions never exceed the run's checkout and never go back, that a
  request's `asof` is not after what is published, and that every bundle, cached or
  held, was compiled under its key and is fresh with respect to the index state
  its key names. A cache hit then means equal fingerprints, `NoRecurrence` turns
  equal texts into equally old ones, and freshness carries over to the caller.
* `StaleDriftExplained`: `Spec => []StaleDriftNeedsOverlap`. `DriftInv` adds
  what a request in flight holds: beside an invalidation it is marked late, so
  before it caches, its drift is the table's, or it is late, or it read a row
  that a cut invalidation left; and once memory was emptied everything put there
  before the table is emptied too is current or late.
* `UntornBundles`: `Spec => []UntornBundleMatchesItsKey`, without the
  assumption. `UntornInv` adds that a request that is reading and not torn finds
  the stored documents' texts equal to its key's fingerprint: each write by a run
  sets `torn` for every request that is still reading.

About `IndexRun` (any documents, revisions, links, files that do not parse, and
faults), in `IndexRunProofs`:

* `IndexTypes`, `LinksExact` and `PublishedWhole` follow from one invariant,
  `IndexInv`, which says what a run may rely on while it is half way and what one
  that stopped there leaves behind. `RowsNotNewer`: nothing stored is newer than
  the checkout, which is why an age that survives an update stays in bounds.
  `Loading`: a file the run is done with is stored as it is and was scanned for
  links. `WholeCheckout`: once nothing is left to load or to delete the tables are
  the checkout's snapshot, and `pub` is that snapshot before it is recorded.
  `LinksOfRows` holds between runs too, so a document an earlier run stored
  needs no second look; `LinksResolved` is re-established by every run that
  changed anything. `FirstIsAMember`, that the next document in path order
  exists, rests on the well-foundedness of `<`.
* `CompletedRunSettles`: every run that completes in a process that serves leaves
  the state `CaughtUp`, whatever earlier runs left behind. Its invariant is `MemoryHolds`: the
  memory's vectors are the table's until a step changes them, and from then on
  `deleted` or `embedded` says so, which is what `Reload` asks. The memory's part
  holds until the first fault, for a run that stopped lost its flags. The first run
  of a process leaves embedding to the next, hence the condition that it serves.

About `GitCheckout` (any commits, pushes, faults), in `GitSyncProofs`:

* `CheckoutTypes` and `LabelsAreTrees` follow from `CheckoutInv`: outside a reset
  the worktree is the branch's tree or a reset was cut short and none completed
  since, and what was indexed from such a worktree is marked as such.
* `CompletedRunFollows`, from the same invariant: a run during which the remote did
  not move after its fetch ends with the remote's head as last commit and, unless
  its worktree was cut short, with that commit's files as the index.

About `CodeDrift` (any repositories, documents, commits, caps, faults), in
`DerivedProofs`:

* `DriftTypes` and `CachedDrift`: types, and that cached bundles show the table's
  drift unless an invalidation was cut short. `BehindIsCapped` bounds a row by
  the cap and by the commits there are; `LastExists` names its last commit.
* `DriftTableExact`: `Local = {} => (Spec => []TableIsExact)`. The assumption is
  what `drift_local` refutes without. The walk merges repository by repository;
  `MergeOneMore` and `MergeIsDrift` show that merging the next repository keeps
  `found` the drift over those already walked, ties included, by induction along
  the run rather than over data. `TableInv` says of a run that
  has found nothing to have moved that the table is exact already, which is what
  makes skipping the walk right.

About `Proposals` (any calls, texts, edits, faults), in `ProposalsProofs`:

* `ProposalTypes` and `LifecycleImplemented`: the refinement of
  `ProposalLifecycle`. `ProposalsInv` says that a row follows its call, that only
  rows with a URL are listed, that what the forge answered has happened
  (`AnsweredHappened`) and that what HEAD holds has landed; `FateGrows` that what
  happened stays. A row update is then `Settle` or, on a row that is no longer
  open, a stutter.

About `GitTree` (any base git accepts, paths, names, byte order), in
`ProposalsProofs`:

* `OneFileOnly`, from `TreeInvariant`, whose invariant `TreeInv` follows the walk
  down and up. Going down, the files under the k-th opened directory are the base's
  under the first names of the path (`Under`), so the walk
  fails exactly at a file of the base. Going up, the tree stored last has the files
  of the base under its own prefix with the proposed one in place of what was there
  (`Changed`), and every tree stored is one git accepts, unless the path is a
  directory of the base (`Blocked`), in which case one is not. Sorting by `KeyRank` keeps a tree's entries
  apart because the rank is injective on names with their slash, which is why the
  rank by plain names, the mutant, is refuted.

About `Suggestions` (any requests, pairs, contents), in `RequestsProofs`:

* `SuggestionTypes`, `DismissedStaysGone` and `KeptListsAreFresh`. A request that
  has read the dismissed pairs holds the lock a dismissal needs before it is
  answered, so no list can miss an answered dismissal. `ReadFromTables` carries
  freshness: while the index has never gone back, a fingerprint equal to the
  tables' means that the tables have not changed since it was read.

About `Feedback` (any calls, fingerprints, chunks, runs), in `RequestsProofs`:

* `FeedbackTypes`, `GapsAreTheReports` and `RefusalsAreExplained`.
  `EventsOfReports` says that usage events are exactly the sections judged in the
  reports. `MemoryHasRows` and `AnsweredHaveRows` follow a bundle's row from the
  request to its answer: while no fingerprint recurred and no rows went half way,
  what memory answers with has a row, and so has every call answered since
  bundles were last dropped.

About `History` (any commit graph, clocks, cap), in `GitSyncProofs`:

* `DatesNewest` and `ChangesComplete`, from one invariant, `HistoryInv`. `Walked`
  says that every commit the walk has looked at was followed to its parents but
  for the frontier, and that with clocks that agree with the graph nothing left is
  newer than what was seen; `Dated` that a path's date is that of a commit seen
  that introduced it; `Listed` that what is listed was reached through commits
  newer than `since`. Being an ancestor is the intersection of all sets closed under
  parents, so that the walk reaches an ancestor needs no induction over the graph:
  what was looked at, with the frontier, is such a set.

About `Globs` (any characters, globs, paths that do not end in `/`), in
`DerivedProofs`. Of the globs with a wildcard it is about those that do not end in `/`:

* `GlobsMatchBySegment`, from `GlobInvariant`. The invariant `GlobInv` says of each
  item where it ends in the glob (`Written`), never inside `**` or between `**` and
  its `/` (`Boundary`), and of the match that the items up to the x-th character
  reach exactly the places `Reach` names: those where the segments of the glob
  before the one of x can be laid over segments of the path (`Laid`) and its
  characters up to x over what follows (`Over`). `ReachNext` shows for each kind of
  item that it leads from one such set to the next, so the induction over the glob
  is the one along the behaviour; `WildVerdict` that the last set decides.

About `LinkGraph` (any documents, targets, candidates, runs), in `DerivedProofs`:

* `GraphCorrect`. `GraphInv` says which rows exist beside which documents while a
  run is anywhere between its statements (`Tables`, `RowsOwned`), that rows
  resolve to their first stored candidate whenever no run is half way
  (`RowsResolved`), and what the reader holds as long as nothing was written since
  it began (`Reader`).

About `Chunker` (any bodies, titles, limits), in `DerivedProofs`:

* `BlocksAreChunked` and `ChunkIdsUnique`, from one invariant, `ChunkerInv`. While
  headings are read (`WhileReading`) the sections closed so far tile what was read
  but for the first H1, and the breadcrumb of the open one is that of the last
  block; while sections are split the chunks cover the sections before the next one
  and the parts flushed of it (`ChunksAre`, `WhileSplitting`). `Times` counts the
  sections of one breadcrumb, so two of them have different numbers, and `Numbered`
  is injective: ids can only collide between a number and a heading that is written
  like it (`NamesDiffer`).

About `Counters` (any documents, ring sizes, requests, stops), in
`RequestsProofs`:

* `CountersTypeCorrect`.
* `RingsLatest`. `RingsInv` says where each of the latest requests is in both rings,
  and which of them a saved copy has (`RecentExact`, `SamplesExact`, `CopyExact`);
  a restored sample is the oldest only once the ring was rewritten.
* `ServedLatest`. `ServedInv` says of the served set and of every copy of it that a
  document it lacks was not served within the window, or that as many others were
  served later as the set can hold (`KeptOf`); the one that is dropped, the least
  recently served, exists by well-foundedness.
* `ResetStays` and `CleanStopKept`. `ResetInv` says that, unless a save and a reset
  overlapped, neither the registry nor any copy has a request from before the
  reset; `StopInv` that from the end of the process on, every copy that may be
  written last has every request counted before it.

About `Packer` (any chunks, sizes, rankings, budgets), in `RetrievalProofs`:

* `SectionsAreBest`. `PackerInv` says while packing that what was passed over did
  not fit beside what was chosen before it or is like one of them
  (`WhilePacking`), and while fitting that sections are dropped from the end only
  and only while the whole is too large (`WhileFitting`, `NothingLost`). A sum is
  the cardinality of a set of pairs and sorting counts predecessors
  (`Collections`), so that adding one element is a fact about cardinalities.

About `Ranking` (any chunks, queries, limits within the bounds above), in
`RetrievalProofs`:

* `FusionKeepsOrder` and `RulesComeFirst`. `RankInv` says that the heap holds the best
  of the vectors offered (`HeapOf`), that what was found is the fusion of both lists
  (`FoundIs`), that rules lead the hits (`Offered`), and that a hit passed over did
  not fit beside what is ahead of it (`Picked`). `LexicalScores` and `VectorScores`
  say what a list contributes to a score; `Farther` that the contributions of two
  ranks below 1000 differ by at least the precision, and `FoundScore` and
  `RuleScore` give the intervals of scores, which are disjoint: that is why rules
  lead. The bound on `topK` is needed there: for lists of one kind that are longer
  than about 158, the last rule would score below the first of them.

The assumptions are the named `ASSUME`s of the modules: bounds are naturals;
`Text`, `LinksTo`, `Tree` and the other tables are functions into their sets;
placeholders are not values; sets of chunks, documents and links are finite; a
commit's parents come before it and clocks are positive; match lists have no
duplicates and matches of all terms match any; being alike is symmetric; the blocks
of a body follow each other and writing a number after a text is injective; the
trees of a base are ones git accepts, stored after those they hold, and no two names
with their slash are at one place in byte order; paths are not empty and do not end
in `/`. For `Ranking` they include the bounds above.

Only model-checked is liveness (`Converges`, `FollowsTheRemote`,
`PullRequestsAreSettled`, `LandedIsSettled`), which is out of the prover's reach.
Of the first two the prover has the safety half, what a completed run leaves
(`CompletedRunSettles`, `CompletedRunFollows`); that runs complete is TLC's part.
So is induction over data; here it is not needed: a loop or recursion whose order
matters is a step of its module, so that the induction is the one along the
behaviour; a minimum exists by the well-foundedness of `<`; closure is an
intersection; sums and sorting are cardinalities.

## Simplifications

* SQLite statements and transactions are atomic and one process uses the
  database; two processes on one file are out of scope.
* Hash functions are injective.
* In `IndexRun`, embeddings are on, a document is one chunk and revisions never
  repeat; `PublishedIsOneCheckout` and `LinksExactAfterChange` compare stored
  contents and do not use that.
* The modules that see a run as writes between their steps allow more than
  runs do: any content, in any order.
* `Proposals` has one document and no force push of the followed branch, which
  `GitCheckout` has.
* Retrieval scores, FTS query syntax, Markdown and front matter are given, not
  computed: a query comes with its matches, a body as headings and sized blocks.
* Gauges, histograms and the Prometheus text follow from counters and are left
  out.

## Not modelled

Embedders (floating-point inference and an HTTP client), the tokenizer (a
table), configuration and commands (no state that changes after start-up),
evaluation, benchmarks, scaffold and sample (offline), JSON and HTML. Opening
the store and its migrations run once. Of the HTTP and MCP servers the handlers
that only read, authentication and webhook decoding are left out; a webhook
starts a run like the ticker. `Open`, `OpenBare` and `Dirs` of `gitsync` prepare
a clone before anything else runs. Coverage and the drift and document lists of
the dashboard are queries without a hazard of their own.

## Plan

Done: the run at its four magnifications, the request side, proposals with their
refinement, counters, and the pure parts against reference definitions; proofs of
every safety property a run checks, and of the refinement.

Next, in this order:

1. An abstract cache, a function from keys to at most one bundle, that the LRU
   and the table implement by a refinement mapping; an abstract index, whose
   state is the last whole checkout, that `IndexRun` implements through `pub`.
2. `Coverage` of the dashboard, and the evaluation's metrics as operators.
