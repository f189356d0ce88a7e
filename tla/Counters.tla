------------------------------- MODULE Counters -------------------------------
(***************************************************************************)
(* The dashboard's counters (internal/metrics) and how a process keeps     *)
(* them: requests are counted in a registry with two rings, a set of       *)
(* recently served documents has a lock of its own, a ticker and the end   *)
(* of the process save an export, a start restores it, and the dashboard   *)
(* resets both.  A request is its number; its latency sample is that       *)
(* number too.  count stands for every plain counter.                      *)
(***************************************************************************)
EXTENDS Naturals, Sequences, FiniteSets, SequencesExt

CONSTANTS
    Documents,     \* documents requests are answered with
    Answer,        \* Answer[n], the document request n is answered with
    ViaRest,       \* requests that come through the REST API
    RecentSize,    \* recentSize
    SamplesSize,   \* samplesSize
    ServedMax,     \* servedMax
    NoState,       \* nothing is saved
    MaxRequests,   \* bound: requests
    MaxResets,     \* bound: resets
    MaxStops       \* bound: ends of the process, failed writes

Times == 0 .. MaxRequests

(* What is saved of the counters, with the auxiliary histories.            *)
Saved == [count : Nat, recent : Seq(Times), samples : Seq(Times), served : [Documents -> Times],
          hist : Seq(Times), lately : [Documents -> Times]]

ASSUME CountersAssumption ==
    /\ IsFiniteSet(Documents) /\ NoState \notin Saved
    /\ RecentSize \in Nat \ {0} /\ SamplesSize \in Nat \ {0} /\ ServedMax \in Nat \ {0}
    /\ ViaRest \subseteq 1 .. MaxRequests
    /\ Answer \in [1 .. MaxRequests -> Documents]
    /\ MaxRequests \in Nat /\ MaxResets \in Nat /\ MaxStops \in Nat

Savers == {"ticker", "final"}
Running == {"up", "ending", "closing"}

VARIABLES
    process,     \* "up", "ending" (context cancelled), "closing" (saved),
                 \* "closed", "crashed"
    requests,    \* requests begun, the clock of this module
    pending,     \* the request being recorded, or 0
    count,       \* series.count
    recent, recentAt, nRecent,   \* the ring of recent requests
    samples, sampleI,            \* the ring of latency samples
    served,      \* servedSet.docs: when each document was last served, or 0
    dayAgo,      \* requests up to this one are older than servedWindow
    app,         \* app_state: the saved counters
    save,        \* each saver: where it is and what it exported
    resetPc,     \* next step of OnResetStats
    resets, stops,   \* resets and ends of the process so far
    hist,        \* auxiliary: the requests counted in this registry
    lately,      \* auxiliary: when each document was last served, unpruned
    restored,    \* auxiliary: requests counted since the counters were restored
    resetAt,     \* auxiliary: requests counted or begun before the last reset
    mixed,       \* auxiliary: a save or reset began while another was going on
    cancelled    \* auxiliary: requests counted when the context was cancelled

registry    == <<count, recent, recentAt, nRecent, samples, sampleI, hist, restored>>
servedVars  == <<served, lately>>
requestVars == <<requests, pending, dayAgo>>
saveVars    == <<app, save>>
resetVars   == <<resetPc, resets, resetAt>>
ghosts      == <<mixed, cancelled>>
counterVars == <<process, registry, servedVars, requestVars, saveVars, resetVars, stops, ghosts>>

Idle   == [pc |-> "idle", data |-> NoState]
Never  == [d \in Documents |-> 0]
Nothing == [i \in 0 .. RecentSize - 1 |-> 0]

(* Snapshot's recent list, newest first; Export writes it oldest first.    *)
RecentList == [i \in 1 .. nRecent |-> recent[(recentAt + RecentSize - i) % RecentSize]]

Latest(s, n) == SubSeq(s, IF Len(s) > n THEN Len(s) - n + 1 ELSE 1, Len(s))

(* RecentlyServed: what is in the window.                                  *)
InWindow(m) == [d \in Documents |-> IF m[d] > dayAgo THEN m[d] ELSE 0]
ServedDocs(m) == {d \in Documents : m[d] > 0}

(* pruneLocked: documents out of the window go first, then the oldest.     *)
KeepNewest(m) == [d \in Documents |->
    IF Cardinality({e \in Documents : m[e] > m[d]}) < ServedMax THEN m[d] ELSE 0]
PruneWindowOnly(m) == IF Cardinality(ServedDocs(m)) <= ServedMax THEN m ELSE InWindow(m)
PruneLocked(m) == IF Cardinality(ServedDocs(m)) <= ServedMax THEN m
                  ELSE KeepNewest(InWindow(m))

CountersInit ==
    /\ process = "up"
    /\ requests = 0 /\ pending = 0 /\ dayAgo = 0
    /\ count = 0 /\ samples = <<>> /\ sampleI = 0
    /\ recent = Nothing /\ recentAt = 0 /\ nRecent = 0
    /\ served = Never /\ lately = Never
    /\ app = NoState
    /\ save = [s \in Savers |-> Idle]
    /\ resetPc = "idle" /\ resets = 0 /\ stops = 0
    /\ hist = <<>> /\ restored = 0 /\ resetAt = 0 /\ mixed = FALSE /\ cancelled = 0

-----------------------------------------------------------------------------
(* A request is recorded twice: an MCP tool records the documents it hands *)
(* out and the request when it returns, a REST handler the request first.  *)

AfterUnwrapped(i, size) == i + 1
After(i, size) == (i + 1) % size

Begin == /\ process \in Running /\ pending = 0 /\ requests < MaxRequests
         /\ requests' = requests + 1 /\ pending' = requests'
End   == /\ process \in Running /\ pending # 0 /\ pending' = 0
         /\ UNCHANGED requests

RecordServed(n) ==
    /\ served' = PruneLocked([served EXCEPT ![Answer[n]] = n])
    /\ lately' = [lately EXCEPT ![Answer[n]] = n]
    /\ UNCHANGED registry

Record(n) ==
    /\ count' = count + 1
    /\ IF Len(samples) < SamplesSize
         THEN samples' = Append(samples, n) /\ UNCHANGED sampleI
         ELSE /\ samples' = [samples EXCEPT ![sampleI + 1] = n]
              /\ sampleI' = After(sampleI, SamplesSize)
    /\ recent' = [recent EXCEPT ![recentAt] = n]
    /\ recentAt' = After(recentAt, RecentSize)
    /\ nRecent' = IF nRecent < RecentSize THEN nRecent + 1 ELSE nRecent
    /\ hist' = Append(hist, n) /\ restored' = restored + 1
    /\ UNCHANGED servedVars

Others == <<process, dayAgo, saveVars, resetVars, stops, ghosts>>
ToolServes  == Begin /\ requests' \notin ViaRest /\ RecordServed(requests') /\ UNCHANGED Others
ToolReturns == End /\ pending \notin ViaRest /\ Record(pending) /\ UNCHANGED Others
RestRecords == Begin /\ requests' \in ViaRest /\ Record(requests') /\ UNCHANGED Others
RestServes  == End /\ pending \in ViaRest /\ RecordServed(pending) /\ UNCHANGED Others

DayPasses ==   \* bound: one day
    /\ dayAgo = 0 /\ requests > 0 /\ pending = 0
    /\ dayAgo' = requests
    /\ UNCHANGED <<process, registry, servedVars, requests, pending, saveVars, resetVars, stops,
                   ghosts>>

-----------------------------------------------------------------------------
(* saveCounters: Export takes the registry's lock, then the served set's,  *)
(* then SetState writes.  The ticker's runs until the context is cancelled *)
(* (a save under way goes on), the last one when run returns.              *)

Quiet == resetPc = "idle" /\ \A s \in Savers : save[s].pc = "idle"

NewestFirst == RecentList
OldestFirst == Reverse(RecentList)

ExportRegistry(s) ==
    /\ save[s].pc = "idle"
    /\ process = IF s = "ticker" THEN "up" ELSE "ending"
    /\ save' = [save EXCEPT ![s] = [pc |-> "served", data |->
                 [count |-> count, recent |-> OldestFirst, samples |-> samples,
                  served |-> Never, hist |-> hist, lately |-> Never]]]
    /\ mixed' = (mixed \/ ~Quiet)
    /\ UNCHANGED <<process, registry, servedVars, requestVars, app, resetVars, stops, cancelled>>

ExportServed(s) ==
    /\ save[s].pc = "served"
    /\ save' = [save EXCEPT ![s] = [pc |-> "write", data |->
                 [save[s].data EXCEPT !.served = InWindow(served), !.lately = lately]]]
    /\ UNCHANGED <<process, registry, servedVars, requestVars, app, resetVars, stops, ghosts>>

(* SetState replaces the row; an error is logged and the save is over.     *)
SetNewState(s) ==
    /\ save[s].pc = "write"
    /\ app' = IF app = NoState THEN save[s].data ELSE app
    /\ save' = [save EXCEPT ![s] = Idle]
    /\ process' = IF s = "final" THEN "closing" ELSE process
    /\ UNCHANGED <<registry, servedVars, requestVars, resetVars, stops, ghosts>>
SetState(s) ==
    /\ save[s].pc = "write"
    /\ app' = save[s].data
    /\ save' = [save EXCEPT ![s] = Idle]
    /\ process' = IF s = "final" THEN "closing" ELSE process
    /\ UNCHANGED <<registry, servedVars, requestVars, resetVars, stops, ghosts>>

SetStateFails(s) ==
    /\ stops < MaxStops /\ stops' = stops + 1
    /\ save[s].pc = "write"
    /\ save' = [save EXCEPT ![s] = Idle]
    /\ process' = IF s = "final" THEN "closing" ELSE process
    /\ cancelled' = IF s = "final" THEN 0 ELSE cancelled
    /\ UNCHANGED <<registry, servedVars, requestVars, app, resetVars, mixed>>

-----------------------------------------------------------------------------
(* OnResetStats: Reset takes one lock, then the other; DeleteState follows.*)

ClearRegistry ==
    /\ count' = 0 /\ samples' = <<>> /\ sampleI' = 0
    /\ recent' = Nothing /\ recentAt' = 0 /\ nRecent' = 0
    /\ hist' = <<>>

ResetRegistry ==
    /\ process \in Running /\ resetPc = "idle" /\ resets < MaxResets
    /\ ClearRegistry /\ restored' = 0
    /\ resets' = resets + 1 /\ resetPc' = "served"
    /\ resetAt' = IF pending = 0 THEN requests ELSE pending - 1
    /\ mixed' = ~Quiet /\ cancelled' = 0
    /\ UNCHANGED <<process, servedVars, requestVars, saveVars, stops>>

ResetServed ==
    /\ resetPc = "served" /\ resetPc' = "delete"
    /\ served' = Never /\ lately' = Never
    /\ UNCHANGED <<process, registry, requestVars, saveVars, resets, resetAt, stops, ghosts>>

KeepState ==
    /\ resetPc = "delete" /\ resetPc' = "idle"
    /\ UNCHANGED <<process, registry, servedVars, requestVars, saveVars, resets, resetAt, stops,
                   ghosts>>
DeleteState ==
    /\ resetPc = "delete" /\ resetPc' = "idle"
    /\ app' = NoState
    /\ UNCHANGED <<process, registry, servedVars, requestVars, save, resets, resetAt, stops,
                   ghosts>>

(* The caller is told that the saved copy is still there.                  *)
DeleteFails ==
    /\ stops < MaxStops /\ stops' = stops + 1
    /\ resetPc = "delete" /\ resetPc' = "idle"
    /\ resetAt' = 0
    /\ UNCHANGED <<process, registry, servedVars, requestVars, saveVars, resets, ghosts>>

-----------------------------------------------------------------------------
(* The end of a process and the start of the next.                         *)

Cancel ==
    /\ process = "up" /\ process' = "ending"
    /\ stops < MaxStops /\ stops' = stops + 1
    /\ cancelled' = count
    /\ UNCHANGED <<registry, servedVars, requestVars, saveVars, resetVars, mixed>>

Ended == /\ save' = [s \in Savers |-> Idle]
         /\ resetPc' = "idle"
         /\ resetAt' = IF resetPc = "idle" THEN resetAt ELSE 0
         /\ pending' = 0

Close ==
    /\ process = "closing" /\ process' = "closed"
    /\ Ended
    /\ UNCHANGED <<registry, servedVars, requests, dayAgo, app, resets, stops, ghosts>>

Crash ==
    /\ process \in Running /\ process' = "crashed"
    /\ stops < MaxStops /\ stops' = stops + 1
    /\ Ended
    /\ ClearRegistry /\ restored' = 0 /\ served' = Never /\ lately' = Never
    /\ UNCHANGED <<requests, dayAgo, app, resets, ghosts>>

(* New, then restoreCounters: the recent list is replayed into the ring,   *)
(* the samples are taken as they were stored, without sampleI.             *)
RestoreCounters ==
    /\ process \in {"closed", "crashed"} /\ process' = "up"
    /\ restored' = 0
    /\ IF app = NoState
         THEN ClearRegistry /\ served' = Never /\ lately' = Never
         ELSE /\ count' = app.count /\ samples' = app.samples /\ sampleI' = 0
              /\ recent' = [i \in DOMAIN recent |->
                              IF i < Len(app.recent) THEN app.recent[i + 1] ELSE 0]
              /\ nRecent' = Len(app.recent) /\ recentAt' = nRecent' % RecentSize
              /\ served' = app.served /\ lately' = app.lately /\ hist' = app.hist
    /\ UNCHANGED <<requestVars, saveVars, resetVars, stops, ghosts>>

CountersNext ==
    \/ ToolServes \/ ToolReturns \/ RestRecords \/ RestServes
    \/ DayPasses
    \/ \E s \in Savers : ExportRegistry(s) \/ ExportServed(s) \/ SetState(s) \/ SetStateFails(s)
    \/ ResetRegistry \/ ResetServed \/ DeleteState \/ DeleteFails
    \/ Cancel \/ Close \/ Crash \/ RestoreCounters

CountersSpec == CountersInit /\ [][CountersNext]_counterVars

-----------------------------------------------------------------------------
(* Every variable keeps its range; no request is lost between the two      *)
(* counters of a ring and the requests it holds (metrics.go:146-157).      *)
CountersTypeOK ==
    /\ process \in Running \union {"closed", "crashed"}
    /\ requests \in Times /\ pending \in Times /\ dayAgo \in Times
    /\ count \in Nat /\ samples \in Seq(Times) /\ Len(samples) <= SamplesSize
    /\ recent \in [0 .. RecentSize - 1 -> Times]
    /\ recentAt \in 0 .. RecentSize - 1 /\ sampleI \in 0 .. SamplesSize - 1
    /\ nRecent \in 0 .. RecentSize /\ (nRecent < RecentSize => recentAt = nRecent)
    /\ served \in [Documents -> Times] /\ lately \in [Documents -> Times]
    /\ app \in {NoState} \union Saved
    /\ \A s \in Savers : /\ save[s].pc \in {"idle", "served", "write"}
                         /\ save[s].data \in {NoState} \union Saved
    /\ resetPc \in {"idle", "served", "delete"}

(* Through wraps, restores and resets the recent list is the latest        *)
(* requests counted, newest first, and the counters count them all; the    *)
(* samples are the latest ones too, except while a ring that was saved     *)
(* after it wrapped is refilled: Import does not know its oldest entry     *)
(* (metrics.go:148-153, persist.go:85-89).                                 *)
RingsHoldTheLatest ==
    process \in Running =>
        /\ count = Len(hist)
        /\ RecentList = Reverse(Latest(hist, RecentSize))
        /\ Len(hist) <= SamplesSize \/ restored = Len(hist) \/ restored >= SamplesSize
             => ToSet(samples) = ToSet(Latest(hist, SamplesSize))

(* The served set stays bounded, and a document that is missing from it    *)
(* although it was served within the day gave way to servedMax documents   *)
(* served after it (served.go:58-81).                                      *)
ServedAreTheLatest ==
    /\ Cardinality(ServedDocs(served)) <= ServedMax
    /\ \A d \in ServedDocs(InWindow(lately)) :
          \/ served[d] = lately[d]
          \/ served[d] = 0 /\ Cardinality({e \in Documents : lately[e] > lately[d]}) >= ServedMax

(* Once a reset was acknowledged no counter, saved or not, knows a request *)
(* that was over before it, after any restart, unless a save overlapped    *)
(* the reset or another save (serve.go:100-103, 302-312).                  *)
ResetStaysReset ==
    Quiet /\ ~mixed /\ process \in Running =>
        \A t \in 1 .. resetAt :
            /\ t \notin ToSet(hist) /\ \A d \in Documents : served[d] # t
            /\ app # NoState => t \notin ToSet(app.hist) /\ \A d \in Documents : app.served[d] # t

(* A process that ends in order leaves every request counted until then in *)
(* the saved copy, unless a ticker's save overlapped the last one or the   *)
(* last write failed (serve.go:77-79, 302-312).                          *)
CleanStopKeepsCounters ==
    process = "closed" /\ ~mixed /\ cancelled > 0 =>
        /\ app # NoState
        /\ app.count >= cancelled /\ IsPrefix(app.hist, hist)
=============================================================================
