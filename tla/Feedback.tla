------------------------------- MODULE Feedback -------------------------------
(***************************************************************************)
(* From a question to a knowledge gap: compile_bundle answers and logs it, *)
(* report_usage says which sections helped, Gaps lists what was not        *)
(* answered (internal/mcpserver, internal/httpapi, store/querylog.go).     *)
(*                                                                         *)
(* There is one question.  A bundle's id is a hash of its cache key, so    *)
(* here an id is the fingerprint the key was computed with: two bundles    *)
(* compiled under one key have one id, and PutBundle keeps the first.      *)
(* A bundle is the set of its chunks; which ones a search beside an index  *)
(* run finds is arbitrary (BundleCompiler has the details).                *)
(***************************************************************************)
EXTENDS Naturals, FiniteSets

CONSTANTS
    Calls,        \* calls of compile_bundle, each with at most one report
    Prints,       \* index fingerprints
    Chunks,       \* chunks of the index
    NoEntry,      \* no entry
    MaxRuns       \* bound: index runs and invalidations

ASSUME FeedbackAssumption ==
    /\ NoEntry \notin Chunks /\ \A found \in SUBSET Chunks : NoEntry # found
    /\ IsFiniteSet(Chunks)
    /\ Prints # {} /\ MaxRuns \in Nat

VARIABLES
    print,      \* the published fingerprint
    memory,     \* Compiler.lru, by id
    bundles,    \* the bundles table, by id
    calls,      \* each call: its next step, its bundle's id and sections
    log,        \* query_log: the bundle and the number of results
    events,     \* usage_events
    dropPc,     \* what is being dropped: "idle", "prune", "rows"
    runs,       \* index runs and invalidations so far
    reports,    \* auxiliary: reports accepted, with what was shown and judged
    dropped,    \* auxiliary: calls since whose start bundles were dropped
    past,       \* auxiliary: fingerprints that were replaced
    recurred,   \* auxiliary: one of them was published again
    halfway     \* auxiliary: rows were dropped beside a request on its way to memory

cachedVars  == <<memory, bundles>>
loggedVars  == <<log, events, reports>>
changeVars  == <<print, dropPc, runs, dropped, past, recurred, halfway>>
feedbackVars == <<cachedVars, loggedVars, changeVars, calls>>

Asking == [pc |-> "ask", id |-> NoEntry, shown |-> {}]
Empty  == [f \in Prints |-> NoEntry]

FeedbackInit ==
    /\ print = CHOOSE f \in Prints : TRUE
    /\ memory = Empty /\ bundles = Empty
    /\ calls = [c \in Calls |-> Asking]
    /\ log = {} /\ events = {} /\ reports = {}
    /\ dropPc = "idle" /\ runs = 0 /\ dropped = {} /\ past = {} /\ recurred = FALSE /\ halfway = FALSE

-----------------------------------------------------------------------------
(* compile_bundle: memory, row, or a compilation that is stored and        *)
(* remembered; then the query log.                                         *)

Go(c, pc)  == calls' = [calls EXCEPT ![c].pc = pc]
Show(c, b) == calls' = [calls EXCEPT ![c] = [pc |-> "log", id |-> print, shown |-> b]]

AnswerWithoutId(c) ==
    /\ calls[c].pc = "ask" /\ memory[print] # NoEntry
    /\ calls' = [calls EXCEPT ![c].pc = "log", ![c].shown = memory[print]]
    /\ UNCHANGED <<cachedVars, loggedVars, changeVars>>
AnswerFromMemory(c) ==
    /\ calls[c].pc = "ask" /\ memory[print] # NoEntry
    /\ Show(c, memory[print])
    /\ UNCHANGED <<cachedVars, loggedVars, changeVars>>

AnswerFromRow(c) ==
    /\ calls[c].pc = "ask" /\ memory[print] = NoEntry /\ bundles[print] # NoEntry
    /\ calls' = [calls EXCEPT ![c] = [pc |-> "remember", id |-> print, shown |-> bundles[print]]]
    /\ UNCHANGED <<cachedVars, loggedVars, changeVars>>

SearchSections(c, found) ==
    /\ calls[c].pc = "ask" /\ memory[print] = NoEntry /\ bundles[print] = NoEntry
    /\ calls' = [calls EXCEPT ![c] = [pc |-> "put", id |-> print, shown |-> found]]
    /\ UNCHANGED <<cachedVars, loggedVars, changeVars>>

StoreNonEmpty(c) ==
    /\ calls[c].pc = "put" /\ Go(c, "remember")
    /\ bundles' = [bundles EXCEPT ![calls[c].id] =
                     IF @ = NoEntry /\ calls[c].shown # {} THEN calls[c].shown ELSE @]
    /\ UNCHANGED <<memory, loggedVars, changeVars>>
StoreBundle(c) ==
    /\ calls[c].pc = "put" /\ Go(c, "remember")
    /\ bundles' = [bundles EXCEPT ![calls[c].id] = IF @ = NoEntry THEN calls[c].shown ELSE @]
    /\ UNCHANGED <<memory, loggedVars, changeVars>>

RememberBundle(c) ==
    /\ calls[c].pc = "remember" /\ Go(c, "log")
    /\ memory' = [memory EXCEPT ![calls[c].id] = calls[c].shown]
    /\ UNCHANGED <<bundles, loggedVars, changeVars>>

LogQuery(c) ==
    /\ calls[c].pc = "log" /\ Go(c, "answered")
    /\ log' = log \union {[id |-> calls[c].id, results |-> Cardinality(calls[c].shown)]}
    /\ UNCHANGED <<cachedVars, events, reports, changeVars>>

(* A record that cannot be written, or the query log is off.               *)
NotLogged(c) ==
    /\ calls[c].pc = "log" /\ Go(c, "answered")
    /\ UNCHANGED <<cachedVars, loggedVars, changeVars>>

-----------------------------------------------------------------------------
(* report_usage and POST /api/usage: the sections of the stored bundle are *)
(* judged by the chunk ids the client names.                               *)

UsageOfNamed(id, useful) == {[id |-> id, chunk |-> k, useful |-> TRUE] : k \in useful}
Usage(id, useful) == {[id |-> id, chunk |-> k, useful |-> k \in useful] : k \in bundles[id]}

ReportUsage(c, useful) ==
    /\ calls[c].pc = "answered" /\ useful \subseteq calls[c].shown
    /\ bundles[calls[c].id] # NoEntry /\ Go(c, "reported")
    /\ events' = events \union Usage(calls[c].id, useful)
    /\ reports' = reports \union {[id |-> calls[c].id, useful |-> useful,
                                   shown |-> calls[c].shown, judged |-> bundles[calls[c].id]]}
    /\ UNCHANGED <<cachedVars, log, changeVars>>

BundleNotFound(c) ==
    /\ calls[c].pc = "answered" /\ bundles[calls[c].id] = NoEntry /\ Go(c, "refused")
    /\ UNCHANGED <<cachedVars, loggedVars, changeVars>>

-----------------------------------------------------------------------------
(* What drops bundles: a run that publishes another fingerprint and then   *)
(* prunes the table, Invalidate, which empties memory and then the table,  *)
(* and a restart, which keeps the table.                                   *)

BeginDropping(next) == /\ dropPc = "idle" /\ dropPc' = next
                       /\ runs < MaxRuns /\ runs' = runs + 1

DropRows(kept) ==
    /\ dropPc' = "idle"
    /\ bundles' = [f \in Prints |-> IF f \in kept THEN bundles[f] ELSE NoEntry]
    /\ dropped' = {c \in Calls : calls[c].pc # "ask"}
    /\ halfway' = \/ halfway \/ \E c \in Calls : calls[c].pc = "remember"
                  \/ print \notin kept /\ memory[print] # NoEntry
    /\ UNCHANGED <<memory, print, runs, past, recurred, loggedVars, calls>>

PublishPrint(f) ==
    /\ BeginDropping("prune")
    /\ f # print /\ print' = f
    /\ past' = past \union {print}
    /\ recurred' = (recurred \/ f \in past)
    /\ UNCHANGED <<cachedVars, dropped, halfway, loggedVars, calls>>

PruneRows == dropPc = "prune" /\ DropRows({print})

ForgetBundles ==
    /\ BeginDropping("rows")
    /\ memory' = Empty
    /\ UNCHANGED <<bundles, print, dropped, past, recurred, halfway, loggedVars, calls>>

DeleteRows == dropPc = "rows" /\ DropRows({})

(* The statement fails, which ends the run or the invalidation.            *)
NotDropped ==
    /\ dropPc # "idle" /\ dropPc' = "idle"
    /\ UNCHANGED <<cachedVars, print, runs, dropped, past, recurred, halfway, loggedVars, calls>>

UnderWay == {c \in Calls : calls[c].pc \in {"put", "remember", "log"}}
RestartServing ==
    /\ memory # Empty \/ dropPc # "idle"
    /\ memory' = Empty /\ dropPc' = "idle"
    /\ calls' = [c \in Calls |-> IF c \in UnderWay THEN Asking ELSE calls[c]]
    /\ dropped' = dropped \ UnderWay
    /\ UNCHANGED <<bundles, loggedVars, print, runs, past, recurred, halfway>>

FeedbackNext ==
    \/ \E c \in Calls :
         \/ AnswerFromMemory(c) \/ AnswerFromRow(c)
         \/ \E found \in SUBSET Chunks : SearchSections(c, found) \/ ReportUsage(c, found)
         \/ StoreBundle(c) \/ RememberBundle(c) \/ LogQuery(c) \/ NotLogged(c)
         \/ BundleNotFound(c)
    \/ \E f \in Prints : PublishPrint(f)
    \/ PruneRows \/ ForgetBundles \/ DeleteRows \/ NotDropped \/ RestartServing

FeedbackSpec == FeedbackInit /\ [][FeedbackNext]_feedbackVars

-----------------------------------------------------------------------------
(* Gaps: nothing was found, or there is feedback and none of it useful.    *)
IsGap(q) ==
    \/ q.results = 0
    \/ /\ \E e \in events : e.id = q.id
       /\ ~\E e \in events : e.id = q.id /\ e.useful

(* Every variable keeps its range; an answered call's bundle has an id.    *)
FeedbackTypeOK ==
    /\ print \in Prints /\ past \subseteq Prints /\ dropped \subseteq Calls
    /\ dropPc \in {"idle", "prune", "rows"}
    /\ \A f \in Prints : /\ memory[f] = NoEntry \/ memory[f] \subseteq Chunks
                         /\ bundles[f] = NoEntry \/ bundles[f] \subseteq Chunks
    /\ \A c \in Calls :
         /\ calls[c].pc \in {"ask", "put", "remember", "log", "answered", "reported", "refused"}
         /\ calls[c].shown \subseteq Chunks
         /\ calls[c].pc # "ask" => calls[c].id \in Prints
    /\ log \subseteq [id : Prints, results : 0 .. Cardinality(Chunks)]
    /\ events \subseteq [id : Prints, chunk : Chunks, useful : BOOLEAN]

(* A logged question that found something is listed as a gap exactly when  *)
(* agents reported on its bundle and none named a section, as long as each *)
(* report was judged by the sections its agent was shown: one id can stand *)
(* for two bundles, in memory and in the table (querylog.go:99-103,        *)
(* mcpserver/server.go:339-353).                                           *)
GapsFollowReports ==
    \A q \in log :
        LET mine == {r \in reports : r.id = q.id}
        IN  q.results > 0 /\ (\A r \in mine : r.shown = r.judged /\ r.judged # {})
              => (IsGap(q) <=> mine # {} /\ \A r \in mine : r.useful = {})

(* "bundles are dropped when the knowledge changes"                        *)
(* (mcpserver/server.go:341): feedback is refused only if bundles were     *)
(* dropped after the call began, or memory answered with a bundle that has *)
(* no row: an earlier fingerprint came back after its rows were pruned, or *)
(* rows were dropped beside a request between its row and its lruPut, or   *)
(* after one that read a row while memory was empty already.               *)
RefusedNeedsAChange ==
    \A c \in Calls : calls[c].pc = "refused" => c \in dropped \/ recurred \/ halfway
=============================================================================
