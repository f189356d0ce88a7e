---------------------------- MODULE RequestsProofs ----------------------------
(***************************************************************************)
(* What the server learns from its callers.  Feedback on bundles, for any  *)
(* number of calls, fingerprints, chunks and index runs: gaps follow the   *)
(* reports, and feedback is refused only for the reasons listed.  Cached   *)
(* link suggestions, for any number of requests, pairs and contents: a     *)
(* dismissed suggestion is in no kept list, and a kept list is what a new  *)
(* computation would give.  The counters, for any documents, answers and   *)
(* sizes of the rings: what they hold, save, restore and reset.            *)
(***************************************************************************)
EXTENDS Feedback, Suggestions, Counters, CollectionsProofs, FunctionTheorems,
        FiniteSetTheorems, SequenceTheorems, TLAPS

-----------------------------------------------------------------------------
(* Feedback.                                                               *)

Entries == {NoEntry} \union SUBSET Chunks
Judging == [id : Prints, useful : SUBSET Chunks, shown : SUBSET Chunks, judged : SUBSET Chunks]

FeedbackRanges ==
    /\ print \in Prints /\ past \subseteq Prints /\ dropped \subseteq Calls
    /\ dropPc \in {"idle", "prune", "rows"}
    /\ memory \in [Prints -> Entries] /\ bundles \in [Prints -> Entries]
    /\ calls \in [Calls ->
         [pc : {"ask", "put", "remember", "log", "answered", "reported", "refused"},
          id : Prints \union {NoEntry}, shown : SUBSET Chunks]]
    /\ \A c \in Calls : calls[c].pc # "ask" => calls[c].id \in Prints

Logged ==
    /\ log \subseteq [id : Prints, results : 0 .. Cardinality(Chunks)]
    /\ events \subseteq [id : Prints, chunk : Chunks, useful : BOOLEAN]
    /\ reports \subseteq Judging

(* The events are the sections judged in the reports, and a report names   *)
(* sections its agent was shown.                                           *)
EventsOfReports ==
    /\ \A r \in reports : r.useful \subseteq r.shown
    /\ \A r \in reports : \A k \in r.judged :
         [id |-> r.id, chunk |-> k, useful |-> k \in r.useful] \in events
    /\ \A e \in events : \E r \in reports :
         e.id = r.id /\ e.chunk \in r.judged /\ (e.useful <=> e.chunk \in r.useful)

(* As long as no fingerprint recurred and no rows were dropped half way to *)
(* memory: memory answers with bundles that have rows.                     *)
MemoryHasRows ==
    /\ \A f \in Prints : memory[f] # NoEntry => f \in past \union {print}
    /\ \A c \in Calls : calls[c].pc # "ask" => calls[c].id \in past \union {print}
    /\ ~recurred => print \notin past
    /\ ~recurred /\ ~halfway =>
         /\ memory[print] # NoEntry => bundles[print] # NoEntry
         /\ \A c \in Calls : calls[c].pc = "remember" => bundles[calls[c].id] # NoEntry

(* So does every call that was answered since bundles were last dropped.   *)
AnsweredHaveRows == \A c \in Calls \ dropped : ~recurred /\ ~halfway =>
    /\ calls[c].pc \in {"log", "answered"} => bundles[calls[c].id] # NoEntry
    /\ calls[c].pc # "refused"

FeedbackInv == FeedbackRanges /\ Logged /\ EventsOfReports /\ MemoryHasRows /\ AnsweredHaveRows

LEMMA FeedbackInitInv == FeedbackInit => FeedbackInv
<1> SUFFICES ASSUME FeedbackInit PROVE FeedbackInv
  OBVIOUS
<1> USE FeedbackAssumption DEF FeedbackInit, Asking, Empty
<1>1. print \in Prints
  OBVIOUS
<1>2. FeedbackRanges
  BY <1>1 DEF FeedbackRanges, Entries
<1>3. Logged /\ EventsOfReports
  BY DEF Logged, EventsOfReports
<1>4. MemoryHasRows /\ AnsweredHaveRows
  BY <1>1 DEF MemoryHasRows, AnsweredHaveRows
<1>5. QED
  BY <1>2, <1>3, <1>4 DEF FeedbackInv

(* A bundle has at most as many sections as there are chunks.              *)
LEMMA SectionsAreCounted ==
    ASSUME NEW shown \in SUBSET Chunks PROVE Cardinality(shown) \in 0 .. Cardinality(Chunks)
<1>1. IsFiniteSet(shown) /\ Cardinality(shown) <= Cardinality(Chunks)
  BY FeedbackAssumption, FS_Subset
<1>2. Cardinality(shown) \in Nat /\ Cardinality(Chunks) \in Nat
  BY <1>1, FeedbackAssumption, FS_CardinalityType
<1>3. QED
  BY <1>1, <1>2

(* What is not written stays as it was said.                               *)
LEMMA StillLogged ==
    ASSUME FeedbackInv, UNCHANGED loggedVars PROVE Logged' /\ EventsOfReports'
  BY DEF FeedbackInv, Logged, EventsOfReports, loggedVars

-----------------------------------------------------------------------------
(* The steps of a call.                                                    *)

LEMMA AnswerSteps ==
    ASSUME FeedbackInv, NEW c \in Calls,
           \/ AnswerFromMemory(c) \/ AnswerFromRow(c)
           \/ \E found \in SUBSET Chunks : SearchSections(c, found)
    PROVE  FeedbackInv'
<1> USE FeedbackAssumption DEF FeedbackInv, cachedVars, changeVars
<1>0. print \in Prints /\ Logged' /\ EventsOfReports'
  BY StillLogged DEF FeedbackRanges, AnswerFromMemory, AnswerFromRow, SearchSections
<1>1. CASE AnswerFromMemory(c)
  <2> USE <1>1 DEF AnswerFromMemory, Show
  <2>1. FeedbackRanges'
    BY <1>0 DEF FeedbackRanges, Entries
  <2>2. MemoryHasRows' /\ AnsweredHaveRows'
    BY <1>0 DEF FeedbackRanges, MemoryHasRows, AnsweredHaveRows
  <2>3. QED
    BY <1>0, <2>1, <2>2
<1>2. CASE AnswerFromRow(c)
  <2> USE <1>2 DEF AnswerFromRow
  <2>1. FeedbackRanges'
    BY <1>0 DEF FeedbackRanges, Entries
  <2>2. MemoryHasRows' /\ AnsweredHaveRows'
    BY <1>0 DEF FeedbackRanges, MemoryHasRows, AnsweredHaveRows
  <2>3. QED
    BY <1>0, <2>1, <2>2
<1>3. ASSUME NEW found \in SUBSET Chunks, SearchSections(c, found) PROVE FeedbackInv'
  <2> USE <1>3 DEF SearchSections
  <2>1. FeedbackRanges'
    BY <1>0 DEF FeedbackRanges
  <2>2. MemoryHasRows' /\ AnsweredHaveRows'
    BY <1>0 DEF FeedbackRanges, MemoryHasRows, AnsweredHaveRows
  <2>3. QED
    BY <1>0, <2>1, <2>2
<1>4. QED
  BY <1>1, <1>2, <1>3

LEMMA KeepSteps ==
    ASSUME FeedbackInv, NEW c \in Calls, StoreBundle(c) \/ RememberBundle(c)
    PROVE  FeedbackInv'
<1> USE FeedbackAssumption DEF FeedbackInv, changeVars, Go
<1>0. Logged' /\ EventsOfReports'
  BY StillLogged DEF StoreBundle, RememberBundle
<1>1. CASE StoreBundle(c)
  <2> USE <1>1 DEF StoreBundle
  <2>1. FeedbackRanges'
    BY DEF FeedbackRanges, Entries
  <2>2. /\ \A f \in Prints : bundles[f] # NoEntry => bundles'[f] # NoEntry
        /\ bundles'[calls[c].id] # NoEntry /\ calls'[c].id = calls[c].id
    BY DEF FeedbackRanges, Entries
  <2>3. MemoryHasRows' /\ AnsweredHaveRows'
    BY <2>2 DEF FeedbackRanges, MemoryHasRows, AnsweredHaveRows
  <2>4. QED
    BY <1>0, <2>1, <2>3
<1>2. CASE RememberBundle(c)
  <2> USE <1>2 DEF RememberBundle
  <2>1. FeedbackRanges'
    BY DEF FeedbackRanges, Entries
  <2>2. MemoryHasRows' /\ AnsweredHaveRows'
    BY DEF FeedbackRanges, MemoryHasRows, AnsweredHaveRows
  <2>3. QED
    BY <1>0, <2>1, <2>2
<1>3. QED
  BY <1>1, <1>2

LEMMA LogSteps ==
    ASSUME FeedbackInv, NEW c \in Calls,
           \/ LogQuery(c) \/ NotLogged(c) \/ BundleNotFound(c)
           \/ \E useful \in SUBSET Chunks : ReportUsage(c, useful)
    PROVE  FeedbackInv'
<1> USE DEF FeedbackInv, cachedVars, changeVars, Go
<1>0. calls[c].shown \in SUBSET Chunks
  BY DEF FeedbackRanges
<1>1. CASE LogQuery(c) \/ NotLogged(c)
  <2> USE <1>1 DEF LogQuery, NotLogged, loggedVars
  <2>1. FeedbackRanges' /\ MemoryHasRows' /\ AnsweredHaveRows'
    BY DEF FeedbackRanges, MemoryHasRows, AnsweredHaveRows
  <2>2. Cardinality(calls[c].shown) \in 0 .. Cardinality(Chunks) /\ calls[c].id \in Prints
    BY <1>0, SectionsAreCounted DEF FeedbackRanges
  <2>3. Logged' /\ EventsOfReports'
    BY <2>2 DEF Logged, EventsOfReports
  <2>4. QED
    BY <2>1, <2>3
<1>2. CASE BundleNotFound(c)
  <2> USE <1>2 DEF BundleNotFound
  <2>1. FeedbackRanges' /\ MemoryHasRows' /\ AnsweredHaveRows'
    BY DEF FeedbackRanges, MemoryHasRows, AnsweredHaveRows
  <2>2. QED
    BY <2>1, StillLogged
<1>3. ASSUME NEW useful \in SUBSET Chunks, ReportUsage(c, useful) PROVE FeedbackInv'
  <2> USE <1>3 DEF ReportUsage
  <2>1. FeedbackRanges' /\ MemoryHasRows' /\ AnsweredHaveRows'
    BY DEF FeedbackRanges, MemoryHasRows, AnsweredHaveRows
  <2> DEFINE judged == bundles[calls[c].id]
             mine   == [id |-> calls[c].id, useful |-> useful,
                        shown |-> calls[c].shown, judged |-> judged]
  <2>2. calls[c].id \in Prints /\ judged \in SUBSET Chunks
    BY DEF FeedbackRanges, Entries
  <2>3. /\ events' = events \union {[id |-> calls[c].id, chunk |-> k, useful |-> k \in useful] :
                                      k \in judged}
        /\ reports' = reports \union {mine}
    BY DEF Usage
  <2>4. Logged'
    <3>1. mine \in Judging
      BY <1>0, <2>2 DEF Judging
    <3>2. \A k \in judged : k \in Chunks /\ (k \in useful) \in BOOLEAN
      BY <2>2
    <3>3. events' \subseteq [id : Prints, chunk : Chunks, useful : BOOLEAN]
      <4>1. \A k \in judged : [id |-> calls[c].id, chunk |-> k, useful |-> k \in useful]
                                \in [id : Prints, chunk : Chunks, useful : BOOLEAN]
        BY <2>2, <3>2, Zenon
      <4>2. events \subseteq [id : Prints, chunk : Chunks, useful : BOOLEAN]
        BY DEF Logged
      <4> DEFINE added == {[id |-> calls[c].id, chunk |-> k, useful |-> k \in useful] : k \in judged}
      <4>3. added \subseteq [id : Prints, chunk : Chunks, useful : BOOLEAN]
        BY <4>1, Zenon
      <4>4. events' = events \union added
        BY <2>3
      <4> HIDE DEF judged, added
      <4>5. QED
        BY <4>2, <4>3, <4>4, Zenon
    <3>4. log' = log
      OBVIOUS
    <3> HIDE DEF mine
    <3>5. QED
      BY <2>3, <3>1, <3>3, <3>4 DEF Logged
  <2>5. EventsOfReports'
    <3>1. mine.id = calls[c].id /\ mine.useful = useful /\ mine.judged = judged
          /\ mine.useful \subseteq mine.shown
      OBVIOUS
    <3> HIDE DEF mine, judged
    <3>2. \A r \in reports' : r.useful \subseteq r.shown
      BY <2>3, <3>1 DEF EventsOfReports
    <3>3. \A r \in reports' : \A k \in r.judged :
            [id |-> r.id, chunk |-> k, useful |-> k \in r.useful] \in events'
      <4>1. ASSUME NEW r \in reports, NEW k \in r.judged
            PROVE  [id |-> r.id, chunk |-> k, useful |-> k \in r.useful] \in events'
        BY <2>3 DEF EventsOfReports
      <4>2. ASSUME NEW k \in mine.judged
            PROVE  [id |-> mine.id, chunk |-> k, useful |-> k \in mine.useful] \in events'
        BY <2>3, <3>1, Zenon
      <4>3. QED
        BY <2>3, <4>1, <4>2, Zenon
    <3>4. ASSUME NEW e \in events'
          PROVE  \E r \in reports' :
                   e.id = r.id /\ e.chunk \in r.judged /\ (e.useful <=> e.chunk \in r.useful)
      <4>1. CASE e \in events
        BY <2>3, <4>1 DEF EventsOfReports
      <4>2. CASE e \notin events
        <5>1. PICK k \in judged :
                e = [id |-> calls[c].id, chunk |-> k, useful |-> k \in useful]
          BY <2>3, <4>2
        <5>2. e.id = mine.id /\ e.chunk \in mine.judged
                /\ (e.useful <=> e.chunk \in mine.useful)
          BY <3>1, <5>1
        <5>3. QED
          BY <2>3, <5>2
      <4>3. QED
        BY <4>1, <4>2
    <3>5. QED
      BY <3>2, <3>3, <3>4 DEF EventsOfReports
  <2>6. QED
    BY <2>1, <2>4, <2>5
<1>4. QED
  BY <1>1, <1>2, <1>3

-----------------------------------------------------------------------------
(* What drops bundles.                                                     *)

LEMMA DropSteps ==
    ASSUME FeedbackInv,
           \/ \E f \in Prints : PublishPrint(f)
           \/ PruneRows \/ ForgetBundles \/ DeleteRows \/ NotDropped \/ RestartServing
    PROVE  FeedbackInv'
<1> USE FeedbackAssumption DEF FeedbackInv, cachedVars
<1>0. Logged' /\ EventsOfReports'
  BY StillLogged DEF PublishPrint, PruneRows, ForgetBundles, DeleteRows, NotDropped,
       RestartServing, DropRows
<1>1. ASSUME NEW f \in Prints, PublishPrint(f) PROVE FeedbackInv'
  <2> USE <1>1 DEF PublishPrint, BeginDropping
  <2>1. FeedbackRanges'
    BY DEF FeedbackRanges
  <2>2. MemoryHasRows' /\ AnsweredHaveRows'
    BY DEF FeedbackRanges, MemoryHasRows, AnsweredHaveRows
  <2>3. QED
    BY <1>0, <2>1, <2>2
<1>2. ASSUME NEW kept \in SUBSET Prints, DropRows(kept), kept \in {{}, {print}}
      PROVE  FeedbackInv'
  <2> USE <1>2 DEF DropRows
  <2>1. FeedbackRanges'
    BY DEF FeedbackRanges, Entries
  <2>2. MemoryHasRows'
    BY DEF FeedbackRanges, MemoryHasRows
  <2>3. AnsweredHaveRows'
    BY DEF FeedbackRanges, AnsweredHaveRows
  <2>4. QED
    BY <1>0, <2>1, <2>2, <2>3
<1>3. CASE PruneRows \/ DeleteRows
  BY <1>2, <1>3 DEF PruneRows, DeleteRows, FeedbackRanges
<1>4. CASE ForgetBundles \/ NotDropped
  <2> USE <1>4 DEF ForgetBundles, NotDropped, BeginDropping, Empty
  <2>1. FeedbackRanges'
    BY DEF FeedbackRanges, Entries
  <2>2. MemoryHasRows' /\ AnsweredHaveRows'
    BY DEF FeedbackRanges, MemoryHasRows, AnsweredHaveRows
  <2>3. QED
    BY <1>0, <2>1, <2>2
<1>5. CASE RestartServing
  <2> USE <1>5 DEF RestartServing, UnderWay, Empty, Asking
  <2>1. FeedbackRanges'
    BY DEF FeedbackRanges, Entries
  <2>2. MemoryHasRows' /\ AnsweredHaveRows'
    BY DEF FeedbackRanges, MemoryHasRows, AnsweredHaveRows
  <2>3. QED
    BY <1>0, <2>1, <2>2
<1>6. QED
  BY <1>1, <1>3, <1>4, <1>5

LEMMA FeedbackStepInv == FeedbackInv /\ [FeedbackNext]_feedbackVars => FeedbackInv'
<1> SUFFICES ASSUME FeedbackInv, [FeedbackNext]_feedbackVars PROVE FeedbackInv'
  OBVIOUS
<1>1. CASE FeedbackNext
  BY <1>1, AnswerSteps, KeepSteps, LogSteps, DropSteps DEF FeedbackNext
<1>2. CASE UNCHANGED feedbackVars
  BY <1>2 DEF feedbackVars, cachedVars, loggedVars, changeVars, FeedbackInv, FeedbackRanges, Logged,
       EventsOfReports, MemoryHasRows, AnsweredHaveRows
<1>3. QED
  BY <1>1, <1>2

(* Nothing a call, a run, an invalidation or a restart does breaks the     *)
(* invariant.                                                              *)
THEOREM FeedbackInductive == FeedbackSpec => []FeedbackInv
  BY FeedbackInitInv, FeedbackStepInv, PTL DEF FeedbackSpec

-----------------------------------------------------------------------------
(* Every reachable state is well typed; an answered call's bundle has an   *)
(* id (tools.compileBundle).                                               *)
THEOREM FeedbackTypes == FeedbackSpec => []FeedbackTypeOK
<1>1. FeedbackInv => FeedbackTypeOK
  BY DEF FeedbackInv, FeedbackRanges, Logged, FeedbackTypeOK, Entries
<1>2. QED
  BY <1>1, FeedbackInductive, PTL

(* Gaps lists a question exactly when agents reported and none named a     *)
(* section, as long as reports were judged by what was shown (Store.Gaps). *)
THEOREM GapsAreTheReports == FeedbackSpec => []GapsFollowReports
<1>1. FeedbackInv => GapsFollowReports
  <2> SUFFICES ASSUME FeedbackInv, NEW q \in log, q.results > 0,
                      \A r \in reports : r.id = q.id => r.shown = r.judged /\ r.judged # {}
               PROVE  IsGap(q) <=> /\ \E r \in reports : r.id = q.id
                                   /\ \A r \in reports : r.id = q.id => r.useful = {}
    BY DEF GapsFollowReports
  <2>1. q.results # 0
    BY DEF FeedbackInv, Logged
  <2>2. (\E e \in events : e.id = q.id) <=> \E r \in reports : r.id = q.id
    <3>1. ASSUME NEW r \in reports, r.id = q.id PROVE \E e \in events : e.id = q.id
      <4>1. PICK k \in r.judged : TRUE
        BY <3>1
      <4>2. [id |-> r.id, chunk |-> k, useful |-> k \in r.useful] \in events
        BY DEF FeedbackInv, EventsOfReports
      <4>3. QED
        BY <3>1, <4>2
    <3>2. QED
      BY <3>1 DEF FeedbackInv, EventsOfReports
  <2>3. (\E e \in events : e.id = q.id /\ e.useful)
          <=> \E r \in reports : r.id = q.id /\ r.useful # {}
    <3>1. ASSUME NEW e \in events, e.id = q.id, e.useful
          PROVE  \E r \in reports : r.id = q.id /\ r.useful # {}
      BY <3>1 DEF FeedbackInv, EventsOfReports
    <3>2. ASSUME NEW r \in reports, r.id = q.id, r.useful # {}
          PROVE  \E e \in events : e.id = q.id /\ e.useful
      <4>1. PICK k \in r.useful : TRUE
        BY <3>2
      <4>2. k \in r.judged
        BY <3>2 DEF FeedbackInv, EventsOfReports
      <4>3. [id |-> r.id, chunk |-> k, useful |-> k \in r.useful] \in events
        BY <4>2 DEF FeedbackInv, EventsOfReports
      <4>4. QED
        BY <3>2, <4>3
    <3>3. QED
      BY <3>1, <3>2
  <2>4. QED
    BY <2>1, <2>2, <2>3 DEF IsGap
<1>2. QED
  BY <1>1, FeedbackInductive, PTL

(* Feedback is refused only if bundles were dropped since the call began,  *)
(* a fingerprint came back, or rows went on their way to memory            *)
(* (tools.reportUsage).                                                    *)
THEOREM RefusalsAreExplained == FeedbackSpec => []RefusedNeedsAChange
<1>1. FeedbackInv => RefusedNeedsAChange
  BY DEF FeedbackInv, AnsweredHaveRows, RefusedNeedsAChange
<1>2. QED
  BY <1>1, FeedbackInductive, PTL

-----------------------------------------------------------------------------
(* Suggestions.                                                            *)

Asks == [pc : {"idle", "lock", "links", "ignores", "text", "answer"},
         fp : Contents \union {NoPrint}, pairs : SUBSET Pairs]

SuggestionRanges ==
    /\ tables \in Contents /\ published \in Contents
    /\ had \subseteq Contents
    /\ ignores \subseteq Pairs /\ dismissed \subseteq ignores
    /\ suggestFor \in Contents \union {NoPrint}
    /\ suggested = NoList \/ suggested \subseteq Pairs
    /\ suggestFor # NoPrint => suggested # NoList
    /\ asking \in [Readers -> Asks]
    /\ dismissing \in [pc : {"idle", "forget"}, pair : Pairs \union {NoList}]

(* Whoever is past the lock holds it.                                      *)
Locked == \A r \in Readers : asking[r].pc \notin {"idle", "lock"} <=> suggestMu = r

(* A pair is dismissed from its row on; nobody clears the rows before the  *)
(* list was forgotten.                                                     *)
BeingDismissed ==
    dismissing.pc = "forget" /\ dismissing.pair # NoList => dismissing.pair \in ignores

(* A request that read the dismissed pairs holds the lock a dismissal needs*)
(* before it is answered.                                                  *)
NoneDismissed ==
    /\ suggestFor # NoPrint => suggested \intersect dismissed = {}
    /\ \A r \in Readers : asking[r].pc = "text" => asking[r].pairs \intersect dismissed = {}

(* The contents the index had include every fingerprint anybody still has. *)
Had ==
    /\ tables \in had /\ published \in had
    /\ suggestFor \in had \union {NoPrint}
    /\ \A r \in Readers : asking[r].pc # "idle" => asking[r].fp \in had

(* What was read under the fingerprint of the tables was read from them:   *)
(* the index was there when the fingerprint was read and did not return.   *)
ReadFromTables == ~reverted =>
    /\ \A r \in Readers : asking[r].fp = tables =>
         /\ asking[r].pc = "ignores" => asking[r].pairs = Unlinked[tables]
         /\ asking[r].pc = "text" /\ dismissing.pc = "idle"
              => asking[r].pairs = Unlinked[tables] \ ignores
    /\ suggestFor = tables /\ dismissing.pc = "idle"
         => suggested = (Unlinked[tables] \intersect Mentions[tables]) \ ignores

SuggestionsInv ==
    SuggestionRanges /\ Locked /\ BeingDismissed /\ NoneDismissed /\ Had /\ ReadFromTables

LEMMA SuggestionInitInv == SuggestionsInit => SuggestionsInv
<1> SUFFICES ASSUME SuggestionsInit PROVE SuggestionsInv
  OBVIOUS
<1> USE SuggestionsAssumption DEF SuggestionsInit, NotAsking, NotDismissing
<1>1. published \in Contents
  OBVIOUS
<1>2. SuggestionRanges
  BY <1>1 DEF SuggestionRanges, Asks
<1>3. Locked /\ BeingDismissed /\ NoneDismissed
  BY DEF Locked, BeingDismissed, NoneDismissed
<1>4. Had /\ ReadFromTables
  BY <1>1 DEF Had, ReadFromTables
<1>5. QED
  BY <1>2, <1>3, <1>4 DEF SuggestionsInv

-----------------------------------------------------------------------------
(* The steps of a request.                                                 *)

LEMMA AskingSteps ==
    ASSUME SuggestionsInv, NEW r \in Readers,
           ReadFingerprint(r) \/ Lock(r) \/ QueryLinks(r) \/ QueryIgnores(r) \/ QueryText(r)
             \/ AnswerList(r) \/ QueryFails(r)
    PROVE  SuggestionsInv'
<1> USE SuggestionsAssumption
<1> USE DEF SuggestionsInv, listVars, indexVars, dismissVars
<1>0. /\ asking \in [Readers -> Asks] /\ asking[r] \in Asks
      /\ published \in Contents /\ tables \in Contents
      /\ Unlinked[tables] \subseteq Pairs /\ Mentions[tables] \subseteq Pairs
  BY DEF SuggestionRanges
<1>1. CASE ReadFingerprint(r)
  <2> USE <1>1 DEF ReadFingerprint
  <2>1. SuggestionRanges'
    BY <1>0 DEF SuggestionRanges, Asks
  <2>2. Locked' /\ BeingDismissed' /\ NoneDismissed'
    BY <1>0 DEF Locked, BeingDismissed, NoneDismissed
  <2>3. Had' /\ ReadFromTables'
    BY <1>0 DEF Had, ReadFromTables
  <2>4. QED
    BY <2>1, <2>2, <2>3
<1>2. CASE Lock(r)
  <2> USE <1>2 DEF Lock, Ask
  <2>1. SuggestionRanges'
    BY <1>0 DEF SuggestionRanges, Asks
  <2>2. Locked' /\ BeingDismissed' /\ NoneDismissed'
    BY <1>0 DEF Locked, BeingDismissed, NoneDismissed, Asks
  <2>3. Had' /\ ReadFromTables'
    BY <1>0 DEF Had, ReadFromTables, Asks
  <2>4. QED
    BY <2>1, <2>2, <2>3
<1>3. CASE QueryLinks(r)
  <2> USE <1>3 DEF QueryLinks, Ask
  <2>1. SuggestionRanges'
    BY <1>0 DEF SuggestionRanges, Asks
  <2>2. Locked' /\ BeingDismissed' /\ NoneDismissed'
    BY <1>0 DEF Locked, BeingDismissed, NoneDismissed, Asks
  <2>3. Had' /\ ReadFromTables'
    BY <1>0 DEF Had, ReadFromTables, Asks
  <2>4. QED
    BY <2>1, <2>2, <2>3
<1>4. CASE QueryIgnores(r)
  <2> USE <1>4 DEF QueryIgnores, Ask
  <2>1. SuggestionRanges'
    BY <1>0 DEF SuggestionRanges, Asks
  <2>2. Locked' /\ BeingDismissed' /\ NoneDismissed'
    BY <1>0 DEF Locked, BeingDismissed, NoneDismissed, Asks, SuggestionRanges
  <2>3. Had' /\ ReadFromTables'
    BY <1>0 DEF Had, ReadFromTables, Asks
  <2>4. QED
    BY <2>1, <2>2, <2>3
<1>5. CASE QueryText(r)
  <2> USE <1>5 DEF QueryText, Ask
  <2>1. SuggestionRanges'
    BY <1>0 DEF SuggestionRanges, Asks, Had
  <2>2. Locked' /\ BeingDismissed' /\ NoneDismissed'
    BY <1>0 DEF Locked, BeingDismissed, NoneDismissed, Asks
  <2>3. Had' /\ ReadFromTables'
    BY <1>0 DEF Had, ReadFromTables, Asks
  <2>4. QED
    BY <2>1, <2>2, <2>3
<1>6. CASE AnswerList(r) \/ QueryFails(r)
  <2> USE <1>6 DEF AnswerList, QueryFails, NotAsking
  <2>1. SuggestionRanges'
    BY <1>0 DEF SuggestionRanges, Asks
  <2>2. Locked' /\ BeingDismissed' /\ NoneDismissed'
    BY <1>0 DEF Locked, BeingDismissed, NoneDismissed, Asks
  <2>3. Had' /\ ReadFromTables'
    BY <1>0 DEF Had, ReadFromTables, Asks
  <2>4. QED
    BY <2>1, <2>2, <2>3
<1>7. QED
  BY <1>1, <1>2, <1>3, <1>4, <1>5, <1>6

-----------------------------------------------------------------------------
(* Dismissals.                                                             *)

LEMMA DismissSteps ==
    ASSUME SuggestionsInv,
           (\E p \in Pairs : IgnoreLinkSuggestion(p)) \/ ClearLinkIgnores \/ ForgetList
    PROVE  SuggestionsInv'
<1> USE SuggestionsAssumption
<1> USE DEF SuggestionsInv, listVars, indexVars, dismissVars
<1>1. ASSUME NEW p \in Pairs, IgnoreLinkSuggestion(p) PROVE SuggestionsInv'
  <2> USE <1>1 DEF IgnoreLinkSuggestion
  <2>1. SuggestionRanges'
    BY DEF SuggestionRanges
  <2>2. Locked' /\ BeingDismissed' /\ NoneDismissed'
    BY DEF Locked, BeingDismissed, NoneDismissed
  <2>3. Had' /\ ReadFromTables'
    BY DEF Had, ReadFromTables
  <2>4. QED
    BY <2>1, <2>2, <2>3
<1>2. CASE ClearLinkIgnores
  <2> USE <1>2 DEF ClearLinkIgnores
  <2>1. SuggestionRanges'
    BY DEF SuggestionRanges
  <2>2. Locked' /\ BeingDismissed' /\ NoneDismissed'
    BY DEF Locked, BeingDismissed, NoneDismissed
  <2>3. Had' /\ ReadFromTables'
    BY DEF Had, ReadFromTables
  <2>4. QED
    BY <2>1, <2>2, <2>3
<1>3. CASE ForgetList
  <2> USE <1>3 DEF ForgetList, NotDismissing
  <2>1. \A r \in Readers : asking[r].pc \in {"idle", "lock"}
    BY DEF Locked
  <2>2. SuggestionRanges'
    BY DEF SuggestionRanges, BeingDismissed
  <2>3. Locked' /\ BeingDismissed' /\ NoneDismissed'
    BY <2>1 DEF Locked, BeingDismissed, NoneDismissed
  <2>4. Had' /\ ReadFromTables'
    BY <2>1 DEF Had, ReadFromTables, SuggestionRanges
  <2>5. QED
    BY <2>2, <2>3, <2>4
<1>4. QED
  BY <1>1, <1>2, <1>3

-----------------------------------------------------------------------------
(* Index runs.                                                             *)

LEMMA IndexSteps ==
    ASSUME SuggestionsInv, (\E c \in Contents : Rewrite(c)) \/ Publish
    PROVE  SuggestionsInv'
<1> USE DEF SuggestionsInv, listVars, dismissVars
<1>1. ASSUME NEW c \in Contents, Rewrite(c) PROVE SuggestionsInv'
  <2> USE <1>1 DEF Rewrite
  <2>1. SuggestionRanges'
    BY DEF SuggestionRanges
  <2>2. Locked' /\ BeingDismissed' /\ NoneDismissed'
    BY DEF Locked, BeingDismissed, NoneDismissed
  <2>3. Had'
    BY DEF Had
  <2>4. ReadFromTables'
    <3> SUFFICES ASSUME ~reverted' PROVE ReadFromTables'
      BY DEF ReadFromTables
    <3>1. c \notin had
      OBVIOUS
    <3>2. suggestFor # c
      BY <3>1, SuggestionsAssumption DEF Had
    <3>3. \A r \in Readers : asking[r].pc # "idle" => asking[r].fp # c
      BY <3>1 DEF Had
    <3>4. QED
      BY <3>2, <3>3 DEF ReadFromTables
  <2>5. QED
    BY <2>1, <2>2, <2>3, <2>4
<1>2. CASE Publish
  <2> USE <1>2 DEF Publish
  <2>1. SuggestionRanges' /\ Locked' /\ BeingDismissed' /\ NoneDismissed'
    BY DEF SuggestionRanges, Locked, BeingDismissed, NoneDismissed
  <2>2. Had' /\ ReadFromTables'
    BY DEF Had, ReadFromTables
  <2>3. QED
    BY <2>1, <2>2
<1>3. QED
  BY <1>1, <1>2

LEMMA SuggestionStepInv == SuggestionsInv /\ [SuggestionsNext]_suggestVars => SuggestionsInv'
<1> SUFFICES ASSUME SuggestionsInv, [SuggestionsNext]_suggestVars PROVE SuggestionsInv'
  OBVIOUS
<1>1. CASE SuggestionsNext
  BY <1>1, AskingSteps, DismissSteps, IndexSteps DEF SuggestionsNext
<1>2. CASE UNCHANGED suggestVars
  BY <1>2 DEF suggestVars, listVars, indexVars, dismissVars, SuggestionsInv,
       SuggestionRanges, Locked, BeingDismissed, NoneDismissed, Had, ReadFromTables
<1>3. QED
  BY <1>1, <1>2

(* Nothing a request, a dismissal or a run does breaks the invariant.      *)
THEOREM SuggestionInductive == SuggestionsSpec => []SuggestionsInv
  BY SuggestionInitInv, SuggestionStepInv, PTL DEF SuggestionsSpec

-----------------------------------------------------------------------------
(* Every reachable state is well typed: the lock of linkSuggestions is held*)
(* by exactly the request that is past taking it.                          *)
THEOREM SuggestionTypes == SuggestionsSpec => []SuggestionsTypeOK
<1>1. SuggestionsInv => SuggestionsTypeOK
  BY DEF SuggestionsInv, SuggestionRanges, Locked, SuggestionsTypeOK, Asks
<1>2. QED
  BY <1>1, SuggestionInductive, PTL

(* No kept list shows a pair whose dismissal was answered, whatever the    *)
(* request that stored it had read before (ignoreLinkSuggestion).          *)
THEOREM DismissedStaysGone == SuggestionsSpec => []DismissedIsGone
<1>1. SuggestionsInv => DismissedIsGone
  BY DEF SuggestionsInv, NoneDismissed, DismissedIsGone
<1>2. QED
  BY <1>1, SuggestionInductive, PTL

(* At rest the list kept under the published fingerprint is what           *)
(* SuggestLinks would answer now, unless the index returned to an earlier  *)
(* content (linkSuggestions reads the fingerprint before its lock).        *)
THEOREM KeptListsAreFresh == SuggestionsSpec => []KeptListIsFresh
<1>1. SuggestionsInv => KeptListIsFresh
  BY DEF SuggestionsInv, ReadFromTables, KeptListIsFresh, AtRest, FreshList
<1>2. QED
  BY <1>1, SuggestionInductive, PTL

-----------------------------------------------------------------------------
(* Counters.                                                               *)

(* A saved copy fits the rings it was taken from.                          *)
Copies == {x \in Saved : Len(x.recent) <= RecentSize /\ Len(x.samples) <= SamplesSize}

(* A saver at work has a copy; a request under way is the latest one.      *)
CountersTyped ==
    /\ CountersTypeOK
    /\ save \in [Savers -> [pc : {"idle", "served", "write"}, data : {NoState} \union Copies]]
    /\ \A s \in Savers : save[s].pc # "idle" => save[s].data \in Copies
    /\ app \in {NoState} \union Copies
    /\ hist \in Seq(Times) /\ restored \in Nat
    /\ resetAt \in Nat /\ cancelled \in Nat /\ mixed \in BOOLEAN
    /\ dayAgo <= requests
    /\ pending # 0 => pending = requests /\ pending > dayAgo

-----------------------------------------------------------------------------
(* The arithmetic of a ring of n slots.                                    *)

LEMMA NextSlot ==
    ASSUME NEW n \in Nat \ {0}, NEW a \in 0 .. n - 1
    PROVE  After(a, n) = (IF a + 1 = n THEN 0 ELSE a + 1) /\ After(a, n) \in 0 .. n - 1
<1>1. (a + 1) % n = IF a + 1 = n THEN 0 ELSE a + 1
  OBVIOUS
<1> QED BY <1>1 DEF After

LEMMA SlotBack ==
    ASSUME NEW n \in Nat \ {0}, NEW a \in 0 .. n - 1, NEW i \in 1 .. n
    PROVE  /\ (a + n - i) % n = IF i <= a THEN a - i ELSE a + n - i
           /\ (a + n - i) % n \in 0 .. n - 1
<1>1. (a + n - i) % n = IF i <= a THEN a - i ELSE a + n - i
  OBVIOUS
<1> QED BY <1>1

-----------------------------------------------------------------------------
(* Type correctness.                                                       *)

LEMMA NeverType == Never \in [Documents -> Times] /\ Nothing \in [0 .. RecentSize - 1 -> Times]
BY CountersAssumption DEF Never, Nothing, Times

LEMMA InWindowType ==
    ASSUME NEW m \in [Documents -> Times]
    PROVE  InWindow(m) \in [Documents -> Times]
BY CountersAssumption DEF InWindow, Times

LEMMA PruneType ==
    ASSUME NEW m \in [Documents -> Times]
    PROVE  PruneLocked(m) \in [Documents -> Times]
<1>1. \A x \in [Documents -> Times] : KeepNewest(x) \in [Documents -> Times]
  BY CountersAssumption DEF KeepNewest, Times
<1> QED BY <1>1, InWindowType DEF PruneLocked

LEMMA RecentListType ==
    ASSUME CountersTyped
    PROVE  /\ RecentList \in Seq(Times) /\ Len(RecentList) = nRecent
           /\ OldestFirst \in Seq(Times) /\ Len(OldestFirst) = nRecent
<1>1. RecentSize \in Nat \ {0} /\ nRecent \in 0 .. RecentSize /\ recentAt \in 0 .. RecentSize - 1
      /\ recent \in [0 .. RecentSize - 1 -> Times]
  BY CountersAssumption DEF CountersTyped, CountersTypeOK
<1>2. ASSUME NEW i \in 1 .. nRecent PROVE recent[(recentAt + RecentSize - i) % RecentSize] \in Times
  <2>1. i \in 1 .. RecentSize
    BY <1>1
  <2> QED BY <1>1, <2>1, SlotBack
<1>3. RecentList \in [1 .. nRecent -> Times]
  BY <1>2 DEF RecentList
<1>4. RecentList \in Seq(Times) /\ Len(RecentList) = nRecent
  BY <1>1, <1>3
<1> HIDE DEF RecentList
<1>5. Reverse(RecentList) \in [1 .. nRecent -> Times]
  BY <1>1, <1>4 DEF Reverse
<1> QED BY <1>1, <1>4, <1>5 DEF OldestFirst

(* A request is counted: every ring moves by one slot.                     *)
LEMMA RecordType ==
    ASSUME CountersTyped, NEW n \in Times, Record(n)
    PROVE  /\ count' \in Nat /\ samples' \in Seq(Times) /\ Len(samples') <= SamplesSize
           /\ recent' \in [0 .. RecentSize - 1 -> Times]
           /\ recentAt' \in 0 .. RecentSize - 1 /\ sampleI' \in 0 .. SamplesSize - 1
           /\ nRecent' \in 0 .. RecentSize /\ (nRecent' < RecentSize => recentAt' = nRecent')
           /\ hist' \in Seq(Times) /\ restored' \in Nat
<1> USE CountersAssumption DEF CountersTyped, CountersTypeOK, Record
<1>1. recentAt' = (IF recentAt + 1 = RecentSize THEN 0 ELSE recentAt + 1)
      /\ recentAt' \in 0 .. RecentSize - 1
  BY NextSlot
<1>2. /\ samples' \in Seq(Times) /\ Len(samples') <= SamplesSize
      /\ sampleI' \in 0 .. SamplesSize - 1
  <2>1. CASE Len(samples) < SamplesSize
    <3>1. samples' = Append(samples, n) /\ sampleI' = sampleI
      BY <2>1
    <3>2. samples \in Seq(Times) /\ sampleI \in 0 .. SamplesSize - 1 /\ SamplesSize \in Nat
      OBVIOUS
    <3> QED BY ONLY <2>1, <3>1, <3>2, n \in Times
  <2>2. CASE ~(Len(samples) < SamplesSize)
    <3>1. samples' = [samples EXCEPT ![sampleI + 1] = n] /\ sampleI' = After(sampleI, SamplesSize)
      BY <2>2
    <3>2. sampleI' \in 0 .. SamplesSize - 1
      BY <3>1, NextSlot
    <3> QED BY <3>1, <3>2
  <2> QED BY <2>1, <2>2
<1>3. nRecent' \in 0 .. RecentSize /\ (nRecent' < RecentSize => recentAt' = nRecent')
  BY <1>1
<1> QED BY <1>1, <1>2, <1>3

LEMMA ServedType ==
    ASSUME CountersTyped, NEW n \in 1 .. MaxRequests, RecordServed(n)
    PROVE  served' \in [Documents -> Times] /\ lately' \in [Documents -> Times]
<1>1. n \in Times /\ Answer[n] \in Documents
  BY CountersAssumption DEF Times
<1>2. [served EXCEPT ![Answer[n]] = n] \in [Documents -> Times]
  BY <1>1 DEF CountersTyped, CountersTypeOK
<1> QED BY <1>1, <1>2, PruneType DEF RecordServed, CountersTyped, CountersTypeOK

LEMMA ClearedType ==
    ASSUME ClearRegistry
    PROVE  /\ count' \in Nat /\ samples' \in Seq(Times) /\ Len(samples') <= SamplesSize
           /\ recent' \in [0 .. RecentSize - 1 -> Times]
           /\ recentAt' \in 0 .. RecentSize - 1 /\ sampleI' \in 0 .. SamplesSize - 1
           /\ nRecent' \in 0 .. RecentSize /\ (nRecent' < RecentSize => recentAt' = nRecent')
           /\ hist' \in Seq(Times)
<1>1. <<>> \in Seq(Times) /\ Len(<<>>) = 0
  OBVIOUS
<1> QED BY <1>1, NeverType, CountersAssumption DEF ClearRegistry

(* A saver's copy.                                                         *)
LEMMA CopyType ==
    ASSUME CountersTyped
    PROVE  /\ [count |-> count, recent |-> OldestFirst, samples |-> samples, served |-> Never,
               hist |-> hist, lately |-> Never] \in Copies
           /\ \A x \in Copies : [x EXCEPT !.served = InWindow(served), !.lately = lately] \in Copies
<1>1. OldestFirst \in Seq(Times) /\ Len(OldestFirst) = nRecent /\ nRecent <= RecentSize
  BY RecentListType, CountersAssumption DEF CountersTyped, CountersTypeOK
<1>2. InWindow(served) \in [Documents -> Times] /\ Never \in [Documents -> Times]
  BY NeverType, InWindowType DEF CountersTyped, CountersTypeOK
<1> HIDE DEF OldestFirst
<1>3. [count |-> count, recent |-> OldestFirst, samples |-> samples, served |-> Never,
       hist |-> hist, lately |-> Never] \in Copies
  BY <1>1, <1>2 DEF Copies, Saved, CountersTyped, CountersTypeOK
<1>4. ASSUME NEW x \in Copies
      PROVE  [x EXCEPT !.served = InWindow(served), !.lately = lately] \in Copies
  BY <1>2 DEF Copies, Saved, CountersTyped, CountersTypeOK
<1> QED BY <1>3, <1>4

LEMMA RequestTypes ==
    ASSUME CountersTyped, ToolServes \/ ToolReturns \/ RestRecords \/ RestServes \/ DayPasses
    PROVE  CountersTyped'
<1> USE CountersAssumption DEF Others, saveVars, resetVars, ghosts, requestVars
<1>1. /\ requests' \in Times /\ pending' \in Times /\ dayAgo' \in Times /\ dayAgo' <= requests'
      /\ pending' # 0 => pending' = requests' /\ pending' > dayAgo'
  <2>0. /\ MaxRequests \in Nat /\ Times = 0 .. MaxRequests
        /\ requests \in Times /\ pending \in Times /\ dayAgo \in Times /\ dayAgo <= requests
        /\ pending # 0 => pending = requests /\ pending > dayAgo
    BY DEF CountersTyped, CountersTypeOK, Times
  <2>1. CASE ToolServes \/ RestRecords
    <3>1. requests < MaxRequests /\ requests' = requests + 1 /\ pending' = requests' /\ dayAgo' = dayAgo
      BY <2>1 DEF ToolServes, RestRecords, Begin
    <3> QED BY ONLY <2>0, <3>1
  <2>2. CASE ToolReturns \/ RestServes
    <3>1. requests' = requests /\ pending' = 0 /\ dayAgo' = dayAgo
      BY <2>2 DEF ToolReturns, RestServes, End
    <3> QED BY ONLY <2>0, <3>1
  <2>3. CASE DayPasses
    <3>1. requests' = requests /\ pending' = 0 /\ dayAgo' = requests
      BY <2>3 DEF DayPasses
    <3> QED BY ONLY <2>0, <3>1
  <2> QED BY <2>1, <2>2, <2>3
<1>2. UNCHANGED <<process, app, save, resetPc, resetAt, cancelled, mixed>>
  BY DEF ToolServes, ToolReturns, RestRecords, RestServes, DayPasses
<1>3. ASSUME NEW n \in Times, Record(n) PROVE CountersTyped'
  <2>1. UNCHANGED <<served, lately>>
    BY <1>3 DEF Record, servedVars
  <2> QED BY <1>1, <1>2, <1>3, <2>1, RecordType DEF CountersTyped, CountersTypeOK
<1>4. ASSUME NEW n \in 1 .. MaxRequests, RecordServed(n) PROVE CountersTyped'
  <2>1. UNCHANGED registry
    BY <1>4 DEF RecordServed
  <2> QED BY <1>1, <1>2, <1>4, <2>1, ServedType DEF CountersTyped, CountersTypeOK, registry
<1>5. CASE ToolServes
  <2>1. requests' = requests + 1 /\ requests \in 0 .. MaxRequests /\ RecordServed(requests')
    BY <1>5 DEF ToolServes, Begin, CountersTyped, CountersTypeOK, Times
  <2>2. requests' \in 1 .. MaxRequests
    BY <1>1, <2>1 DEF Times
  <2> QED BY <1>4, <2>1, <2>2
<1>6. CASE ToolReturns
  BY <1>3, <1>6 DEF ToolReturns, CountersTyped, CountersTypeOK
<1>7. CASE RestRecords
  BY <1>1, <1>3, <1>7 DEF RestRecords
<1>8. CASE RestServes
  <2>1. pending \in 1 .. MaxRequests /\ RecordServed(pending)
    BY <1>8 DEF RestServes, End, CountersTyped, CountersTypeOK, Times
  <2> QED BY <1>4, <2>1
<1>9. CASE DayPasses
  <2>1. UNCHANGED <<registry, servedVars>>
    BY <1>9 DEF DayPasses
  <2> QED BY <1>1, <1>2, <2>1 DEF CountersTyped, CountersTypeOK, registry, servedVars
<1> QED BY <1>5, <1>6, <1>7, <1>8, <1>9

LEMMA SaveTypes ==
    ASSUME CountersTyped, NEW s \in Savers,
           ExportRegistry(s) \/ ExportServed(s) \/ SetState(s) \/ SetStateFails(s)
    PROVE  CountersTyped'
<1>1. UNCHANGED <<registry, servedVars, requestVars, resetPc>>
  BY DEF ExportRegistry, ExportServed, SetState, SetStateFails, resetVars
<1>2. /\ process' \in Running \union {"closed", "crashed"}
      /\ resetAt' \in Nat /\ cancelled' \in Nat /\ mixed' \in BOOLEAN
  <2>1. "closing" \in Running
    BY DEF Running
  <2>2. process' \in {process, "closing"} /\ resetAt' = resetAt /\ cancelled' \in {cancelled, 0}
    BY DEF ExportRegistry, ExportServed, SetState, SetStateFails, resetVars, ghosts
  <2>3. mixed' \in {mixed, TRUE, mixed \/ ~Quiet}
    BY DEF ExportRegistry, ExportServed, SetState, SetStateFails, ghosts
  <2>4. (mixed \/ ~Quiet) \in BOOLEAN
    OBVIOUS
  <2>5. /\ process \in Running \union {"closed", "crashed"}
        /\ resetAt \in Nat /\ cancelled \in Nat /\ mixed \in BOOLEAN
    BY DEF CountersTyped, CountersTypeOK
  <2>6. resetAt' \in Nat /\ cancelled' \in Nat
    BY <2>2, <2>5
  <2>7. mixed' \in BOOLEAN
    BY <2>3, <2>4, <2>5
  <2> QED BY <2>1, <2>2, <2>5, <2>6, <2>7
<1> DEFINE Slots == [pc : {"idle", "served", "write"}, data : {NoState} \union Copies]
<1>3. /\ save' \in [Savers -> Slots]
      /\ \A t \in Savers : save'[t].pc # "idle" => save'[t].data \in Copies
      /\ app' \in {NoState} \union Copies
  <2>0. /\ save \in [Savers -> Slots] /\ app \in {NoState} \union Copies
        /\ \A t \in Savers : save[t].pc # "idle" => save[t].data \in Copies
    BY DEF CountersTyped
  <2>1. ASSUME NEW x \in Slots, x.pc # "idle" => x.data \in Copies, save' = [save EXCEPT ![s] = x],
               app' \in {NoState} \union Copies
        PROVE  <1>3
    BY <2>0, <2>1
  <2>2. CASE ExportRegistry(s)
    <3> DEFINE copy == [count |-> count, recent |-> OldestFirst, samples |-> samples,
                        served |-> Never, hist |-> hist, lately |-> Never]
    <3>1. copy \in Copies
      BY CopyType
    <3>2. save' = [save EXCEPT ![s] = [pc |-> "served", data |-> copy]] /\ app' = app
      BY <2>2 DEF ExportRegistry
    <3> HIDE DEF copy
    <3> QED BY <2>0, <2>1, <3>1, <3>2
  <2>3. CASE ExportServed(s)
    <3>1. save[s].data \in Copies /\ save[s].pc = "served" /\ app' = app
      BY <2>0, <2>3 DEF ExportServed
    <3> DEFINE copy == [save[s].data EXCEPT !.served = InWindow(served), !.lately = lately]
    <3>2. copy \in Copies
      BY <3>1, CopyType
    <3>3. save' = [save EXCEPT ![s] = [pc |-> "write", data |-> copy]]
      BY <2>3 DEF ExportServed
    <3> HIDE DEF copy
    <3> QED BY <2>0, <2>1, <3>1, <3>2, <3>3
  <2>4. CASE SetState(s) \/ SetStateFails(s)
    <3>1. save' = [save EXCEPT ![s] = Idle] /\ app' \in {app, save[s].data}
          /\ save[s].data \in Copies
      BY <2>0, <2>4 DEF SetState, SetStateFails
    <3>2. Idle \in Slots /\ Idle.pc = "idle"
      BY DEF Idle
    <3> QED BY <2>0, <2>1, <3>1, <3>2
  <2> QED BY <2>2, <2>3, <2>4
<1>4. /\ \A t \in Savers : save'[t].pc \in {"idle", "served", "write"}
                            /\ save'[t].data \in {NoState} \union Saved
      /\ app' \in {NoState} \union Saved
  BY <1>3 DEF Copies
<1> QED
  BY <1>1, <1>2, <1>3, <1>4
     DEF CountersTyped, CountersTypeOK, registry, servedVars, requestVars

LEMMA ResetTypes ==
    ASSUME CountersTyped, ResetRegistry \/ ResetServed \/ DeleteState \/ DeleteFails
    PROVE  CountersTyped'
<1> USE DEF saveVars, requestVars
<1>1. UNCHANGED <<process, save, requests, pending, dayAgo>>
  BY DEF ResetRegistry, ResetServed, DeleteState, DeleteFails
<1>2. /\ resetPc' \in {"idle", "served", "delete"} /\ app' \in {app, NoState}
      /\ resetAt' \in Nat /\ cancelled' \in Nat /\ mixed' \in BOOLEAN
  <2>1. CASE ResetRegistry
    <3>1. resetAt' = (IF pending = 0 THEN requests ELSE pending - 1)
      BY <2>1 DEF ResetRegistry
    <3>2. pending \in Nat /\ requests \in Nat
      BY DEF CountersTyped, CountersTypeOK, Times
    <3>3. resetAt' \in Nat
      BY <3>1, <3>2
    <3> QED BY <2>1, <3>3 DEF ResetRegistry, Quiet
  <2>2. CASE ResetServed \/ DeleteState \/ DeleteFails
    BY <2>2 DEF ResetServed, DeleteState, DeleteFails, ghosts, CountersTyped
  <2> QED BY <2>1, <2>2
<1>3. CASE ResetRegistry
  <2>1. ClearRegistry /\ restored' = 0 /\ UNCHANGED servedVars
    BY <1>3 DEF ResetRegistry
  <2> QED BY <1>1, <1>2, <2>1, ClearedType DEF CountersTyped, CountersTypeOK, servedVars
<1>4. CASE ResetServed
  <2>1. UNCHANGED registry /\ served' = Never /\ lately' = Never
    BY <1>4 DEF ResetServed
  <2> QED BY <1>1, <1>2, <2>1, NeverType DEF CountersTyped, CountersTypeOK, registry
<1>5. CASE DeleteState \/ DeleteFails
  <2>1. UNCHANGED <<registry, servedVars>>
    BY <1>5 DEF DeleteState, DeleteFails
  <2> QED BY <1>1, <1>2, <2>1 DEF CountersTyped, CountersTypeOK, registry, servedVars
<1> QED BY <1>3, <1>4, <1>5

(* A restored ring: the list is replayed from the first slot.              *)
LEMMA RestoredType ==
    ASSUME CountersTyped, app # NoState, RestoreCounters
    PROVE  /\ count' \in Nat /\ samples' \in Seq(Times) /\ Len(samples') <= SamplesSize
           /\ recent' \in [0 .. RecentSize - 1 -> Times]
           /\ recentAt' \in 0 .. RecentSize - 1 /\ sampleI' \in 0 .. SamplesSize - 1
           /\ nRecent' \in 0 .. RecentSize /\ (nRecent' < RecentSize => recentAt' = nRecent')
           /\ hist' \in Seq(Times)
           /\ served' \in [Documents -> Times] /\ lately' \in [Documents -> Times]
<1>1. app \in Copies
  BY DEF CountersTyped
<1>2. /\ app.count \in Nat /\ app.recent \in Seq(Times) /\ app.samples \in Seq(Times)
      /\ app.hist \in Seq(Times)
      /\ app.served \in [Documents -> Times] /\ app.lately \in [Documents -> Times]
      /\ Len(app.recent) <= RecentSize /\ Len(app.samples) <= SamplesSize
  BY <1>1 DEF Copies, Saved
<1>3. /\ count' = app.count /\ samples' = app.samples /\ sampleI' = 0
      /\ recent' = [i \in DOMAIN recent |-> IF i < Len(app.recent) THEN app.recent[i + 1] ELSE 0]
      /\ nRecent' = Len(app.recent) /\ recentAt' = nRecent' % RecentSize
      /\ served' = app.served /\ lately' = app.lately /\ hist' = app.hist
  BY DEF RestoreCounters
<1>4. RecentSize \in Nat \ {0} /\ SamplesSize \in Nat \ {0} /\ 0 \in Times
  BY CountersAssumption DEF Times
<1>5. nRecent' \in 0 .. RecentSize
  BY ONLY <1>2, <1>3, <1>4
<1>6. /\ nRecent' % RecentSize = (IF nRecent' = RecentSize THEN 0 ELSE nRecent')
      /\ recentAt' \in 0 .. RecentSize - 1
  <2>1. \A n \in Nat \ {0} : \A k \in 0 .. n : k % n = (IF k = n THEN 0 ELSE k)
    OBVIOUS
  <2>2. nRecent' % RecentSize = (IF nRecent' = RecentSize THEN 0 ELSE nRecent')
    BY <1>4, <1>5, <2>1
  <2>3. recentAt' = (IF nRecent' = RecentSize THEN 0 ELSE nRecent')
    BY <1>3, <2>2
  <2> QED BY ONLY <1>4, <1>5, <2>2, <2>3
<1>7. recent' \in [0 .. RecentSize - 1 -> Times]
  <2>1. DOMAIN recent = 0 .. RecentSize - 1
    BY DEF CountersTyped, CountersTypeOK
  <2>2. \A i \in 0 .. RecentSize - 1 : i < Len(app.recent) => app.recent[i + 1] \in Times
    BY <1>2
  <2> QED BY <1>3, <1>4, <2>1, <2>2
<1>8. nRecent' < RecentSize => recentAt' = nRecent'
  BY <1>3, <1>5, <1>6
<1>9. /\ count' \in Nat /\ samples' \in Seq(Times) /\ Len(samples') <= SamplesSize /\ hist' \in Seq(Times)
      /\ served' \in [Documents -> Times] /\ lately' \in [Documents -> Times]
  BY <1>2, <1>3
<1>10. sampleI' \in 0 .. SamplesSize - 1
  BY <1>3, <1>4
<1> QED BY <1>5, <1>6, <1>7, <1>8, <1>9, <1>10

LEMMA LifeTypes ==
    ASSUME CountersTyped, Cancel \/ Close \/ Crash \/ RestoreCounters
    PROVE  CountersTyped'
<1> USE DEF requestVars
<1>1. CASE Cancel
  <2>1. process' = "ending" /\ UNCHANGED <<registry, servedVars, requestVars, saveVars, resetVars, mixed>>
        /\ cancelled' = count
    BY <1>1 DEF Cancel
  <2> QED BY <2>1 DEF CountersTyped, CountersTypeOK, registry, servedVars, saveVars, resetVars, Running
<1>2. CASE Close \/ Crash
  <2>1. /\ process' \in {"closed", "crashed"} /\ pending' = 0 /\ requests' = requests /\ dayAgo' = dayAgo
        /\ save' = [s \in Savers |-> Idle] /\ app' = app
        /\ resetPc' = "idle" /\ resetAt' \in {resetAt, 0} /\ UNCHANGED ghosts
    BY <1>2 DEF Close, Crash, Ended
  <2>2. \/ UNCHANGED <<registry, servedVars>>
        \/ ClearRegistry /\ restored' = 0 /\ served' = Never /\ lately' = Never
    BY <1>2 DEF Close, Crash
  <2>3. /\ save' \in [Savers -> [pc : {"idle", "served", "write"}, data : {NoState} \union Copies]]
        /\ \A s \in Savers : save'[s].pc = "idle" /\ save'[s].data = NoState
    BY <2>1 DEF Idle
  <2>4. 0 \in Times /\ dayAgo <= requests
    BY CountersAssumption DEF Times, CountersTyped
  <2>5. CASE UNCHANGED <<registry, servedVars>>
    BY <2>1, <2>3, <2>4, <2>5 DEF CountersTyped, CountersTypeOK, registry, servedVars, ghosts
  <2>6. CASE ClearRegistry /\ restored' = 0 /\ served' = Never /\ lately' = Never
    BY <2>1, <2>3, <2>4, <2>6, ClearedType, NeverType DEF CountersTyped, CountersTypeOK, ghosts
  <2> QED BY <2>2, <2>5, <2>6
<1>3. CASE RestoreCounters
  <2>1. /\ process' = "up" /\ restored' = 0
        /\ UNCHANGED <<requestVars, saveVars, resetVars, ghosts>>
    BY <1>3 DEF RestoreCounters
  <2>2. process' \in Running
    BY <2>1 DEF Running
  <2>3. CASE app = NoState
    <3>1. ClearRegistry /\ served' = Never /\ lately' = Never
      BY <1>3, <2>3 DEF RestoreCounters
    <3> QED
      BY <2>1, <2>2, <3>1, ClearedType, NeverType
         DEF CountersTyped, CountersTypeOK, saveVars, resetVars, ghosts
  <2>4. CASE app # NoState
    BY <1>3, <2>1, <2>2, <2>4, RestoredType
       DEF CountersTyped, CountersTypeOK, saveVars, resetVars, ghosts
  <2> QED BY <2>3, <2>4
<1> QED BY <1>1, <1>2, <1>3

LEMMA CountersStep ==
    ASSUME CountersTyped, [CountersNext]_counterVars
    PROVE  CountersTyped'
<1>1. CASE UNCHANGED counterVars
  BY <1>1
     DEF counterVars, registry, servedVars, requestVars, saveVars, resetVars, ghosts,
         CountersTyped, CountersTypeOK
<1> QED BY <1>1, RequestTypes, SaveTypes, ResetTypes, LifeTypes DEF CountersNext

LEMMA CountersStart == CountersInit => CountersTyped
<1> SUFFICES ASSUME CountersInit PROVE CountersTyped
  OBVIOUS
<1>1. save \in [Savers -> [pc : {"idle", "served", "write"}, data : {NoState} \union Copies]]
      /\ \A s \in Savers : save[s].pc = "idle" /\ save[s].data = NoState
  BY DEF CountersInit, Idle
<1>2. <<>> \in Seq(Times) /\ Len(<<>>) = 0 /\ 0 \in Times
  BY CountersAssumption DEF Times
<1>3. process \in Running
  BY DEF CountersInit, Running
<1> QED BY <1>1, <1>2, <1>3, NeverType, CountersAssumption DEF CountersInit, CountersTyped, CountersTypeOK

(* Every variable keeps its range, through wraps of both rings, restores of*)
(* what an earlier process saved, and resets (metrics.go:146-157,          *)
(* persist.go:60-101).                                                     *)
THEOREM CountersTypeCorrect == CountersSpec => []CountersTypeOK
<1>1. CountersTyped => CountersTypeOK
  BY DEF CountersTyped
<1> QED BY <1>1, CountersStart, CountersStep, PTL DEF CountersSpec

-----------------------------------------------------------------------------
(* The rings.  The recent ring is exact; the samples are once the ring was *)
(* rewritten since it was restored, or never wrapped, or was never         *)
(* restored.                                                               *)
AtMost(n, bound) == IF n < bound THEN n ELSE bound

RecentExact ==
    /\ count = Len(hist) /\ nRecent = AtMost(Len(hist), RecentSize)
    /\ \A i \in 1 .. nRecent :
          recent[(recentAt + RecentSize - i) % RecentSize] = hist[Len(hist) + 1 - i]

SamplesExact ==
    /\ Len(samples) = AtMost(Len(hist), SamplesSize)
    /\ Len(hist) <= SamplesSize => samples = hist /\ sampleI = 0
    /\ Len(hist) >= SamplesSize =>
          \A i \in 1 .. SamplesSize : i <= restored \/ restored = Len(hist) =>
              samples[((sampleI + SamplesSize - i) % SamplesSize) + 1] = hist[Len(hist) + 1 - i]

CopyExact(x) ==
    /\ x.count = Len(x.hist) /\ x.recent = Latest(x.hist, RecentSize)
    /\ Len(x.samples) = AtMost(Len(x.hist), SamplesSize)
    /\ Len(x.hist) <= SamplesSize => x.samples = x.hist

RingsInv ==
    /\ CountersTyped /\ RecentExact /\ SamplesExact
    /\ app # NoState => CopyExact(app)
    /\ \A s \in Savers : save[s].pc # "idle" => CopyExact(save[s].data)

LEMMA LatestIs ==
    ASSUME NEW s \in Seq(Times), NEW n \in Nat
    PROVE  /\ Latest(s, n) \in Seq(Times) /\ Len(Latest(s, n)) = AtMost(Len(s), n)
           /\ \A j \in 1 .. AtMost(Len(s), n) : Latest(s, n)[j] = s[Len(s) - AtMost(Len(s), n) + j]
           /\ Len(s) <= n => Latest(s, n) = s
<1>1. CASE Len(s) > n
  <2>1. Latest(s, n) = SubSeq(s, Len(s) - n + 1, Len(s)) /\ AtMost(Len(s), n) = n
    BY <1>1 DEF Latest, AtMost
  <2>2. Len(s) \in Nat /\ Len(s) - n + 1 \in 1 .. Len(s) + 1
    BY <1>1
  <2>3. /\ SubSeq(s, Len(s) - n + 1, Len(s)) \in Seq(Times)
        /\ Len(SubSeq(s, Len(s) - n + 1, Len(s))) = n
        /\ \A j \in 1 .. n : SubSeq(s, Len(s) - n + 1, Len(s))[j] = s[Len(s) - n + j]
    BY <1>1, <2>2
  <2> QED BY <1>1, <2>1, <2>2, <2>3
<1>2. CASE ~(Len(s) > n)
  <2>1. Latest(s, n) = SubSeq(s, 1, Len(s))
    BY <1>2 DEF Latest
  <2>2. SubSeq(s, 1, Len(s)) = s
    OBVIOUS
  <2>3. Len(s) = AtMost(Len(s), n)
    BY <1>2 DEF AtMost
  <2> QED BY <2>1, <2>2, <2>3
<1> QED BY <1>1, <1>2

(* The slot before the next one, and the others, when the ring moves on.   *)
LEMMA SlotMoves ==
    ASSUME NEW n \in Nat \ {0}, NEW a \in 0 .. n - 1
    PROVE  /\ (After(a, n) + n - 1) % n = a
           /\ \A i \in 2 .. n : /\ (After(a, n) + n - i) % n = (a + n - (i - 1)) % n
                                /\ (After(a, n) + n - i) % n # a
                                /\ (After(a, n) + n - i) % n \in 0 .. n - 1
<1> DEFINE b == After(a, n)
<1>1. b = (IF a + 1 = n THEN 0 ELSE a + 1) /\ b \in 0 .. n - 1
  BY NextSlot
<1>2. \A i \in 1 .. n : (b + n - i) % n = (IF i <= b THEN b - i ELSE b + n - i)
  <2> HIDE DEF b
  <2> QED BY <1>1, SlotBack
<1>3. \A i \in 1 .. n : (a + n - i) % n = (IF i <= a THEN a - i ELSE a + n - i)
  BY SlotBack
<1> HIDE DEF b
<1>4. (b + n - 1) % n = a
  <2>1. (b + n - 1) % n = (IF 1 <= b THEN b - 1 ELSE b + n - 1)
    BY <1>2
  <2> QED BY <1>1, <2>1
<1>5. ASSUME NEW i \in 2 .. n
      PROVE  /\ (b + n - i) % n = (a + n - (i - 1)) % n
             /\ (b + n - i) % n # a /\ (b + n - i) % n \in 0 .. n - 1
  <2>1. (b + n - i) % n = (IF i <= b THEN b - i ELSE b + n - i)
    BY <1>2
  <2>2. (a + n - (i - 1)) % n = (IF i - 1 <= a THEN a - (i - 1) ELSE a + n - (i - 1))
    <3>1. i - 1 \in 1 .. n
      OBVIOUS
    <3> HIDE DEF After
    <3> QED BY <1>3, <3>1
  <2> QED BY ONLY <1>1, <2>1, <2>2, n \in Nat \ {0}, a \in 0 .. n - 1, i \in 2 .. n
<1> QED BY <1>4, <1>5 DEF b

LEMMA RecordKeepsRings ==
    ASSUME CountersTyped, RecentExact, SamplesExact, NEW n \in Times, Record(n)
    PROVE  RecentExact' /\ SamplesExact'
<1>1. /\ RecentSize \in Nat \ {0} /\ SamplesSize \in Nat \ {0}
      /\ count \in Nat /\ hist \in Seq(Times) /\ samples \in Seq(Times) /\ restored \in Nat
      /\ recent \in [0 .. RecentSize - 1 -> Times]
      /\ recentAt \in 0 .. RecentSize - 1 /\ sampleI \in 0 .. SamplesSize - 1
  BY CountersAssumption DEF CountersTyped, CountersTypeOK
<1>2. /\ hist' = Append(hist, n) /\ Len(hist') = Len(hist) + 1 /\ Len(hist) \in Nat
      /\ \A i \in 1 .. Len(hist) : hist'[i] = hist[i]
      /\ hist'[Len(hist) + 1] = n
      /\ count' = count + 1 /\ restored' = restored + 1
  BY <1>1 DEF Record
<1>3. RecentExact'
  <2>1. /\ recent' = [recent EXCEPT ![recentAt] = n] /\ recentAt' = After(recentAt, RecentSize)
        /\ nRecent' = IF nRecent < RecentSize THEN nRecent + 1 ELSE nRecent
    BY DEF Record
  <2>2. count = Len(hist) /\ nRecent = AtMost(Len(hist), RecentSize)
    BY DEF RecentExact
  <2>3. count' = Len(hist') /\ nRecent' = AtMost(Len(hist'), RecentSize) /\ nRecent' \in 1 .. RecentSize
    BY <1>1, <1>2, <2>1, <2>2 DEF AtMost
  <2>4. ASSUME NEW i \in 1 .. nRecent'
        PROVE  recent'[(recentAt' + RecentSize - i) % RecentSize] = hist'[Len(hist') + 1 - i]
    <3>1. i \in 1 .. RecentSize
      BY <1>1, <2>3
    <3>2. CASE i = 1
      <4>1. (recentAt' + RecentSize - 1) % RecentSize = recentAt
        BY <1>1, <2>1, SlotMoves
      <4> QED BY <1>1, <1>2, <2>1, <3>2, <4>1
    <3>3. CASE i # 1
      <4> DEFINE slot == (recentAt + RecentSize - (i - 1)) % RecentSize
      <4>0. i \in 2 .. RecentSize
        BY <3>1, <3>3
      <4>1. /\ (recentAt' + RecentSize - i) % RecentSize = slot
            /\ slot # recentAt /\ slot \in 0 .. RecentSize - 1
        <5>1. recentAt' = After(recentAt, RecentSize)
          BY <2>1
        <5>2. \A k \in 2 .. RecentSize :
                 /\ (After(recentAt, RecentSize) + RecentSize - k) % RecentSize
                      = (recentAt + RecentSize - (k - 1)) % RecentSize
                 /\ (After(recentAt, RecentSize) + RecentSize - k) % RecentSize # recentAt
                 /\ (After(recentAt, RecentSize) + RecentSize - k) % RecentSize \in 0 .. RecentSize - 1
          <6>1. RecentSize \in Nat \ {0} /\ recentAt \in 0 .. RecentSize - 1
            BY <1>1
          <6> QED BY ONLY <6>1, SlotMoves
        <5> QED BY ONLY <4>0, <5>1, <5>2
      <4>2. i - 1 \in 1 .. nRecent
        BY <1>1, <1>2, <2>1, <2>2, <4>0 DEF AtMost
      <4>3. recent[slot] = hist[Len(hist) + 1 - (i - 1)]
        BY <4>2 DEF RecentExact
      <4> HIDE DEF slot
      <4>4. recent'[slot] = recent[slot]
        BY <1>1, <2>1, <4>1
      <4>5. /\ Len(hist) + 1 - (i - 1) \in 1 .. Len(hist)
            /\ Len(hist') + 1 - i = Len(hist) + 1 - (i - 1)
        BY <1>1, <1>2, <2>2, <4>0, <4>2 DEF AtMost
      <4> QED BY <1>2, <4>1, <4>3, <4>4, <4>5
    <3> QED BY <3>2, <3>3
  <2> QED BY <2>3, <2>4 DEF RecentExact
<1>4. SamplesExact'
  <2>1. /\ Len(samples) = AtMost(Len(hist), SamplesSize)
        /\ Len(hist) <= SamplesSize => samples = hist /\ sampleI = 0
    BY DEF SamplesExact
  <2>2. CASE Len(samples) < SamplesSize
    <3>1. samples' = Append(samples, n) /\ sampleI' = sampleI
      BY <2>2 DEF Record
    <3>2. samples = hist /\ sampleI = 0 /\ Len(hist) < SamplesSize
      BY <1>1, <1>2, <2>1, <2>2 DEF AtMost
    <3>3. samples' = hist' /\ sampleI' = 0 /\ Len(hist') <= SamplesSize
      BY <1>1, <1>2, <3>1, <3>2
    <3>4. ASSUME Len(hist') >= SamplesSize, NEW i \in 1 .. SamplesSize
          PROVE  samples'[((sampleI' + SamplesSize - i) % SamplesSize) + 1] = hist'[Len(hist') + 1 - i]
      <4>1. (0 + SamplesSize - i) % SamplesSize = SamplesSize - i
        <5>1. 0 \in 0 .. SamplesSize - 1 /\ ~(i <= 0)
          BY <1>1
        <5>2. (0 + SamplesSize - i) % SamplesSize = IF i <= 0 THEN 0 - i ELSE 0 + SamplesSize - i
          BY <1>1, <5>1, SlotBack
        <5> QED BY <1>1, <5>1, <5>2
      <4>2. Len(hist') = SamplesSize
        BY <1>1, <1>2, <3>3, <3>4
      <4>3. SamplesSize - i + 1 = SamplesSize + 1 - i
        BY <1>1
      <4> QED BY <3>3, <4>1, <4>2, <4>3
    <3>5. Len(samples') = AtMost(Len(hist'), SamplesSize)
      BY <1>1, <1>2, <3>3 DEF AtMost
    <3> QED BY <3>3, <3>4, <3>5 DEF SamplesExact
  <2>3. CASE ~(Len(samples) < SamplesSize)
    <3>1. samples' = [samples EXCEPT ![sampleI + 1] = n] /\ sampleI' = After(sampleI, SamplesSize)
      BY <2>3 DEF Record
    <3>2. Len(samples) = SamplesSize /\ Len(hist) >= SamplesSize
      BY <1>1, <1>2, <2>1, <2>3 DEF AtMost
    <3>3. Len(samples') = SamplesSize /\ samples' \in Seq(Times)
      BY <1>1, <3>1, <3>2
    <3>4. Len(hist') > SamplesSize /\ Len(samples') = AtMost(Len(hist'), SamplesSize)
      BY <1>1, <1>2, <3>2, <3>3 DEF AtMost
    <3>5. ASSUME NEW i \in 1 .. SamplesSize, i <= restored' \/ restored' = Len(hist')
          PROVE  samples'[((sampleI' + SamplesSize - i) % SamplesSize) + 1] = hist'[Len(hist') + 1 - i]
      <4>1. CASE i = 1
        <5>1. (sampleI' + SamplesSize - 1) % SamplesSize = sampleI
          BY <1>1, <3>1, SlotMoves
        <5>2. samples'[sampleI + 1] = n
          BY <1>1, <3>1, <3>2
        <5> QED BY <1>1, <1>2, <4>1, <5>1, <5>2
      <4>2. CASE i # 1
        <5> DEFINE slot == (sampleI + SamplesSize - (i - 1)) % SamplesSize
        <5>0. i \in 2 .. SamplesSize
          BY <1>1, <4>2
        <5>1. /\ (sampleI' + SamplesSize - i) % SamplesSize = slot
              /\ slot # sampleI /\ slot \in 0 .. SamplesSize - 1
          <6>1. sampleI' = After(sampleI, SamplesSize)
            BY <3>1
          <6>2. \A k \in 2 .. SamplesSize :
                   /\ (After(sampleI, SamplesSize) + SamplesSize - k) % SamplesSize
                        = (sampleI + SamplesSize - (k - 1)) % SamplesSize
                   /\ (After(sampleI, SamplesSize) + SamplesSize - k) % SamplesSize # sampleI
                   /\ (After(sampleI, SamplesSize) + SamplesSize - k) % SamplesSize \in 0 .. SamplesSize - 1
            <7>1. SamplesSize \in Nat \ {0} /\ sampleI \in 0 .. SamplesSize - 1
              BY <1>1
            <7> QED BY ONLY <7>1, SlotMoves
          <6> QED BY ONLY <5>0, <6>1, <6>2
        <5>2. i - 1 \in 1 .. SamplesSize /\ (i - 1 <= restored \/ restored = Len(hist))
          BY <1>1, <1>2, <3>5, <5>0
        <5>3. samples[slot + 1] = hist[Len(hist) + 1 - (i - 1)]
          BY <3>2, <5>2 DEF SamplesExact
        <5> HIDE DEF slot
        <5>4. samples'[slot + 1] = samples[slot + 1]
          BY <1>1, <3>1, <3>2, <5>1
        <5>5. /\ Len(hist) + 1 - (i - 1) \in 1 .. Len(hist)
              /\ Len(hist') + 1 - i = Len(hist) + 1 - (i - 1)
          BY <1>1, <1>2, <3>2, <5>0
        <5> QED BY <1>2, <5>1, <5>3, <5>4, <5>5
      <4> QED BY <4>1, <4>2
    <3>6. ~(Len(hist') <= SamplesSize)
      BY <1>1, <1>2, <3>4
    <3> QED BY <3>4, <3>5, <3>6 DEF SamplesExact
  <2> QED BY <2>2, <2>3
<1> QED BY <1>3, <1>4

LEMMA ClearedRings ==
    ASSUME ClearRegistry
    PROVE  RecentExact' /\ SamplesExact'
<1>1. RecentSize \in Nat \ {0} /\ SamplesSize \in Nat \ {0} /\ Len(<<>>) = 0
  BY CountersAssumption
<1> QED BY <1>1 DEF ClearRegistry, RecentExact, SamplesExact, AtMost

(* The list a dashboard or a save reads off the ring.                      *)
LEMMA ListOfRing ==
    ASSUME CountersTyped, RecentExact
    PROVE  /\ RecentList = Reverse(Latest(hist, RecentSize))
           /\ OldestFirst = Latest(hist, RecentSize)
<1> DEFINE L == Latest(hist, RecentSize)
<1>1. /\ RecentSize \in Nat \ {0} /\ hist \in Seq(Times) /\ Len(hist) \in Nat
      /\ nRecent \in 0 .. RecentSize /\ nRecent = AtMost(Len(hist), RecentSize)
  BY CountersAssumption DEF CountersTyped, CountersTypeOK, RecentExact
<1>2. /\ L \in Seq(Times) /\ Len(L) = nRecent
      /\ \A j \in 1 .. nRecent : L[j] = hist[Len(hist) - nRecent + j]
  BY <1>1, LatestIs
<1>3. \A i \in 1 .. nRecent : RecentList[i] = hist[Len(hist) + 1 - i]
  BY DEF RecentExact, RecentList
<1>4. RecentList = [i \in 1 .. nRecent |-> hist[Len(hist) + 1 - i]]
  BY <1>3 DEF RecentList
<1> HIDE DEF L, RecentList
<1>5. Reverse(L) = [i \in 1 .. nRecent |-> L[(nRecent - i) + 1]]
  BY <1>2 DEF Reverse
<1>6. \A i \in 1 .. nRecent : L[(nRecent - i) + 1] = hist[Len(hist) + 1 - i]
  <2> SUFFICES ASSUME NEW i \in 1 .. nRecent PROVE L[(nRecent - i) + 1] = hist[Len(hist) + 1 - i]
    OBVIOUS
  <2>1. (nRecent - i) + 1 \in 1 .. nRecent /\ Len(hist) - nRecent + ((nRecent - i) + 1) = Len(hist) + 1 - i
    BY <1>1
  <2> QED BY <1>2, <2>1
<1>7. RecentList = Reverse(L)
  BY <1>4, <1>5, <1>6
<1>8. Reverse(RecentList) = L
  <2>1. Len(RecentList) = nRecent
    BY <1>1, <1>4
  <2>2. Reverse(RecentList) = [j \in 1 .. nRecent |-> RecentList[(nRecent - j) + 1]]
    BY <2>1 DEF Reverse
  <2>3. \A j \in 1 .. nRecent : RecentList[(nRecent - j) + 1] = L[j]
    <3> SUFFICES ASSUME NEW j \in 1 .. nRecent PROVE RecentList[(nRecent - j) + 1] = L[j]
      OBVIOUS
    <3>1. (nRecent - j) + 1 \in 1 .. nRecent /\ Len(hist) + 1 - ((nRecent - j) + 1) = Len(hist) - nRecent + j
      BY <1>1
    <3>2. RecentList[(nRecent - j) + 1] = hist[Len(hist) + 1 - ((nRecent - j) + 1)]
      BY ONLY <1>3, <3>1
    <3>3. L[j] = hist[Len(hist) - nRecent + j]
      BY ONLY <1>2
    <3> QED BY ONLY <3>1, <3>2, <3>3
  <2>4. L = [j \in 1 .. nRecent |-> L[j]]
    BY <1>2
  <2> QED BY <2>2, <2>3, <2>4
<1> QED BY <1>7, <1>8 DEF OldestFirst, L

(* The samples are those of the latest requests.                           *)
LEMMA SamplesOfRing ==
    ASSUME CountersTyped, SamplesExact,
           Len(hist) <= SamplesSize \/ restored = Len(hist) \/ restored >= SamplesSize
    PROVE  ToSet(samples) = ToSet(Latest(hist, SamplesSize))
<1>1. /\ SamplesSize \in Nat \ {0} /\ hist \in Seq(Times) /\ Len(hist) \in Nat
      /\ samples \in Seq(Times) /\ restored \in Nat /\ sampleI \in 0 .. SamplesSize - 1
  BY CountersAssumption DEF CountersTyped, CountersTypeOK
<1>2. CASE Len(hist) <= SamplesSize
  BY <1>1, <1>2, LatestIs DEF SamplesExact
<1>3. CASE ~(Len(hist) <= SamplesSize)
  <2> DEFINE L == Latest(hist, SamplesSize)
             slot(i) == ((sampleI + SamplesSize - i) % SamplesSize) + 1
  <2>1. AtMost(Len(hist), SamplesSize) = SamplesSize
    BY <1>1, <1>3 DEF AtMost
  <2>2. /\ L \in Seq(Times) /\ Len(L) = SamplesSize /\ Len(samples) = SamplesSize
        /\ \A j \in 1 .. SamplesSize : L[j] = hist[Len(hist) - SamplesSize + j]
    <3>1. /\ L \in Seq(Times) /\ Len(L) = AtMost(Len(hist), SamplesSize)
          /\ \A j \in 1 .. AtMost(Len(hist), SamplesSize) :
                L[j] = hist[Len(hist) - AtMost(Len(hist), SamplesSize) + j]
      BY <1>1, LatestIs
    <3>2. Len(samples) = AtMost(Len(hist), SamplesSize)
      BY DEF SamplesExact
    <3> HIDE DEF L
    <3> QED BY <2>1, <3>1, <3>2
  <2>3. \A i \in 1 .. SamplesSize : samples[slot(i)] = hist[Len(hist) + 1 - i]
    <3>1. \A i \in 1 .. SamplesSize : i <= restored \/ restored = Len(hist)
      BY <1>1, <1>3
    <3>2. Len(hist) >= SamplesSize
      BY <1>1, <1>3
    <3> QED BY <3>1, <3>2 DEF SamplesExact
  <2>4. \A i \in 1 .. SamplesSize : slot(i) = IF i <= sampleI THEN sampleI - i + 1
                                              ELSE sampleI + SamplesSize - i + 1
    BY <1>1, SlotBack
  <2> HIDE DEF L, slot
  <2>5. \A i \in 1 .. SamplesSize : /\ slot(i) \in 1 .. SamplesSize
                                    /\ SamplesSize + 1 - i \in 1 .. SamplesSize
                                    /\ samples[slot(i)] = L[SamplesSize + 1 - i]
    <3> SUFFICES ASSUME NEW i \in 1 .. SamplesSize
                 PROVE  /\ slot(i) \in 1 .. SamplesSize /\ SamplesSize + 1 - i \in 1 .. SamplesSize
                        /\ samples[slot(i)] = L[SamplesSize + 1 - i]
      OBVIOUS
    <3>1. SamplesSize + 1 - i \in 1 .. SamplesSize
          /\ Len(hist) - SamplesSize + (SamplesSize + 1 - i) = Len(hist) + 1 - i
      BY <1>1
    <3>2. slot(i) \in 1 .. SamplesSize
      BY <1>1, <2>4
    <3> QED BY <2>2, <2>3, <3>1, <3>2
  <2>6. \A j \in 1 .. SamplesSize : \E i \in 1 .. SamplesSize : slot(i) = j
    <3> SUFFICES ASSUME NEW j \in 1 .. SamplesSize PROVE \E i \in 1 .. SamplesSize : slot(i) = j
      OBVIOUS
    <3> DEFINE i == IF j <= sampleI THEN sampleI - j + 1 ELSE sampleI + SamplesSize - j + 1
    <3>1. i \in 1 .. SamplesSize /\ (IF i <= sampleI THEN sampleI - i + 1
                                     ELSE sampleI + SamplesSize - i + 1) = j
      BY <1>1
    <3> HIDE DEF i
    <3> QED BY <2>4, <3>1
  <2>7. \A j \in 1 .. SamplesSize : \E i \in 1 .. SamplesSize : SamplesSize + 1 - i = j
    <3> SUFFICES ASSUME NEW j \in 1 .. SamplesSize
                 PROVE  \E i \in 1 .. SamplesSize : SamplesSize + 1 - i = j
      OBVIOUS
    <3>1. SamplesSize + 1 - j \in 1 .. SamplesSize /\ SamplesSize + 1 - (SamplesSize + 1 - j) = j
      BY <1>1
    <3> QED BY <3>1
  <2>8. DOMAIN samples = 1 .. SamplesSize /\ DOMAIN L = 1 .. SamplesSize
    BY <1>1, <2>2
  <2>9. ToSet(samples) \subseteq ToSet(L)
    <3> SUFFICES ASSUME NEW j \in 1 .. SamplesSize PROVE samples[j] \in ToSet(L)
      BY <2>8 DEF ToSet
    <3> QED BY <2>5, <2>6, <2>8 DEF ToSet
  <2>10. ToSet(L) \subseteq ToSet(samples)
    <3> SUFFICES ASSUME NEW j \in 1 .. SamplesSize PROVE L[j] \in ToSet(samples)
      BY <2>8 DEF ToSet
    <3> QED BY <2>5, <2>7, <2>8 DEF ToSet
  <2> QED BY <2>9, <2>10 DEF L
<1> QED BY <1>2, <1>3

(* A start from a saved copy.                                              *)
LEMMA RestoredRings ==
    ASSUME CountersTyped, app # NoState, CopyExact(app), RestoreCounters
    PROVE  RecentExact' /\ SamplesExact'
<1>1. /\ RecentSize \in Nat \ {0} /\ SamplesSize \in Nat \ {0}
      /\ app.hist \in Seq(Times) /\ app.recent \in Seq(Times) /\ app.samples \in Seq(Times)
      /\ DOMAIN recent = 0 .. RecentSize - 1
  BY CountersAssumption DEF CountersTyped, CountersTypeOK, Copies, Saved
<1>2. /\ count' = app.count /\ samples' = app.samples /\ sampleI' = 0 /\ restored' = 0
      /\ recent' = [i \in DOMAIN recent |-> IF i < Len(app.recent) THEN app.recent[i + 1] ELSE 0]
      /\ nRecent' = Len(app.recent) /\ recentAt' = nRecent' % RecentSize /\ hist' = app.hist
  BY DEF RestoreCounters
<1>3. /\ app.count = Len(app.hist) /\ app.recent = Latest(app.hist, RecentSize)
      /\ Len(app.samples) = AtMost(Len(app.hist), SamplesSize)
      /\ Len(app.hist) <= SamplesSize => app.samples = app.hist
  BY DEF CopyExact
<1>4. /\ Len(app.recent) = AtMost(Len(app.hist), RecentSize) /\ nRecent' \in 0 .. RecentSize
      /\ \A j \in 1 .. nRecent' : app.recent[j] = app.hist[Len(app.hist) - nRecent' + j]
  <2>1. /\ Len(app.recent) = AtMost(Len(app.hist), RecentSize)
        /\ \A j \in 1 .. AtMost(Len(app.hist), RecentSize) :
              app.recent[j] = app.hist[Len(app.hist) - AtMost(Len(app.hist), RecentSize) + j]
    <3>1. \A h \in Seq(Times) :
            /\ Len(Latest(h, RecentSize)) = AtMost(Len(h), RecentSize)
            /\ \A j \in 1 .. AtMost(Len(h), RecentSize) :
                  Latest(h, RecentSize)[j] = h[Len(h) - AtMost(Len(h), RecentSize) + j]
      BY <1>1, LatestIs
    <3> QED BY <1>1, <1>3, <3>1
  <2>2. AtMost(Len(app.hist), RecentSize) \in 0 .. RecentSize
    BY <1>1 DEF AtMost
  <2> QED BY <1>2, <2>1, <2>2
<1>5. recentAt' = (IF nRecent' = RecentSize THEN 0 ELSE nRecent')
  <2>1. \A n \in Nat \ {0} : \A k \in 0 .. n : k % n = (IF k = n THEN 0 ELSE k)
    OBVIOUS
  <2> QED BY <1>1, <1>2, <1>4, <2>1
<1>6. ASSUME NEW i \in 1 .. nRecent'
      PROVE  recent'[(recentAt' + RecentSize - i) % RecentSize] = hist'[Len(hist') + 1 - i]
  <2>1. (recentAt' + RecentSize - i) % RecentSize = nRecent' - i
    <3>1. i \in 1 .. RecentSize /\ recentAt' \in 0 .. RecentSize - 1
      BY <1>1, <1>4, <1>5
    <3>2. (recentAt' + RecentSize - i) % RecentSize
            = (IF i <= recentAt' THEN recentAt' - i ELSE recentAt' + RecentSize - i)
      BY <1>1, <3>1, SlotBack
    <3> QED BY ONLY <1>1, <1>4, <1>5, <3>1, <3>2, i \in 1 .. nRecent'
  <2>2. /\ nRecent' - i \in 0 .. RecentSize - 1 /\ nRecent' - i < nRecent'
        /\ nRecent' - i + 1 \in 1 .. nRecent'
    BY <1>1, <1>4
  <2>3. recent'[nRecent' - i] = app.recent[nRecent' - i + 1]
    BY <1>1, <1>2, <2>2
  <2>4. app.recent[nRecent' - i + 1] = app.hist[Len(app.hist) - nRecent' + (nRecent' - i + 1)]
    BY <1>4, <2>2
  <2>5. Len(app.hist) - nRecent' + (nRecent' - i + 1) = Len(hist') + 1 - i
    <3>1. Len(app.hist) \in Nat /\ nRecent' \in Nat /\ i \in Nat /\ hist' = app.hist
      BY <1>1, <1>2, <1>4
    <3> QED BY ONLY <3>1
  <2> QED BY <1>2, <2>1, <2>3, <2>4, <2>5
<1>7. RecentExact'
  BY <1>2, <1>3, <1>4, <1>6 DEF RecentExact
<1>8. Len(hist') >= SamplesSize => ~(restored' = Len(hist')) /\ \A i \in 1 .. SamplesSize : ~(i <= restored')
  BY <1>1, <1>2
<1>9. SamplesExact'
  BY <1>2, <1>3, <1>8 DEF SamplesExact
<1> QED BY <1>7, <1>9

LEMMA RingsStep ==
    ASSUME RingsInv, [CountersNext]_counterVars
    PROVE  RingsInv'
<1>1. CountersTyped /\ CountersTyped' /\ DOMAIN save = Savers
  BY CountersStep DEF RingsInv, CountersTyped
<1>2. RecentExact /\ SamplesExact
  BY DEF RingsInv
<1>3. ASSUME UNCHANGED registry PROVE RecentExact' /\ SamplesExact'
  BY <1>2, <1>3 DEF registry, RecentExact, SamplesExact
<1>4. CASE ToolServes \/ ToolReturns \/ RestRecords \/ RestServes \/ DayPasses
  <2>1. UNCHANGED <<app, save>>
    BY <1>4 DEF ToolServes, ToolReturns, RestRecords, RestServes, DayPasses, Others, saveVars
  <2>2. CASE ToolServes \/ RestServes \/ DayPasses
    <3>1. UNCHANGED registry
      BY <2>2 DEF ToolServes, RestServes, DayPasses, RecordServed
    <3> QED BY <1>1, <1>3, <2>1, <3>1 DEF RingsInv
  <2>3. CASE ToolReturns \/ RestRecords
    <3>1. \E n \in Times : Record(n)
      <4>1. pending \in Times /\ requests' \in Times
        BY <1>1 DEF CountersTyped, CountersTypeOK
      <4> QED BY <2>3, <4>1 DEF ToolReturns, RestRecords
    <3> QED BY <1>1, <1>2, <2>1, <3>1, RecordKeepsRings DEF RingsInv
  <2> QED BY <1>4, <2>2, <2>3
<1>5. ASSUME NEW s \in Savers,
             ExportRegistry(s) \/ ExportServed(s) \/ SetState(s) \/ SetStateFails(s)
      PROVE  RingsInv'
  <2>1. RecentExact' /\ SamplesExact'
    BY <1>3, <1>5 DEF ExportRegistry, ExportServed, SetState, SetStateFails
  <2>2. ASSUME NEW x, save' = [save EXCEPT ![s] = x],
               app' = app \/ (app' = save[s].data /\ save[s].pc # "idle"),
               x.pc # "idle" => CopyExact(x.data)
        PROVE  RingsInv'
    <3>1. save'[s] = x /\ \A r \in Savers \ {s} : save'[r] = save[r]
      BY <1>1, <2>2
    <3> QED BY <1>1, <2>1, <2>2, <3>1 DEF RingsInv
  <2>3. CASE ExportRegistry(s)
    <3> DEFINE copy == [count |-> count, recent |-> OldestFirst, samples |-> samples,
                        served |-> Never, hist |-> hist, lately |-> Never]
    <3>1. save' = [save EXCEPT ![s] = [pc |-> "served", data |-> copy]] /\ app' = app
      BY <2>3 DEF ExportRegistry
    <3>2. copy.count = count /\ copy.recent = OldestFirst /\ copy.samples = samples /\ copy.hist = hist
      OBVIOUS
    <3> HIDE DEF copy
    <3>3. CopyExact(copy)
      BY <1>1, <1>2, <3>2, ListOfRing DEF CopyExact, RecentExact, SamplesExact
    <3> QED BY <2>2, <3>1, <3>3
  <2>4. CASE ExportServed(s)
    <3> DEFINE copy == [save[s].data EXCEPT !.served = InWindow(served), !.lately = lately]
    <3>1. save' = [save EXCEPT ![s] = [pc |-> "write", data |-> copy]] /\ app' = app
          /\ save[s].pc = "served"
      BY <2>4 DEF ExportServed
    <3>2. save[s].data \in Copies
      BY <1>1, <3>1 DEF CountersTyped
    <3>3. /\ copy.count = save[s].data.count /\ copy.recent = save[s].data.recent
          /\ copy.samples = save[s].data.samples /\ copy.hist = save[s].data.hist
      BY <3>2 DEF Copies, Saved
    <3> HIDE DEF copy
    <3>4. CopyExact(copy)
      BY <3>1, <3>3 DEF RingsInv, CopyExact
    <3> QED BY <2>2, <3>1, <3>4
  <2>5. CASE SetState(s) \/ SetStateFails(s)
    <3>1. save' = [save EXCEPT ![s] = Idle] /\ save[s].pc # "idle" /\ Idle.pc = "idle"
          /\ app' \in {app, save[s].data}
      BY <2>5 DEF SetState, SetStateFails, Idle
    <3> QED BY <2>2, <3>1
  <2> QED BY <1>5, <2>3, <2>4, <2>5
<1>6. CASE ResetRegistry \/ ResetServed \/ DeleteState \/ DeleteFails
  <2>1. UNCHANGED save /\ app' \in {app, NoState}
    BY <1>6 DEF ResetRegistry, ResetServed, DeleteState, DeleteFails, saveVars
  <2>2. ClearRegistry \/ UNCHANGED registry
    BY <1>6 DEF ResetRegistry, ResetServed, DeleteState, DeleteFails
  <2> QED BY <1>1, <1>3, <2>1, <2>2, ClearedRings DEF RingsInv
<1>7. CASE Cancel \/ Close \/ Crash \/ RestoreCounters
  <2>1. app' = app /\ \A s \in Savers : save'[s] = save[s] \/ save'[s].pc = "idle"
    BY <1>7 DEF Cancel, Close, Crash, RestoreCounters, Ended, Idle, saveVars
  <2>2. \/ ClearRegistry \/ UNCHANGED registry
        \/ RestoreCounters /\ app # NoState
    BY <1>7 DEF Cancel, Close, Crash, RestoreCounters
  <2>3. RecentExact' /\ SamplesExact'
    BY <1>1, <1>3, <2>2, ClearedRings, RestoredRings DEF RingsInv
  <2> QED BY <1>1, <2>1, <2>3 DEF RingsInv
<1>8. CASE UNCHANGED counterVars
  <2>1. UNCHANGED <<registry, app, save>>
    BY <1>8 DEF counterVars, saveVars
  <2> QED BY <1>1, <1>3, <2>1 DEF RingsInv
<1> QED BY <1>4, <1>5, <1>6, <1>7, <1>8 DEF CountersNext

(* Both rings hold the latest requests through wraps, restores and resets, *)
(* apart from the samples that are still refilled after a restore          *)
(* (metrics.go:146-157, persist.go:60-101).                                *)
THEOREM RingsLatest == CountersSpec => []RingsHoldTheLatest
<1>1. CountersInit => RingsInv
  <2> SUFFICES ASSUME CountersInit PROVE RingsInv
    OBVIOUS
  <2>1. RecentSize \in Nat \ {0} /\ SamplesSize \in Nat \ {0} /\ Len(<<>>) = 0
    BY CountersAssumption
  <2> QED BY <2>1, CountersStart
             DEF CountersInit, RingsInv, RecentExact, SamplesExact, AtMost, Idle
<1>2. RingsInv => RingsHoldTheLatest
  <2> SUFFICES ASSUME RingsInv PROVE RingsHoldTheLatest
    OBVIOUS
  <2>1. count = Len(hist) /\ RecentList = Reverse(Latest(hist, RecentSize))
    BY ListOfRing DEF RingsInv, RecentExact
  <2>2. Len(hist) <= SamplesSize \/ restored = Len(hist) \/ restored >= SamplesSize
           => ToSet(samples) = ToSet(Latest(hist, SamplesSize))
    BY SamplesOfRing DEF RingsInv
  <2> QED BY <2>1, <2>2 DEF RingsHoldTheLatest
<1> QED BY <1>1, <1>2, RingsStep, PTL DEF CountersSpec

-----------------------------------------------------------------------------
(* The served set m against what was served lately, l, with r requests     *)
(* begun and those up to w out of the window.                              *)
Newer(l, d) == {e \in Documents : l[e] > l[d]}

KeptOf(m, l, r, w) ==
    /\ Cardinality(ServedDocs(m)) <= ServedMax
    /\ \A d \in Documents :
          /\ m[d] \in {0, l[d]} /\ l[d] <= r /\ (l[d] # 0 => Answer[l[d]] = d)
          /\ l[d] > w => m[d] = l[d] \/ Cardinality(Newer(l, d)) >= ServedMax

ServedInv ==
    /\ CountersTyped
    /\ KeptOf(served, lately, requests, dayAgo)
    /\ app # NoState => KeptOf(app.served, app.lately, requests, dayAgo)
    /\ \A s \in Savers : save[s].pc # "idle" =>
          KeptOf(save[s].data.served, save[s].data.lately, requests, dayAgo)

LEMMA Fewer ==
    ASSUME NEW S \in SUBSET Documents, NEW T \in SUBSET S
    PROVE  /\ IsFiniteSet(S) /\ IsFiniteSet(T)
           /\ Cardinality(S) \in Nat /\ Cardinality(T) \in Nat /\ Cardinality(T) <= Cardinality(S)
<1>1. IsFiniteSet(S) /\ IsFiniteSet(T)
  BY CountersAssumption, FS_Subset
<1> QED BY <1>1, FS_Subset, FS_CardinalityType

(* At most ServedMax documents have fewer than ServedMax newer ones, when  *)
(* no two were served at the same time.                                    *)
LEMMA KeepsFew ==
    ASSUME NEW m \in [Documents -> Times],
           \A d, e \in Documents : m[d] = m[e] /\ m[d] # 0 => d = e
    PROVE  Cardinality(ServedDocs(KeepNewest(m))) <= ServedMax
<1> DEFINE K == ServedDocs(KeepNewest(m))
<1>1. K \subseteq Documents /\ \A d \in K : m[d] > 0 /\ Cardinality(Newer(m, d)) < ServedMax
  BY CountersAssumption DEF ServedDocs, KeepNewest, Newer, Times
<1>2. ServedMax \in Nat /\ \A d \in Documents : m[d] \in Nat
  BY CountersAssumption DEF Times
<1>3. CASE K = {}
  <2>1. Cardinality(K) = 0
    BY <1>3, FS_EmptySet
  <2> QED BY <1>2, <2>1
<1>4. CASE K # {}
  <2>1. {m[d] : d \in K} \in SUBSET Nat /\ {m[d] : d \in K} # {}
    BY <1>1, <1>2, <1>4
  <2>2. PICK d \in K : \A e \in K : m[d] <= m[e]
    <3>1. PICK x \in {m[d] : d \in K} : \A y \in {m[d] : d \in K} : x <= y
      BY <2>1, LeastElement
    <3> QED BY <3>1
  <2>3. K \ {d} \subseteq Newer(m, d)
    <3> SUFFICES ASSUME NEW e \in K, e # d PROVE m[e] > m[d]
      BY <1>1 DEF Newer
    <3>1. m[e] # m[d]
      BY <1>1, <1>2
    <3> QED BY <1>1, <1>2, <2>2, <3>1
  <2>4. Newer(m, d) \in SUBSET Documents
    BY DEF Newer
  <2>5. Cardinality(K \ {d}) <= Cardinality(Newer(m, d)) /\ Cardinality(Newer(m, d)) \in Nat
    BY <2>3, <2>4, Fewer
  <2>6. IsFiniteSet(K) /\ Cardinality(K) \in Nat
    BY <1>1, Fewer
  <2>7. Cardinality(K \ {d}) = Cardinality(K) - 1
    BY <2>2, <2>6, FS_RemoveElement
  <2> QED BY <1>1, <1>2, <2>2, <2>5, <2>6, <2>7
<1> QED BY <1>3, <1>4

LEMMA KeptNever == \A r, w \in Nat : KeptOf(Never, Never, r, w)
<1>1. ServedDocs(Never) = {}
  BY DEF ServedDocs, Never
<1>2. Cardinality(ServedDocs(Never)) = 0
  BY <1>1, FS_EmptySet
<1> QED BY <1>2, CountersAssumption DEF KeptOf, Never

LEMMA KeptInWindow ==
    ASSUME NEW m \in [Documents -> Times], NEW l \in [Documents -> Times],
           NEW r \in Nat, dayAgo \in Nat, KeptOf(m, l, r, dayAgo)
    PROVE  KeptOf(InWindow(m), l, r, dayAgo)
<1>1. ServedDocs(InWindow(m)) \subseteq ServedDocs(m) /\ ServedDocs(m) \subseteq Documents
  BY DEF ServedDocs, InWindow, Times
<1>2. Cardinality(ServedDocs(InWindow(m))) <= ServedMax
  <2>1. /\ Cardinality(ServedDocs(m)) <= ServedMax /\ ServedMax \in Nat
    BY CountersAssumption DEF KeptOf
  <2>2. /\ Cardinality(ServedDocs(InWindow(m))) <= Cardinality(ServedDocs(m))
        /\ Cardinality(ServedDocs(m)) \in Nat /\ Cardinality(ServedDocs(InWindow(m))) \in Nat
    BY <1>1, Fewer
  <2> QED BY <2>1, <2>2
<1> QED BY <1>2 DEF KeptOf, InWindow, Times

(* Serving a document: it is the newest, and what goes is old or older than*)
(* ServedMax others.                                                       *)
LEMMA KeptServing ==
    ASSUME NEW m \in [Documents -> Times], NEW l \in [Documents -> Times],
           NEW r \in Nat, NEW n \in 1 .. MaxRequests, dayAgo \in Nat, KeptOf(m, l, r, dayAgo),
           r <= n, dayAgo < n
    PROVE  KeptOf(PruneLocked([m EXCEPT ![Answer[n]] = n]), [l EXCEPT ![Answer[n]] = n], n, dayAgo)
<1> DEFINE a  == Answer[n]
           m1 == [m EXCEPT ![a] = n]
           l1 == [l EXCEPT ![a] = n]
           w  == InWindow(m1)
<1>1. a \in Documents /\ n \in Times /\ n \in Nat /\ ServedMax \in Nat
  BY CountersAssumption DEF Times
<1>2. m1 \in [Documents -> Times] /\ l1 \in [Documents -> Times] /\ w \in [Documents -> Times]
  BY <1>1, InWindowType
<1>3. \A d \in Documents : /\ m1[d] = IF d = a THEN n ELSE m[d]
                           /\ l1[d] = IF d = a THEN n ELSE l[d]
                           /\ w[d] = IF m1[d] > dayAgo THEN m1[d] ELSE 0
                           /\ m1[d] \in Nat /\ l1[d] \in Nat /\ w[d] \in Nat
                           /\ m[d] \in Nat /\ l[d] \in Nat
  <2>1. \A d \in Documents : w[d] = IF m1[d] > dayAgo THEN m1[d] ELSE 0
    BY DEF InWindow
  <2> HIDE DEF w
  <2> QED BY <1>1, <1>2, <2>1 DEF Times
<1>4. \A d \in Documents : l[d] <= r /\ (l[d] # 0 => Answer[l[d]] = d) /\ m[d] \in {0, l[d]}
  BY DEF KeptOf
<1> HIDE DEF m1, l1, w
<1>5. \A d \in Documents : m1[d] \in {0, l1[d]} /\ l1[d] <= n /\ (l1[d] # 0 => Answer[l1[d]] = d)
  BY <1>1, <1>3, <1>4
<1>6. ASSUME NEW d \in Documents, l1[d] > dayAgo
      PROVE  m1[d] = l1[d] \/ Cardinality(Newer(l1, d)) >= ServedMax
  <2>1. CASE d = a
    BY <1>3, <2>1
  <2>2. CASE d # a
    <3>1. m[d] = l[d] \/ Cardinality(Newer(l, d)) >= ServedMax
      BY <1>3, <1>6, <2>2 DEF KeptOf
    <3>2. Newer(l, d) \subseteq Newer(l1, d)
      <4> SUFFICES ASSUME NEW e \in Documents, l[e] > l[d] PROVE l1[e] > l1[d]
        BY DEF Newer
      <4>1. l[d] \in Nat /\ l[e] \in Nat /\ l[e] <= r /\ l1[d] = l[d] /\ (l1[e] = n \/ l1[e] = l[e])
        BY <1>3, <1>4, <2>2
      <4> QED BY <1>1, <4>1
    <3>3. Newer(l1, d) \in SUBSET Documents
      BY DEF Newer
    <3>4. /\ Cardinality(Newer(l, d)) <= Cardinality(Newer(l1, d))
          /\ Cardinality(Newer(l, d)) \in Nat /\ Cardinality(Newer(l1, d)) \in Nat
      BY <3>2, <3>3, Fewer
    <3> QED BY <1>1, <1>3, <2>2, <3>1, <3>4
  <2> QED BY <2>1, <2>2
<1>7. CASE Cardinality(ServedDocs(m1)) <= ServedMax
  <2>1. PruneLocked(m1) = m1
    BY <1>7 DEF PruneLocked
  <2> QED BY <1>5, <1>6, <1>7, <2>1 DEF KeptOf, m1, l1
<1>8. CASE ~(Cardinality(ServedDocs(m1)) <= ServedMax)
  <2> DEFINE k == KeepNewest(w)
  <2>1. PruneLocked(m1) = k
    BY <1>8 DEF PruneLocked, w
  <2>2. \A d \in Documents : /\ k[d] = IF Cardinality(Newer(w, d)) < ServedMax THEN w[d] ELSE 0
                             /\ k[d] \in {0, w[d]}
    BY DEF KeepNewest, Newer
  <2>3. Cardinality(ServedDocs(k)) <= ServedMax
    <3>1. ASSUME NEW d \in Documents, NEW e \in Documents, w[d] = w[e], w[d] # 0 PROVE d = e
      <4>1. w[d] = l1[d] /\ w[e] = l1[e]
        BY <1>3, <1>5, <3>1
      <4> QED BY <1>5, <3>1, <4>1
    <3> QED BY <1>2, <3>1, KeepsFew
  <2> HIDE DEF k
  <2>4. \A d \in Documents : k[d] \in {0, l1[d]}
    BY <1>3, <1>5, <2>2
  <2>5. ASSUME NEW d \in Documents, l1[d] > dayAgo
        PROVE  k[d] = l1[d] \/ Cardinality(Newer(l1, d)) >= ServedMax
    <3> SUFFICES ASSUME m1[d] = l1[d], k[d] # l1[d] PROVE Cardinality(Newer(l1, d)) >= ServedMax
      BY <1>6, <2>5
    <3>1. w[d] = l1[d]
      BY <1>3, <2>5
    <3>2. ~(Cardinality(Newer(w, d)) < ServedMax)
      BY <2>2, <3>1
    <3>3. Newer(w, d) \subseteq Newer(l1, d)
      <4> SUFFICES ASSUME NEW e \in Documents, w[e] > w[d] PROVE l1[e] > l1[d]
        BY DEF Newer
      <4>1. w[e] = l1[e]
        <5>1. w[e] # 0
          BY <1>3
        <5> QED BY <1>3, <1>5, <5>1
      <4> QED BY <3>1, <4>1
    <3>4. Newer(l1, d) \in SUBSET Documents
      BY DEF Newer
    <3>5. /\ Cardinality(Newer(w, d)) <= Cardinality(Newer(l1, d))
          /\ Cardinality(Newer(w, d)) \in Nat /\ Cardinality(Newer(l1, d)) \in Nat
      BY <3>3, <3>4, Fewer
    <3> QED BY <1>1, <3>2, <3>5
  <2> QED BY <1>5, <2>1, <2>3, <2>4, <2>5 DEF KeptOf, m1, l1
<1> QED BY <1>7, <1>8

LEMMA ServedStep ==
    ASSUME ServedInv, [CountersNext]_counterVars
    PROVE  ServedInv'
<1>1. CountersTyped /\ CountersTyped'
  BY CountersStep DEF ServedInv
<1>2. /\ requests \in Nat /\ dayAgo \in Nat /\ requests' \in Nat /\ dayAgo' \in Nat
      /\ served \in [Documents -> Times] /\ lately \in [Documents -> Times]
      /\ DOMAIN save = Savers
  <2>1. MaxRequests \in Nat /\ Times = 0 .. MaxRequests
    BY CountersAssumption DEF Times
  <2>2. requests \in Nat /\ dayAgo \in Nat /\ requests' \in Nat /\ dayAgo' \in Nat
    BY <1>1, <2>1 DEF CountersTyped, CountersTypeOK
  <2>3. save \in [Savers -> [pc : {"idle", "served", "write"}, data : {NoState} \union Copies]]
    BY <1>1 DEF CountersTyped
  <2>4. served \in [Documents -> Times] /\ lately \in [Documents -> Times]
    BY <1>1 DEF CountersTyped, CountersTypeOK
  <2> QED BY <2>2, <2>3, <2>4
<1>3. ASSUME NEW m \in [Documents -> Times], NEW l \in [Documents -> Times],
             KeptOf(m, l, requests, dayAgo),
             requests' >= requests, dayAgo' \in {dayAgo, requests}
      PROVE  KeptOf(m, l, requests', dayAgo')
  <2>1. \A d \in Documents : l[d] \in Nat
    BY DEF Times
  <2> QED BY <1>2, <1>3, <2>1 DEF KeptOf
<1>4. /\ app # NoState => app.served \in [Documents -> Times] /\ app.lately \in [Documents -> Times]
      /\ \A s \in Savers : save[s].pc # "idle" =>
            save[s].data.served \in [Documents -> Times] /\ save[s].data.lately \in [Documents -> Times]
  BY <1>1 DEF CountersTyped, Copies, Saved
<1>5. CASE ToolServes \/ ToolReturns \/ RestRecords \/ RestServes \/ DayPasses
  <2>1. requests' >= requests /\ dayAgo' \in {dayAgo, requests} /\ UNCHANGED <<app, save>>
    BY <1>2, <1>5
       DEF ToolServes, ToolReturns, RestRecords, RestServes, DayPasses, Begin, End, Others, saveVars
  <2>2. KeptOf(served', lately', requests', dayAgo')
    <3>1. CASE ToolReturns \/ RestRecords \/ DayPasses
      <4>1. served' = served /\ lately' = lately
        BY <3>1 DEF ToolReturns, RestRecords, DayPasses, Record, servedVars
      <4> QED BY <1>2, <1>3, <2>1, <4>1 DEF ServedInv
    <3>2. ASSUME NEW n \in 1 .. MaxRequests, RecordServed(n), requests <= n, n = requests',
                 dayAgo < n, dayAgo' = dayAgo
          PROVE  <2>2
      <4>1. /\ served' = PruneLocked([served EXCEPT ![Answer[n]] = n])
            /\ lately' = [lately EXCEPT ![Answer[n]] = n]
        BY <3>2 DEF RecordServed
      <4>2. KeptOf(served, lately, requests, dayAgo)
        BY DEF ServedInv
      <4> QED BY <1>2, <3>2, <4>1, <4>2, KeptServing
    <3>3. CASE ToolServes
      <4>1. RecordServed(requests') /\ requests' = requests + 1 /\ dayAgo' = dayAgo
            /\ requests < MaxRequests
        BY <3>3 DEF ToolServes, Begin, Others
      <4>2. dayAgo <= requests /\ MaxRequests \in Nat
        BY <1>1, CountersAssumption DEF CountersTyped
      <4> QED BY <1>2, <3>2, <4>1, <4>2
    <3>4. CASE RestServes
      <4>1. RecordServed(pending) /\ pending # 0 /\ requests' = requests /\ dayAgo' = dayAgo
        BY <3>4 DEF RestServes, End, Others
      <4>2. pending = requests /\ pending > dayAgo /\ pending \in 1 .. MaxRequests
        BY <1>1, <4>1 DEF CountersTyped, CountersTypeOK, Times
      <4> QED BY <1>2, <3>2, <4>1, <4>2
    <3> QED BY <1>5, <3>1, <3>3, <3>4
  <2>3. app # NoState => KeptOf(app.served, app.lately, requests', dayAgo')
    BY <1>3, <1>4, <2>1 DEF ServedInv
  <2>4. \A s \in Savers : save[s].pc # "idle" =>
           KeptOf(save[s].data.served, save[s].data.lately, requests', dayAgo')
    BY <1>3, <1>4, <2>1 DEF ServedInv
  <2> QED BY <1>1, <2>1, <2>2, <2>3, <2>4 DEF ServedInv
<1>6. ASSUME NEW s \in Savers,
             ExportRegistry(s) \/ ExportServed(s) \/ SetState(s) \/ SetStateFails(s)
      PROVE  ServedInv'
  <2>1. UNCHANGED <<served, lately, requests, dayAgo>>
    BY <1>6 DEF ExportRegistry, ExportServed, SetState, SetStateFails, servedVars, requestVars
  <2>2. ASSUME NEW x, save' = [save EXCEPT ![s] = x],
               app' = app \/ (app' = save[s].data /\ save[s].pc # "idle"),
               x.pc # "idle" => KeptOf(x.data.served, x.data.lately, requests, dayAgo)
        PROVE  ServedInv'
    <3>1. save'[s] = x /\ \A r \in Savers \ {s} : save'[r] = save[r]
      BY <1>2, <2>2
    <3> QED BY <1>1, <2>1, <2>2, <3>1 DEF ServedInv
  <2>3. CASE ExportRegistry(s)
    <3> DEFINE copy == [count |-> count, recent |-> OldestFirst, samples |-> samples,
                        served |-> Never, hist |-> hist, lately |-> Never]
    <3>1. save' = [save EXCEPT ![s] = [pc |-> "served", data |-> copy]] /\ app' = app
      BY <2>3 DEF ExportRegistry
    <3>2. copy.served = Never /\ copy.lately = Never
      OBVIOUS
    <3> HIDE DEF copy
    <3> QED BY <1>2, <2>2, <3>1, <3>2, KeptNever
  <2>4. CASE ExportServed(s)
    <3> DEFINE copy == [save[s].data EXCEPT !.served = InWindow(served), !.lately = lately]
    <3>1. save' = [save EXCEPT ![s] = [pc |-> "write", data |-> copy]] /\ app' = app
          /\ save[s].pc = "served"
      BY <2>4 DEF ExportServed
    <3>2. save[s].data \in Copies
      BY <1>1, <3>1 DEF CountersTyped
    <3>3. copy.served = InWindow(served) /\ copy.lately = lately
      BY <3>2 DEF Copies, Saved
    <3> HIDE DEF copy
    <3>4. KeptOf(InWindow(served), lately, requests, dayAgo)
      BY <1>2, KeptInWindow DEF ServedInv
    <3> QED BY <2>2, <3>1, <3>3, <3>4
  <2>5. CASE SetState(s) \/ SetStateFails(s)
    <3>1. save' = [save EXCEPT ![s] = Idle] /\ save[s].pc # "idle" /\ Idle.pc = "idle"
          /\ app' \in {app, save[s].data}
      BY <2>5 DEF SetState, SetStateFails, Idle
    <3> QED BY <2>2, <3>1
  <2> QED BY <1>6, <2>3, <2>4, <2>5
<1>7. CASE ResetRegistry \/ ResetServed \/ DeleteState \/ DeleteFails
  <2>1. UNCHANGED <<requests, dayAgo, save>> /\ app' \in {app, NoState}
    BY <1>7 DEF ResetRegistry, ResetServed, DeleteState, DeleteFails, requestVars, saveVars
  <2>2. \/ served' = served /\ lately' = lately
        \/ served' = Never /\ lately' = Never
    BY <1>7 DEF ResetRegistry, ResetServed, DeleteState, DeleteFails, servedVars
  <2> QED BY <1>1, <1>2, <2>1, <2>2, KeptNever DEF ServedInv
<1>8. CASE Cancel \/ Close \/ Crash \/ RestoreCounters
  <2>1. UNCHANGED <<requests, dayAgo, app>>
    BY <1>8 DEF Cancel, Close, Crash, RestoreCounters, requestVars, saveVars
  <2>2. \A s \in Savers : save'[s] = save[s] \/ save'[s].pc = "idle"
    BY <1>8 DEF Cancel, Close, Crash, RestoreCounters, Ended, Idle, saveVars
  <2>3. \/ served' = served /\ lately' = lately
        \/ served' = Never /\ lately' = Never
        \/ app # NoState /\ served' = app.served /\ lately' = app.lately
    BY <1>8 DEF Cancel, Close, Crash, RestoreCounters, servedVars
  <2> QED BY <1>1, <1>2, <2>1, <2>2, <2>3, KeptNever DEF ServedInv
<1>9. CASE UNCHANGED counterVars
  <2>1. UNCHANGED <<served, lately, requests, dayAgo, app, save>>
    BY <1>9 DEF counterVars, servedVars, requestVars, saveVars
  <2> QED BY <1>1, <2>1 DEF ServedInv
<1> QED BY <1>5, <1>6, <1>7, <1>8, <1>9 DEF CountersNext

(* The served set stays bounded, and what it misses of the last day made   *)
(* room for ServedMax documents served later (served.go:58-81).            *)
THEOREM ServedLatest == CountersSpec => []ServedAreTheLatest
<1>1. CountersInit => ServedInv
  <2> SUFFICES ASSUME CountersInit PROVE ServedInv
    OBVIOUS
  <2>1. KeptOf(Never, Never, 0, 0)
    BY KeptNever
  <2> QED BY <2>1, CountersStart DEF CountersInit, ServedInv, Idle
<1>2. ServedInv => ServedAreTheLatest
  <2> SUFFICES ASSUME ServedInv, NEW d \in ServedDocs(InWindow(lately))
               PROVE  \/ served[d] = lately[d]
                      \/ /\ served[d] = 0
                         /\ Cardinality({e \in Documents : lately[e] > lately[d]}) >= ServedMax
    BY DEF ServedAreTheLatest, ServedInv, KeptOf
  <2>1. d \in Documents /\ lately[d] > dayAgo
    BY DEF ServedDocs, InWindow
  <2> QED BY <2>1 DEF ServedInv, KeptOf, Newer
<1> QED BY <1>1, <1>2, ServedStep, PTL DEF CountersSpec

-----------------------------------------------------------------------------
(* A reset.  No request up to r is in the history h, in the served set m.  *)
NotCounted(h, r) == \A t \in 1 .. r : t \notin ToSet(h)
NotServed(m, r)  == \A t \in 1 .. r : \A d \in Documents : m[d] # t

ResetInv ==
    /\ CountersTyped
    /\ resetAt <= requests /\ (pending # 0 => resetAt < pending)
    /\ process \in {"closed", "crashed"} => resetPc = "idle"
    /\ ~mixed =>
          /\ NotCounted(hist, resetAt)
          /\ resetPc # "served" => NotServed(served, resetAt)
          /\ resetPc # "idle" => \A s \in Savers : save[s].pc = "idle"
          /\ resetPc = "idle" =>
                /\ app # NoState => NotCounted(app.hist, resetAt) /\ NotServed(app.served, resetAt)
                /\ \A s \in Savers : save[s].pc # "idle" =>
                      /\ NotCounted(save[s].data.hist, resetAt)
                      /\ NotServed(save[s].data.served, resetAt)

(* What keeps a history or a served set free of what was before r.         *)
LEMMA NothingOld ==
    ASSUME NEW r \in Nat
    PROVE  /\ NotCounted(<<>>, r) /\ NotServed(Never, r)
           /\ \A h \in Seq(Times), n \in Times :
                 NotCounted(h, r) /\ r < n => NotCounted(Append(h, n), r)
           /\ \A m \in [Documents -> Times] : NotServed(m, r) => NotServed(InWindow(m), r)
           /\ \A m \in [Documents -> Times], n \in Times, d \in Documents :
                 NotServed(m, r) /\ r < n => NotServed(PruneLocked([m EXCEPT ![d] = n]), r)
<1>1. NotCounted(<<>>, r) /\ NotServed(Never, r)
  BY DEF NotCounted, NotServed, Never, ToSet
<1>2. ASSUME NEW h \in Seq(Times), NEW n \in Times, NotCounted(h, r), r < n
      PROVE  NotCounted(Append(h, n), r)
  <2>1. \A i \in 1 .. Len(h) + 1 : Append(h, n)[i] = IF i <= Len(h) THEN h[i] ELSE n
    OBVIOUS
  <2>2. ToSet(Append(h, n)) \subseteq ToSet(h) \union {n}
    BY <2>1 DEF ToSet
  <2> QED BY <1>2, <2>2 DEF NotCounted, Times
<1>3. \A m \in [Documents -> Times] : NotServed(m, r) => NotServed(InWindow(m), r)
  BY DEF NotServed, InWindow
<1>4. ASSUME NEW m \in [Documents -> Times], NotServed(m, r) PROVE NotServed(PruneLocked(m), r)
  <2>1. InWindow(m) \in [Documents -> Times] /\ NotServed(InWindow(m), r)
    BY <1>3, <1>4, InWindowType
  <2>2. NotServed(KeepNewest(InWindow(m)), r)
    BY <2>1 DEF NotServed, KeepNewest
  <2> QED BY <1>4, <2>2 DEF PruneLocked
<1>5. ASSUME NEW m \in [Documents -> Times], NEW n \in Times, NEW d \in Documents,
             NotServed(m, r), r < n
      PROVE  NotServed(PruneLocked([m EXCEPT ![d] = n]), r)
  <2>1. [m EXCEPT ![d] = n] \in [Documents -> Times] /\ NotServed([m EXCEPT ![d] = n], r)
    BY <1>5 DEF NotServed, Times
  <2> QED BY <1>4, <2>1
<1> QED BY <1>1, <1>2, <1>3, <1>5

LEMMA ResetRequests ==
    ASSUME ResetInv, ToolServes \/ ToolReturns \/ RestRecords \/ RestServes \/ DayPasses
    PROVE  ResetInv'
<1>1. CountersTyped /\ CountersTyped' /\ resetAt \in Nat
  BY RequestTypes DEF ResetInv, CountersTyped
<1>2. UNCHANGED <<process, app, save, resetPc, resetAt, mixed>>
  BY DEF ToolServes, ToolReturns, RestRecords, RestServes, DayPasses, Others, saveVars, resetVars, ghosts
<1>3. /\ requests \in Nat /\ requests' \in Nat /\ pending \in Times /\ pending' \in Times
      /\ pending' # 0 => pending' = requests'
  BY <1>1 DEF CountersTyped, CountersTypeOK, Times
<1>4. /\ requests' >= requests
      /\ pending' # 0 => pending' = requests + 1
      /\ requests' = requests \/ requests' = requests + 1
  BY <1>3 DEF ToolServes, ToolReturns, RestRecords, RestServes, DayPasses, Begin, End
<1>5. resetAt' <= requests' /\ (pending' # 0 => resetAt' < pending')
  BY <1>1, <1>2, <1>3, <1>4 DEF ResetInv
<1>6. /\ hist' = hist \/ \E n \in Times : resetAt < n /\ hist' = Append(hist, n)
      /\ \/ served' = served
         \/ \E n \in Times, d \in Documents :
               resetAt < n /\ served' = PruneLocked([served EXCEPT ![d] = n])
  <2>1. CASE DayPasses
    BY <2>1 DEF DayPasses, registry, servedVars
  <2>2. ASSUME NEW n \in {pending, requests'}, n # 0, resetAt < n, n \in Times,
               Record(n) \/ RecordServed(n)
        PROVE  <1>6
    <3>1. Answer[n] \in Documents
      BY <2>2, CountersAssumption DEF Times
    <3>2. CASE Record(n)
      <4>1. hist' = Append(hist, n) /\ served' = served
        BY <3>2 DEF Record, servedVars
      <4> QED BY <2>2, <4>1
    <3>3. CASE RecordServed(n)
      <4>1. hist' = hist /\ served' = PruneLocked([served EXCEPT ![Answer[n]] = n])
        BY <3>3 DEF RecordServed, registry
      <4> QED BY <2>2, <3>1, <4>1
    <3> QED BY <2>2, <3>2, <3>3
  <2>3. CASE ToolServes \/ RestRecords
    <3>1. pending' = requests' /\ requests' = requests + 1
          /\ (Record(requests') \/ RecordServed(requests'))
      BY <2>3 DEF ToolServes, RestRecords, Begin
    <3>2. requests' # 0 /\ requests' \in Times /\ resetAt < requests'
      BY <1>2, <1>3, <1>5, <3>1
    <3> QED BY <2>2, <3>1, <3>2
  <2>4. CASE ToolReturns \/ RestServes
    <3>1. pending # 0 /\ (Record(pending) \/ RecordServed(pending))
      BY <2>4 DEF ToolReturns, RestServes, End
    <3>2. resetAt < pending
      BY <3>1 DEF ResetInv
    <3> QED BY <1>3, <2>2, <3>1, <3>2
  <2> QED BY <2>1, <2>3, <2>4
<1>7. hist \in Seq(Times) /\ served \in [Documents -> Times]
  BY <1>1 DEF CountersTyped, CountersTypeOK
<1>8. /\ NotCounted(hist, resetAt) => NotCounted(hist', resetAt)
      /\ NotServed(served, resetAt) => NotServed(served', resetAt)
  <2>1. NotCounted(hist, resetAt) => NotCounted(hist', resetAt)
    <3>1. \A h \in Seq(Times), n \in Times :
             NotCounted(h, resetAt) /\ resetAt < n => NotCounted(Append(h, n), resetAt)
      BY <1>1, NothingOld
    <3> QED BY <1>6, <1>7, <3>1
  <2>2. NotServed(served, resetAt) => NotServed(served', resetAt)
    <3>1. \A m \in [Documents -> Times], n \in Times, d \in Documents :
             NotServed(m, resetAt) /\ resetAt < n => NotServed(PruneLocked([m EXCEPT ![d] = n]), resetAt)
      BY <1>1, NothingOld
    <3> QED BY <1>6, <1>7, <3>1
  <2> QED BY <2>1, <2>2
<1> QED BY <1>1, <1>2, <1>5, <1>8 DEF ResetInv

LEMMA ResetSaves ==
    ASSUME ResetInv, NEW s \in Savers,
           ExportRegistry(s) \/ ExportServed(s) \/ SetState(s) \/ SetStateFails(s)
    PROVE  ResetInv'
<1>1. CountersTyped /\ CountersTyped' /\ resetAt \in Nat /\ DOMAIN save = Savers
  BY SaveTypes DEF ResetInv, CountersTyped
<1>2. UNCHANGED <<hist, served, requests, pending, resetPc, resetAt>>
  BY DEF ExportRegistry, ExportServed, SetState, SetStateFails, resetVars, registry, servedVars,
         requestVars
<1>3. process' = process \/ process' = "closing"
  BY DEF ExportRegistry, ExportServed, SetState, SetStateFails
<1>4. ASSUME NEW x, save' = [save EXCEPT ![s] = x], ~mixed' => ~mixed,
             ~mixed /\ x.pc # "idle" /\ ~mixed' =>
                resetPc = "idle" /\ NotCounted(x.data.hist, resetAt) /\ NotServed(x.data.served, resetAt),
             \/ app' = app
             \/ ~mixed => app' # NoState /\ NotCounted(app'.hist, resetAt) /\ NotServed(app'.served, resetAt)
      PROVE  ResetInv'
  <2>1. save'[s] = x /\ \A r \in Savers \ {s} : save'[r] = save[r]
    BY <1>1, <1>4
  <2> QED BY <1>1, <1>2, <1>3, <1>4, <2>1 DEF ResetInv
<1>5. CASE ExportRegistry(s)
  <2> DEFINE copy == [count |-> count, recent |-> OldestFirst, samples |-> samples,
                      served |-> Never, hist |-> hist, lately |-> Never]
  <2>1. save' = [save EXCEPT ![s] = [pc |-> "served", data |-> copy]]
        /\ app' = app /\ mixed' = (mixed \/ ~Quiet)
    BY <1>5 DEF ExportRegistry
  <2>2. copy.served = Never /\ copy.hist = hist
    OBVIOUS
  <2> HIDE DEF copy
  <2>3. ~mixed' => resetPc = "idle" /\ ~mixed
    BY <2>1 DEF Quiet
  <2>4. ~mixed => NotCounted(copy.hist, resetAt) /\ NotServed(copy.served, resetAt)
    BY <1>1, <2>2, NothingOld DEF ResetInv
  <2> QED BY <1>4, <2>1, <2>3, <2>4
<1>6. CASE ExportServed(s)
  <2> DEFINE copy == [save[s].data EXCEPT !.served = InWindow(served), !.lately = lately]
  <2>1. save' = [save EXCEPT ![s] = [pc |-> "write", data |-> copy]] /\ save[s].pc = "served"
        /\ app' = app /\ mixed' = mixed
    BY <1>6 DEF ExportServed, ghosts
  <2>2. save[s].data \in Copies /\ served \in [Documents -> Times]
    BY <1>1, <2>1 DEF CountersTyped, CountersTypeOK
  <2>3. copy.served = InWindow(served) /\ copy.hist = save[s].data.hist
    BY <2>2 DEF Copies, Saved
  <2> HIDE DEF copy
  <2>4. ~mixed => /\ resetPc = "idle" /\ NotServed(served, resetAt)
                  /\ NotCounted(save[s].data.hist, resetAt)
    <3>1. ~mixed => resetPc = "idle"
      BY <1>1, <2>1 DEF ResetInv
    <3> QED BY <2>1, <3>1 DEF ResetInv
  <2>5. NotServed(served, resetAt) => NotServed(InWindow(served), resetAt)
    BY <1>1, <2>2, NothingOld
  <2> QED BY <1>4, <2>1, <2>3, <2>4, <2>5
<1>7. CASE SetState(s) \/ SetStateFails(s)
  <2>1. save' = [save EXCEPT ![s] = Idle] /\ save[s].pc = "write" /\ Idle.pc = "idle"
        /\ mixed' = mixed /\ app' \in {app, save[s].data}
    BY <1>7 DEF SetState, SetStateFails, ghosts, Idle
  <2>2. save[s].data \in Copies
    BY <1>1, <2>1 DEF CountersTyped
  <2>3. save[s].data # NoState
    BY <2>2, CountersAssumption DEF Copies
  <2>4. ~mixed => resetPc = "idle"
    BY <1>1, <2>1 DEF ResetInv
  <2>5. ~mixed => NotCounted(save[s].data.hist, resetAt) /\ NotServed(save[s].data.served, resetAt)
    BY <2>1, <2>4 DEF ResetInv
  <2> QED BY <1>4, <2>1, <2>3, <2>5
<1> QED BY <1>5, <1>6, <1>7

LEMMA ResetResets ==
    ASSUME ResetInv, ResetRegistry \/ ResetServed \/ DeleteState \/ DeleteFails
    PROVE  ResetInv'
<1>1. CountersTyped /\ CountersTyped' /\ resetAt \in Nat
  BY ResetTypes DEF ResetInv, CountersTyped
<1>2. UNCHANGED <<process, save, requests, pending>>
  BY DEF ResetRegistry, ResetServed, DeleteState, DeleteFails, saveVars, requestVars
<1>3. CASE ResetRegistry
  <2>1. /\ process \in Running /\ mixed' = ~Quiet /\ hist' = <<>> /\ resetPc' = "served"
        /\ resetAt' = IF pending = 0 THEN requests ELSE pending - 1
    BY <1>3 DEF ResetRegistry, ClearRegistry
  <2>2. resetAt' <= requests /\ (pending # 0 => resetAt' < pending) /\ resetAt' \in Nat
    BY <1>1, <2>1 DEF CountersTyped, CountersTypeOK, Times
  <2>3. NotCounted(hist', resetAt')
    BY <2>1, <2>2, NothingOld
  <2>4. ~mixed' => \A s \in Savers : save[s].pc = "idle"
    BY <2>1 DEF Quiet
  <2>5. process \notin {"closed", "crashed"}
    BY <2>1 DEF Running
  <2> QED BY <1>1, <1>2, <2>1, <2>2, <2>3, <2>4, <2>5 DEF ResetInv
<1>4. CASE ResetServed
  <2>1. resetPc = "served" /\ resetPc' = "delete" /\ served' = Never
        /\ UNCHANGED <<hist, resetAt, mixed>>
    BY <1>4 DEF ResetServed, registry, ghosts
  <2>2. NotServed(served', resetAt)
    BY <1>1, <2>1, NothingOld
  <2> QED BY <1>1, <1>2, <2>1, <2>2 DEF ResetInv
<1>5. CASE DeleteState
  <2>1. resetPc = "delete" /\ resetPc' = "idle" /\ app' = NoState
        /\ UNCHANGED <<hist, served, resetAt, mixed>>
    BY <1>5 DEF DeleteState, registry, servedVars, ghosts
  <2> QED BY <1>1, <1>2, <2>1 DEF ResetInv
<1>6. CASE DeleteFails
  <2>1. resetPc' = "idle" /\ resetAt' = 0 /\ mixed' = mixed
    BY <1>6 DEF DeleteFails, ghosts
  <2>2. \A h, m : NotCounted(h, 0) /\ NotServed(m, 0)
    BY DEF NotCounted, NotServed
  <2>3. 0 <= requests /\ (pending # 0 => 0 < pending)
    BY <1>1 DEF CountersTyped, CountersTypeOK, Times
  <2> QED BY <1>1, <1>2, <2>1, <2>2, <2>3 DEF ResetInv
<1> QED BY <1>3, <1>4, <1>5, <1>6

LEMMA ResetLife ==
    ASSUME ResetInv, Cancel \/ Close \/ Crash \/ RestoreCounters
    PROVE  ResetInv'
<1>1. CountersTyped /\ CountersTyped' /\ resetAt \in Nat
  BY LifeTypes DEF ResetInv, CountersTyped
<1>2. UNCHANGED <<app, requests, mixed>>
  BY DEF Cancel, Close, Crash, RestoreCounters, saveVars, requestVars, ghosts
<1>3. CASE Cancel
  <2>1. process' = "ending" /\ UNCHANGED <<hist, served, save, pending, resetPc, resetAt>>
    BY <1>3 DEF Cancel, registry, servedVars, saveVars, requestVars, resetVars
  <2> QED BY <1>1, <1>2, <2>1 DEF ResetInv
<1>4. CASE Close \/ Crash
  <2>1. /\ \A s \in Savers : save'[s].pc = "idle"
        /\ resetPc' = "idle" /\ pending' = 0
        /\ resetAt' = IF resetPc = "idle" THEN resetAt ELSE 0
    BY <1>4 DEF Close, Crash, Ended, Idle
  <2>2. \/ hist' = hist /\ served' = served
        \/ hist' = <<>> /\ served' = Never
    BY <1>4 DEF Close, Crash, registry, servedVars, ClearRegistry
  <2>3. \A h, m : NotCounted(h, 0) /\ NotServed(m, 0)
    BY DEF NotCounted, NotServed
  <2>4. NotCounted(<<>>, resetAt) /\ NotServed(Never, resetAt)
    BY <1>1, NothingOld
  <2>5. requests \in Nat
    BY <1>1 DEF CountersTyped, CountersTypeOK, Times
  <2>6. CASE resetPc = "idle"
    BY <1>1, <1>2, <2>1, <2>2, <2>4, <2>6 DEF ResetInv
  <2>7. CASE resetPc # "idle"
    <3>1. resetAt' = 0 /\ resetAt' <= requests'
      BY <1>2, <2>1, <2>5, <2>7
    <3> QED BY <1>1, <2>1, <2>3, <3>1 DEF ResetInv
  <2> QED BY <2>6, <2>7
<1>5. CASE RestoreCounters
  <2>1. /\ process \in {"closed", "crashed"} /\ process' = "up"
        /\ UNCHANGED <<save, pending, resetPc, resetAt>>
    BY <1>5 DEF RestoreCounters, saveVars, requestVars, resetVars
  <2>2. resetPc = "idle"
    BY <2>1 DEF ResetInv
  <2>3. CASE app = NoState
    <3>1. hist' = <<>> /\ served' = Never
      BY <1>5, <2>3 DEF RestoreCounters, ClearRegistry
    <3>2. NotCounted(hist', resetAt) /\ NotServed(served', resetAt)
      BY <1>1, <3>1, NothingOld
    <3> QED BY <1>1, <1>2, <2>1, <2>2, <3>2 DEF ResetInv
  <2>4. CASE app # NoState
    <3>1. hist' = app.hist /\ served' = app.served
      BY <1>5, <2>4 DEF RestoreCounters
    <3> QED BY <1>1, <1>2, <2>1, <2>2, <2>4, <3>1 DEF ResetInv
  <2> QED BY <2>3, <2>4
<1> QED BY <1>3, <1>4, <1>5

(* After a reset was acknowledged nothing that was over before it comes    *)
(* back, unless a save overlapped it or another (serve.go:100-103,302-312).*)
THEOREM ResetStays == CountersSpec => []ResetStaysReset
<1>1. CountersInit => ResetInv
  <2> SUFFICES ASSUME CountersInit PROVE ResetInv
    OBVIOUS
  <2>1. NotCounted(<<>>, 0) /\ NotServed(Never, 0)
    BY NothingOld
  <2> QED BY <2>1, CountersStart DEF CountersInit, ResetInv, Idle
<1>2. ResetInv /\ [CountersNext]_counterVars => ResetInv'
  <2> SUFFICES ASSUME ResetInv, [CountersNext]_counterVars PROVE ResetInv'
    OBVIOUS
  <2>1. CASE UNCHANGED counterVars
    <3>1. CountersTyped'
      BY CountersStep DEF ResetInv
    <3>2. UNCHANGED <<hist, served, requests, pending, resetPc, resetAt, mixed, app, save, process>>
      BY <2>1 DEF counterVars, registry, servedVars, saveVars, resetVars, requestVars, ghosts
    <3> QED BY <3>1, <3>2 DEF ResetInv
  <2> QED BY <2>1, ResetRequests, ResetSaves, ResetResets, ResetLife DEF CountersNext
<1>3. ResetInv => ResetStaysReset
  BY DEF ResetInv, ResetStaysReset, NotCounted, NotServed, Quiet
<1> QED BY <1>1, <1>2, <1>3, PTL DEF CountersSpec

-----------------------------------------------------------------------------
(* The end of a process in order.                                          *)

(* The copy x has every request counted until the context was cancelled.   *)
Keeps(x) == x.count >= cancelled /\ IsPrefix(x.hist, hist)

StopInv ==
    /\ CountersTyped
    /\ save["final"].pc # "idle" => process = "ending"
    /\ process \in {"closed", "crashed"} => resetPc = "idle" /\ \A s \in Savers : save[s].pc = "idle"
    /\ ~mixed /\ cancelled > 0 =>
          /\ process = "ending" =>
                /\ count >= cancelled
                /\ save["final"].pc # "idle" =>
                      Keeps(save["final"].data) /\ save["ticker"].pc = "idle" /\ resetPc = "idle"
          /\ process \in {"closing", "closed"} =>
                /\ app # NoState /\ Keeps(app)
                /\ resetPc = "idle" /\ \A s \in Savers : save[s].pc = "idle"

LEMMA PrefixGrows ==
    ASSUME NEW S, NEW s \in Seq(S), NEW t \in Seq(S)
    PROVE  /\ IsPrefix(t, t)
           /\ IsPrefix(s, t) => \A x \in S : IsPrefix(s, Append(t, x))
<1>1. IsPrefix(t, t)
  BY DEF IsPrefix
<1>2. ASSUME IsPrefix(s, t), NEW x \in S PROVE IsPrefix(s, Append(t, x))
  <2>1. Len(s) <= Len(t) /\ SubSeq(s, 1, Len(s)) = SubSeq(t, 1, Len(s))
    BY <1>2 DEF IsPrefix
  <2>2. Len(s) <= Len(Append(t, x)) /\ SubSeq(Append(t, x), 1, Len(s)) = SubSeq(t, 1, Len(s))
    BY <2>1
  <2> QED BY <2>1, <2>2 DEF IsPrefix
<1> QED BY <1>1, <1>2

LEMMA StopRequests ==
    ASSUME StopInv, ToolServes \/ ToolReturns \/ RestRecords \/ RestServes \/ DayPasses
    PROVE  StopInv'
<1>1. CountersTyped /\ CountersTyped'
  BY RequestTypes DEF StopInv
<1>2. UNCHANGED <<process, app, save, resetPc, cancelled, mixed>>
  BY DEF ToolServes, ToolReturns, RestRecords, RestServes, DayPasses, Others, saveVars, resetVars, ghosts
<1>3. count' >= count /\ (hist' = hist \/ \E n \in Times : hist' = Append(hist, n))
  <2>1. count \in Nat
    BY <1>1 DEF CountersTyped, CountersTypeOK
  <2>2. CASE ToolServes \/ RestServes \/ DayPasses
    BY <2>1, <2>2 DEF ToolServes, RestServes, DayPasses, RecordServed, registry
  <2>3. CASE ToolReturns \/ RestRecords
    <3>1. \E n \in {pending, requests'} : Record(n)
      BY <2>3 DEF ToolReturns, RestRecords
    <3>2. pending \in Times /\ requests' \in Times
      BY <1>1 DEF CountersTyped, CountersTypeOK
    <3> QED BY <2>1, <3>1, <3>2 DEF Record
  <2> QED BY <2>2, <2>3
<1>5. save["final"].pc # "idle" => save["final"].data \in Copies
  BY <1>1 DEF CountersTyped, Savers
<1>6. app # NoState => app \in Copies
  BY <1>1 DEF CountersTyped
<1>7. Keeps(app) /\ app # NoState => Keeps(app)'
  <2> SUFFICES ASSUME Keeps(app), app # NoState PROVE Keeps(app)'
    OBVIOUS
  <2>1. app.hist \in Seq(Times) /\ hist \in Seq(Times) /\ IsPrefix(app.hist, hist) /\ app.count >= cancelled
    BY <1>1, <1>6 DEF Copies, Saved, CountersTyped, Keeps
  <2>2. IsPrefix(app.hist, hist')
    BY <1>3, <2>1, PrefixGrows
  <2> QED BY <1>2, <2>1, <2>2 DEF Keeps
<1>8. save["final"].pc # "idle" /\ Keeps(save["final"].data) => Keeps(save["final"].data)'
  <2> SUFFICES ASSUME save["final"].pc # "idle", Keeps(save["final"].data)
               PROVE  Keeps(save["final"].data)'
    OBVIOUS
  <2>1. save["final"].data.hist \in Seq(Times) /\ hist \in Seq(Times)
        /\ IsPrefix(save["final"].data.hist, hist) /\ save["final"].data.count >= cancelled
    BY <1>1, <1>5 DEF Copies, Saved, CountersTyped, Keeps
  <2>2. IsPrefix(save["final"].data.hist, hist')
    BY <1>3, <2>1, PrefixGrows
  <2> QED BY <1>2, <2>1, <2>2 DEF Keeps
<1>9. count \in Nat /\ count' \in Nat /\ cancelled \in Nat
  BY <1>1 DEF CountersTyped, CountersTypeOK
<1>10. (count >= cancelled) => (count' >= cancelled')
  BY <1>2, <1>3, <1>9
<1> HIDE DEF Keeps
<1> QED BY <1>1, <1>2, <1>7, <1>8, <1>10 DEF StopInv

LEMMA StopSaves ==
    ASSUME StopInv, NEW s \in Savers,
           ExportRegistry(s) \/ ExportServed(s) \/ SetState(s) \/ SetStateFails(s)
    PROVE  StopInv'
<1>1. CountersTyped /\ CountersTyped'
  BY SaveTypes DEF StopInv
<1>2. UNCHANGED <<registry, resetPc>>
  BY DEF ExportRegistry, ExportServed, SetState, SetStateFails, resetVars
<1>3. DOMAIN save = Savers /\ s \in {"ticker", "final"} /\ hist \in Seq(Times)
  BY <1>1 DEF CountersTyped, Savers
<1> USE DEF StopInv
<1>4. CASE ExportRegistry(s)
  <2> DEFINE copy == [count |-> count, recent |-> OldestFirst, samples |-> samples,
                      served |-> Never, hist |-> hist, lately |-> Never]
  <2>1. /\ save' = [save EXCEPT ![s] = [pc |-> "served", data |-> copy]] /\ save[s].pc = "idle"
        /\ UNCHANGED <<process, app, cancelled, count, hist>>
        /\ process = IF s = "ticker" THEN "up" ELSE "ending"
        /\ mixed' = (mixed \/ ~Quiet)
    BY <1>2, <1>4 DEF ExportRegistry, registry
  <2>2. copy.count = count /\ copy.hist = hist
    OBVIOUS
  <2> HIDE DEF copy
  <2>3. CASE s = "ticker"
    <3>1. save'["final"] = save["final"] /\ save["final"].pc = "idle" /\ process = "up"
      BY <1>3, <2>1, <2>3
    <3> QED BY <1>1, <2>1, <3>1 DEF Savers
  <2>4. CASE s = "final"
    <3>1. save'["ticker"] = save["ticker"] /\ save'["final"].data = copy /\ process = "ending"
      BY <1>3, <2>1, <2>4 DEF Savers
    <3>2. ~mixed' => resetPc = "idle" /\ save["ticker"].pc = "idle" /\ ~mixed
      BY <2>1 DEF Quiet, Savers
    <3>3. IsPrefix(hist, hist)
      BY <1>3, PrefixGrows
    <3>4. count >= cancelled => Keeps(save["final"].data)'
      BY <2>1, <2>2, <3>1, <3>3 DEF Keeps
    <3> QED BY <1>1, <1>2, <2>1, <3>1, <3>2, <3>4 DEF Savers
  <2> QED BY <1>3, <2>3, <2>4
<1>5. CASE ExportServed(s)
  <2> DEFINE copy == [save[s].data EXCEPT !.served = InWindow(served), !.lately = lately]
  <2>1. /\ save' = [save EXCEPT ![s] = [pc |-> "write", data |-> copy]] /\ save[s].pc = "served"
        /\ UNCHANGED <<process, app, cancelled, mixed, count, hist>>
    BY <1>2, <1>5 DEF ExportServed, registry, ghosts
  <2>2. save[s].data \in Copies
    BY <1>1, <2>1 DEF CountersTyped
  <2>3. copy.count = save[s].data.count /\ copy.hist = save[s].data.hist
    BY <2>2 DEF Copies, Saved
  <2> HIDE DEF copy
  <2>4. CASE s = "ticker"
    <3>1. save'["final"] = save["final"] /\ save'["ticker"].pc # "idle"
      BY <1>3, <2>1, <2>4 DEF Savers
    <3>2. Keeps(save["final"].data)' = Keeps(save["final"].data) /\ Keeps(app)' = Keeps(app)
      BY <2>1, <3>1 DEF Keeps
    <3> QED BY <1>1, <1>2, <2>1, <2>4, <3>1, <3>2 DEF Savers
  <2>5. CASE s = "final"
    <3>1. save'["ticker"] = save["ticker"] /\ save'["final"].data = copy
      BY <1>3, <2>1, <2>5 DEF Savers
    <3>2. Keeps(save["final"].data) => Keeps(save["final"].data)'
      BY <2>1, <2>3, <2>5, <3>1 DEF Keeps
    <3> QED BY <1>1, <1>2, <2>1, <2>5, <3>1, <3>2 DEF Savers
  <2> QED BY <1>3, <2>4, <2>5
<1>6. CASE SetState(s) \/ SetStateFails(s)
  <2>1. /\ save' = [save EXCEPT ![s] = Idle] /\ save[s].pc = "write" /\ Idle.pc = "idle"
        /\ process' = IF s = "final" THEN "closing" ELSE process
        /\ UNCHANGED <<mixed, count, hist>>
    BY <1>2, <1>6 DEF SetState, SetStateFails, registry, ghosts, Idle
  <2>2. \A r \in Savers : save'[r].pc # "idle" => save'[r] = save[r] /\ r # s
    BY <1>3, <2>1
  <2>3. CASE s = "ticker"
    <3>1. save'["final"] = save["final"] /\ process' = process /\ cancelled' = cancelled
      BY <1>3, <1>6, <2>1, <2>3 DEF Savers, SetState, SetStateFails, ghosts
    <3>2. Keeps(save["final"].data)' = Keeps(save["final"].data)
      BY <2>1, <3>1 DEF Keeps
    <3> QED BY <1>1, <1>2, <2>1, <2>2, <2>3, <3>1, <3>2 DEF Savers
  <2>4. CASE s = "final" /\ SetState(s)
    <3>1. process = "ending" /\ process' = "closing" /\ cancelled' = cancelled
          /\ app' = save["final"].data /\ save["final"].data \in Copies /\ save["final"].pc # "idle"
      BY <1>1, <2>1, <2>4 DEF SetState, ghosts, CountersTyped, Savers
    <3>2. app' # NoState
      BY <3>1, CountersAssumption DEF Copies
    <3>3. Keeps(save["final"].data) => Keeps(app)'
      BY <2>1, <3>1 DEF Keeps
    <3>4. ~mixed /\ cancelled > 0 => Keeps(app)' /\ resetPc' = "idle" /\ save["ticker"].pc = "idle"
      BY <1>2, <3>1, <3>3
    <3>5. ~mixed /\ cancelled > 0 => \A r \in Savers : save'[r].pc = "idle"
      BY <2>2, <2>4, <3>4 DEF Savers
    <3>6. save'["final"].pc = "idle"
      BY <2>2, <2>4 DEF Savers
    <3> QED BY <1>1, <2>1, <3>1, <3>2, <3>4, <3>5, <3>6
  <2>5. CASE s = "final" /\ SetStateFails(s)
    <3>1. process' = "closing" /\ cancelled' = 0 /\ save'["final"].pc = "idle"
      BY <2>1, <2>2, <2>5 DEF SetStateFails, Savers
    <3> QED BY <1>1, <3>1
  <2> QED BY <1>3, <1>6, <2>3, <2>4, <2>5
<1> QED BY <1>4, <1>5, <1>6

LEMMA StopEnds ==
    ASSUME StopInv, ResetRegistry \/ ResetServed \/ DeleteState \/ DeleteFails
                    \/ Cancel \/ Close \/ Crash \/ RestoreCounters
    PROVE  StopInv'
<1>1. CountersTyped /\ CountersTyped'
  BY ResetTypes, LifeTypes DEF StopInv
<1> USE DEF StopInv
<1>2. CASE ResetRegistry
  <2>1. process \in Running /\ cancelled' = 0 /\ UNCHANGED <<process, save>>
    BY <1>2 DEF ResetRegistry, saveVars
  <2> QED BY <1>1, <2>1 DEF Running
<1>3. CASE ResetServed \/ DeleteState \/ DeleteFails
  <2>1. resetPc # "idle" /\ UNCHANGED <<process, save, registry, ghosts>>
    BY <1>3 DEF ResetServed, DeleteState, DeleteFails, saveVars
  <2> QED BY <1>1, <2>1 DEF registry, ghosts
<1>4. CASE Cancel
  <2>1. /\ process = "up" /\ process' = "ending" /\ cancelled' = count
        /\ UNCHANGED <<registry, save>>
    BY <1>4 DEF Cancel, saveVars
  <2>2. save["final"].pc = "idle" /\ count \in Nat
    BY <1>1, <2>1 DEF CountersTyped, CountersTypeOK
  <2> QED BY <1>1, <2>1, <2>2 DEF registry
<1>5. CASE Close \/ Crash
  <2>1. /\ \A s \in Savers : save'[s].pc = "idle"
        /\ resetPc' = "idle"
    BY <1>5 DEF Close, Crash, Ended, Idle
  <2>2. save'["final"].pc = "idle"
    BY <2>1 DEF Savers
  <2>3. CASE Close
    <3>1. process = "closing" /\ process' = "closed" /\ UNCHANGED <<registry, app, ghosts>>
      BY <2>3 DEF Close
    <3>2. Keeps(app) => Keeps(app)'
      BY <3>1 DEF Keeps, registry, ghosts
    <3> QED BY <1>1, <2>1, <2>2, <3>1, <3>2 DEF ghosts
  <2>4. CASE Crash
    <3>1. process' = "crashed"
      BY <2>4 DEF Crash
    <3> QED BY <1>1, <2>1, <2>2, <3>1
  <2> QED BY <1>5, <2>3, <2>4
<1>6. CASE RestoreCounters
  <2>1. process \in {"closed", "crashed"} /\ process' = "up" /\ UNCHANGED save
    BY <1>6 DEF RestoreCounters, saveVars
  <2>2. save["final"].pc = "idle"
    BY <2>1 DEF Savers
  <2> QED BY <1>1, <2>1, <2>2
<1> QED BY <1>2, <1>3, <1>4, <1>5, <1>6

(* What the process saved when it ended in order has every request counted *)
(* before the context was cancelled, unless saves overlapped or the last   *)
(* write failed (serve.go:75-77).                                          *)
THEOREM CleanStopKept == CountersSpec => []CleanStopKeepsCounters
<1>1. CountersInit => StopInv
  BY CountersStart DEF CountersInit, StopInv, Idle, Savers
<1>2. StopInv /\ [CountersNext]_counterVars => StopInv'
  <2> SUFFICES ASSUME StopInv, [CountersNext]_counterVars PROVE StopInv'
    OBVIOUS
  <2>1. CASE UNCHANGED counterVars
    <3>1. CountersTyped'
      BY CountersStep DEF StopInv
    <3> QED
      BY <2>1, <3>1
         DEF counterVars, registry, saveVars, resetVars, ghosts, StopInv, Keeps
  <2> QED BY <2>1, StopRequests, StopSaves, StopEnds DEF CountersNext
<1>3. StopInv => CleanStopKeepsCounters
  BY DEF StopInv, CleanStopKeepsCounters, Keeps
<1> QED BY <1>1, <1>2, <1>3, PTL DEF CountersSpec
=============================================================================
