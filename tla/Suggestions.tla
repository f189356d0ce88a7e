----------------------------- MODULE Suggestions -----------------------------
(***************************************************************************)
(* The dashboard's link suggestions (internal/httpapi linkSuggestions and  *)
(* ignoreLinkSuggestion): a list kept under the fingerprint it was asked   *)
(* for, requests that read the fingerprint before the list's lock, people  *)
(* who dismiss a suggestion, and runs that rewrite the index.              *)
(*                                                                         *)
(* A suggestion is a pair of documents: one mentions the other in its text *)
(* and neither links to the other.  SuggestLinks reads the documents and   *)
(* links, the dismissed pairs and the text in queries of their own.        *)
(***************************************************************************)
EXTENDS Naturals, FiniteSets

CONSTANTS
    Readers,      \* requests for the list
    Pairs,        \* <<from, to>> of documents
    Contents,     \* contents of the index, also their fingerprints
    Unlinked,     \* Unlinked[c], pairs of documents there that are not linked
    Mentions,     \* Mentions[c], pairs whose text mentions the other
    NoList,       \* suggested is nil
    NoPrint,      \* the empty fingerprint
    MaxRewrites,  \* bound: writes of the index, by runs that may fail
    MaxDismissals \* bound: dismissals

ASSUME SuggestionsAssumption ==
    /\ NoPrint \notin Contents /\ Contents # {}
    /\ NoList \notin Pairs \union Readers /\ \A list \in SUBSET Pairs : NoList # list
    /\ Unlinked \in [Contents -> SUBSET Pairs] /\ Mentions \in [Contents -> SUBSET Pairs]
    /\ MaxRewrites \in Nat /\ MaxDismissals \in Nat

VARIABLES
    tables,      \* documents, doc_links and chunks
    published,   \* the fingerprint in sync_state
    ignores,     \* link_ignores
    suggestFor, suggested,   \* the cached list
    suggestMu,   \* who holds the lock, or NoList
    asking,      \* each request: its next step, the fingerprint, what it read
    dismissing,  \* the pair being dismissed, or "clear", and the next step
    rewrites, dismissals,
    dismissed,   \* auxiliary: dismissals that were acknowledged
    had,         \* auxiliary: contents the index has had
    reverted     \* auxiliary: it went back to one of them

listVars    == <<suggestFor, suggested, suggestMu>>
indexVars   == <<tables, published, rewrites, had, reverted>>
dismissVars == <<ignores, dismissing, dismissals, dismissed>>
suggestVars == <<listVars, indexVars, dismissVars, asking>>

NotAsking     == [pc |-> "idle", fp |-> NoPrint, pairs |-> {}]
NotDismissing == [pc |-> "idle", pair |-> NoList]
FreshList == (Unlinked[published] \intersect Mentions[published]) \ ignores

SuggestionsInit ==
    /\ published = CHOOSE c \in Contents : TRUE   \* a run precedes serving
    /\ tables = published /\ had = {published}
    /\ ignores = {} /\ dismissed = {} /\ reverted = FALSE
    /\ suggestFor = NoPrint /\ suggested = NoList /\ suggestMu = NoList
    /\ asking = [r \in Readers |-> NotAsking]
    /\ dismissing = NotDismissing
    /\ rewrites = 0 /\ dismissals = 0

-----------------------------------------------------------------------------
(* linkSuggestions.                                                        *)

Ask(r, pc, pairs) == asking' = [asking EXCEPT ![r].pc = pc, ![r].pairs = pairs]

ReadFingerprint(r) ==
    /\ asking[r].pc = "idle"
    /\ asking' = [asking EXCEPT ![r] = [pc |-> "lock", fp |-> published, pairs |-> {}]]
    /\ UNCHANGED <<listVars, indexVars, dismissVars>>

Lock(r) ==
    /\ asking[r].pc = "lock" /\ suggestMu = NoList /\ suggestMu' = r
    /\ Ask(r, IF suggestFor # asking[r].fp \/ suggested = NoList THEN "links" ELSE "answer", {})
    /\ UNCHANGED <<suggestFor, suggested, indexVars, dismissVars>>

QueryLinks(r) ==
    /\ asking[r].pc = "links" /\ Ask(r, "ignores", Unlinked[tables])
    /\ UNCHANGED <<listVars, indexVars, dismissVars>>

QueryIgnores(r) ==
    /\ asking[r].pc = "ignores" /\ Ask(r, "text", asking[r].pairs \ ignores)
    /\ UNCHANGED <<listVars, indexVars, dismissVars>>

QueryTextAndPrint(r) ==
    /\ asking[r].pc = "text" /\ Ask(r, "answer", {})
    /\ suggested' = asking[r].pairs \intersect Mentions[tables]
    /\ suggestFor' = published
    /\ UNCHANGED <<suggestMu, indexVars, dismissVars>>
QueryText(r) ==
    /\ asking[r].pc = "text" /\ Ask(r, "answer", {})
    /\ suggested' = asking[r].pairs \intersect Mentions[tables]
    /\ suggestFor' = asking[r].fp
    /\ UNCHANGED <<suggestMu, indexVars, dismissVars>>

AnswerList(r) ==
    /\ asking[r].pc = "answer" /\ suggestMu' = NoList
    /\ asking' = [asking EXCEPT ![r] = NotAsking]
    /\ UNCHANGED <<suggestFor, suggested, indexVars, dismissVars>>

(* A query fails or the request is cancelled: the list stays as it is.     *)
QueryFailsLocked(r) ==
    /\ asking[r].pc \in {"links", "ignores", "text"}
    /\ asking' = [asking EXCEPT ![r] = NotAsking]
    /\ UNCHANGED <<listVars, indexVars, dismissVars>>
QueryFails(r) ==
    /\ asking[r].pc \in {"links", "ignores", "text"} /\ suggestMu' = NoList
    /\ asking' = [asking EXCEPT ![r] = NotAsking]
    /\ UNCHANGED <<suggestFor, suggested, indexVars, dismissVars>>

-----------------------------------------------------------------------------
(* ignoreLinkSuggestion: the row, then the cache, then the answer.         *)

IgnoreLinkSuggestion(p) ==
    /\ dismissing.pc = "idle" /\ dismissals < MaxDismissals
    /\ dismissals' = dismissals + 1
    /\ ignores' = ignores \union {p}
    /\ dismissing' = [pc |-> "forget", pair |-> p]
    /\ UNCHANGED <<dismissed, listVars, indexVars, asking>>

ClearLinkIgnores ==
    /\ dismissing.pc = "idle" /\ ignores # {}
    /\ ignores' = {} /\ dismissed' = {}
    /\ dismissing' = [pc |-> "forget", pair |-> NoList]
    /\ UNCHANGED <<dismissals, listVars, indexVars, asking>>

KeepList ==
    /\ dismissing.pc = "forget"
    /\ dismissing' = NotDismissing
    /\ dismissed' = dismissed \union ({dismissing.pair} \ {NoList})
    /\ UNCHANGED <<ignores, dismissals, listVars, indexVars, asking>>
ForgetList ==
    /\ dismissing.pc = "forget" /\ suggestMu = NoList
    /\ suggestFor' = NoPrint
    /\ dismissing' = NotDismissing
    /\ dismissed' = dismissed \union ({dismissing.pair} \ {NoList})
    /\ UNCHANGED <<ignores, dismissals, suggested, suggestMu, indexVars, asking>>

-----------------------------------------------------------------------------
(* Index runs, as requests see them: documents change one by one, so the   *)
(* tables hold whatever; the fingerprint follows when a run gets that far. *)

Rewrite(c) ==
    /\ rewrites < MaxRewrites /\ c # tables
    /\ tables' = c /\ rewrites' = rewrites + 1
    /\ reverted' = (reverted \/ c \in had) /\ had' = had \union {c}
    /\ UNCHANGED <<published, listVars, dismissVars, asking>>

Publish ==
    /\ published # tables /\ published' = tables
    /\ UNCHANGED <<tables, rewrites, had, reverted, listVars, dismissVars, asking>>

SuggestionsNext ==
    \/ \E r \in Readers :
         \/ ReadFingerprint(r) \/ Lock(r) \/ QueryLinks(r) \/ QueryIgnores(r) \/ QueryText(r)
         \/ AnswerList(r) \/ QueryFails(r)
    \/ \E p \in Pairs : IgnoreLinkSuggestion(p)
    \/ ClearLinkIgnores \/ ForgetList
    \/ \E c \in Contents : Rewrite(c)
    \/ Publish

SuggestionsSpec == SuggestionsInit /\ [][SuggestionsNext]_suggestVars

-----------------------------------------------------------------------------
(* Every variable keeps its range; the lock's holder is past taking it,    *)
(* and nobody else is (server.go:486-487).                                 *)
SuggestionsTypeOK ==
    /\ tables \in Contents /\ published \in Contents
    /\ ignores \subseteq Pairs /\ dismissed \subseteq ignores
    /\ suggestFor \in Contents \union {NoPrint}
    /\ suggested = NoList \/ suggested \subseteq Pairs
    /\ suggestFor # NoPrint => suggested # NoList
    /\ asking \in [Readers -> [pc : {"idle", "lock", "links", "ignores", "text", "answer"},
                               fp : Contents \union {NoPrint}, pairs : SUBSET Pairs]]
    /\ \A r \in Readers : asking[r].pc \notin {"idle", "lock"} <=> suggestMu = r
    /\ dismissing.pc \in {"idle", "forget"}

(* A dismissal that was answered "ok" is in no list that is kept, although *)
(* a request may have read the dismissed pairs before it and stored its    *)
(* list after it (server.go:486-497, 565-577).                             *)
DismissedIsGone ==
    suggestFor # NoPrint /\ suggestMu = NoList => suggested \intersect dismissed = {}

(* When nothing is under way, a list kept under the published fingerprint  *)
(* is the one a new computation would give, unless the index went back to  *)
(* an earlier content: a request that read the fingerprint before a run    *)
(* and then waited for the lock may have stored anything under it          *)
(* (server.go:482-497).                                                    *)
AtRest == suggestMu = NoList /\ dismissing.pc = "idle" /\ tables = published
KeptListIsFresh ==
    AtRest /\ suggestFor = published /\ suggested # NoList => suggested = FreshList \/ reverted
=============================================================================
