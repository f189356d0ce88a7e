---------------------------- MODULE ProposalsProofs ----------------------------
(***************************************************************************)
(* The life of any number of proposals, whatever fails, restarts, lands,   *)
(* is closed or reopened: Proposals is well typed and implements           *)
(* ProposalLifecycle.  The tree of any proposal's commit, over any base    *)
(* git accepts: GitTree changes one file.                                  *)
(***************************************************************************)
EXTENDS Proposals, GitTree, CollectionsProofs, SequenceTheorems, TLAPS

Rows  == [status : Statuses, url : BOOLEAN]
Steps == {"new", "committed", "pushed", "unpushed", "opened", "unopened", "done", "failed"}

(* A row follows its call, and has a URL only if it has a pull request.    *)
RowsFollow == \A p \in Proposals :
    row[p] # NoProposal => step[p] = "done" /\ (row[p].url => pr[p] # "none")

(* Who is listed has a row with a URL; who is asked about was listed.      *)
ListedRows ==
    /\ list \subseteq {p \in Proposals : row[p] # NoProposal /\ row[p].url}
    /\ asked \in {NoAnswer} \union [id : Proposals, status : {"merged", "closed"}]
    /\ asked # NoAnswer => row[asked.id] # NoProposal /\ syncPc = "refresh"

Ranges ==
    /\ step \in [Proposals -> Steps]
    /\ pr \in [Proposals -> Statuses \union {"none"}]
    /\ row \in [Proposals -> {NoProposal} \union Rows]
    /\ remote \in Heads /\ head \in Heads
    /\ syncPc \in {"idle", "list", "refresh"}
    /\ reopened \subseteq Proposals /\ landed \subseteq Proposals /\ hit \subseteq Proposals
    /\ edits \in 0 .. MaxEdits /\ breaks \in 0 .. MaxBreaks

Flags == forge \in BOOLEAN /\ waiting \in BOOLEAN

(* A pull request follows the push, what the forge answered has happened,  *)
(* and what HEAD holds has landed.                                         *)
PullRequestsFollow == \A p \in Proposals :
    /\ step[p] \in {"new", "committed", "pushed", "unpushed"} => pr[p] = "none"
    /\ step[p] = "opened" => pr[p] # "none"
AnsweredHappened == asked # NoAnswer => asked.status \in Fate[asked.id]
HeadLanded == \A p \in Proposals : Landed(p, head) => p \in landed

ProposalsInv ==
    /\ Ranges /\ Flags /\ RowsFollow /\ ListedRows
    /\ PullRequestsFollow /\ AnsweredHappened /\ HeadLanded

LEMMA InvTypes == ProposalsInv => ProposalsTypeOK
<1> SUFFICES ASSUME ProposalsInv PROVE ProposalsTypeOK
  OBVIOUS
<1>1. Ranges /\ Flags /\ RowsFollow /\ ListedRows
  BY DEF ProposalsInv
<1>2. forge \in BOOLEAN /\ waiting \in BOOLEAN
  BY <1>1 DEF Flags
<1>3. QED
  BY <1>1, <1>2, Zenon DEF ProposalsTypeOK, Ranges, RowsFollow, ListedRows, Rows, Steps

LEMMA ProposedAreContents ==
    ASSUME NEW p \in Proposals PROVE Proposed[p] \in Contents
  BY DEF Contents

LEMMA NoRowIsNoRow == NoProposal \notin Rows
  BY ProposalAssumption DEF Rows

LEMMA InitInv == ProposalsInit => ProposalsInv
<1> SUFFICES ASSUME ProposalsInit PROVE ProposalsInv
  OBVIOUS
<1> USE ProposalAssumption
<1>1. Ranges
  <2>1. [text |-> Base, has |-> {}] \in Heads
    BY DEF Heads, Contents
  <2>2. remote \in Heads /\ head \in Heads
    BY <2>1 DEF ProposalsInit
  <2>3. edits \in 0 .. MaxEdits /\ breaks \in 0 .. MaxBreaks
    BY DEF ProposalsInit
  <2>4. /\ reopened \subseteq Proposals /\ landed \subseteq Proposals /\ hit \subseteq Proposals
        /\ step \in [Proposals -> Steps] /\ pr \in [Proposals -> Statuses \union {"none"}]
        /\ row \in [Proposals -> {NoProposal} \union Rows] /\ syncPc \in {"idle", "list", "refresh"}
    BY DEF ProposalsInit, Steps
  <2>5. QED
    BY <2>2, <2>3, <2>4 DEF Ranges
<1>2. Flags
  BY Zenon DEF ProposalsInit, Flags
<1>3. RowsFollow /\ ListedRows /\ PullRequestsFollow /\ AnsweredHappened
  BY DEF ProposalsInit, RowsFollow, ListedRows, PullRequestsFollow, AnsweredHappened
<1>4. HeadLanded
  BY DEF ProposalsInit, HeadLanded, Landed
<1>5. QED
  BY <1>1, <1>2, <1>3, <1>4 DEF ProposalsInv

-----------------------------------------------------------------------------
(* What happened stays: a fate is never taken back.                        *)
LEMMA FateGrows ==
    ASSUME ProposalsInv, NEW q \in Proposals,
           landed \subseteq landed', reopened \subseteq reopened',
           \/ pr'[q] = pr[q]
           \/ pr[q] \in {"none", "open"}
           \/ pr[q] = "closed" /\ q \in reopened'
    PROVE  Fate[q] \subseteq Fate'[q]
<1>1. Fate[q] = {s \in {"merged", "closed"} :
                   \/ pr[q] = s
                   \/ s = "merged" /\ q \in landed
                   \/ s = "closed" /\ q \in reopened}
  BY DEF Fate
<1>2. Fate'[q] = {s \in {"merged", "closed"} :
                   \/ pr'[q] = s
                   \/ s = "merged" /\ q \in landed'
                   \/ s = "closed" /\ q \in reopened'}
  BY DEF Fate
<1>3. QED
  BY <1>1, <1>2

(* Steps that leave pull requests, HEAD and the answer alone keep the      *)
(* second half of the invariant.                                           *)
LEMMA StillLanded ==
    ASSUME ProposalsInv, UNCHANGED <<head, landed>> PROVE HeadLanded'
  BY DEF ProposalsInv, HeadLanded, Landed

LEMMA StillAnswered ==
    ASSUME ProposalsInv, asked' = asked, \A q \in Proposals : Fate[q] \subseteq Fate'[q]
    PROVE  AnsweredHappened'
<1>1. asked # NoAnswer => asked.id \in Proposals /\ asked.status \in Fate[asked.id]
  BY DEF ProposalsInv, AnsweredHappened, ListedRows
<1>2. QED
  BY <1>1 DEF AnsweredHappened

LEMMA SameFate ==
    ASSUME UNCHANGED <<pr, landed, reopened>> PROVE Fate' = Fate
  BY DEF Fate

-----------------------------------------------------------------------------
(* Create. *)

LEMMA CreateKeeps ==
    ASSUME ProposalsInv, NEW p \in Proposals,
           \/ CommitBranch(p) \/ Push(p) \/ PushFails(p) \/ OpenPullRequest(p)
           \/ PullRequestFails(p) \/ CreateFails(p)
    PROVE  ProposalsInv' /\ UNCHANGED row /\ \A q \in Proposals : Fate[q] \subseteq Fate'[q]
<1> USE ProposalAssumption
<1>0. Ranges /\ Flags /\ RowsFollow /\ ListedRows /\ PullRequestsFollow
  BY DEF ProposalsInv
<1>1. /\ UNCHANGED <<row, syncVars, remote, reopened, edits, forge>>
      /\ \E s \in Steps : step' = [step EXCEPT ![p] = s]
      /\ \E s \in {pr[p], "none", "open"} : pr' = [pr EXCEPT ![p] = s]
      /\ step[p] \notin {"new", "done", "failed"} \/ (step[p] = "new" /\ pr' = pr)
      /\ pr' = pr \/ step[p] = "pushed"
      /\ hit' \subseteq Proposals /\ breaks' \in 0 .. MaxBreaks
      /\ step'[p] \in {"new", "committed", "pushed", "unpushed"} =>
            pr' = pr /\ step[p] \in {"new", "committed"}
      /\ step'[p] = "opened" => pr'[p] # "none"
  BY <1>0 DEF CommitBranch, Push, PushFails, OpenPullRequest, PullRequestFails, CreateFails,
              Break, Hit, To, Ranges, Steps, peopleVars
<1>2. \A q \in Proposals : q # p => step'[q] = step[q] /\ pr'[q] = pr[q]
  BY <1>0, <1>1 DEF Ranges
<1>3. row[p] = NoProposal
  BY <1>0, <1>1 DEF RowsFollow
<1>4. Ranges'
  BY <1>0, <1>1 DEF Ranges, Statuses, syncVars
<1>5. Flags'
  BY <1>0, <1>1, Zenon DEF Flags, syncVars
<1>6. RowsFollow' /\ ListedRows'
  BY <1>0, <1>1, <1>2, <1>3 DEF RowsFollow, ListedRows, syncVars
<1>7. PullRequestsFollow'
  <2>1. /\ step'[p] \in {"new", "committed", "pushed", "unpushed"} => pr'[p] = "none"
        /\ step'[p] = "opened" => pr'[p] # "none"
    BY <1>0, <1>1 DEF PullRequestsFollow
  <2>2. QED
    BY <1>0, <1>2, <2>1 DEF PullRequestsFollow
<1>8. \A q \in Proposals : Fate[q] \subseteq Fate'[q]
  <2>1. pr'[p] = pr[p] \/ pr[p] = "none"
    BY <1>0, <1>1 DEF PullRequestsFollow
  <2>2. QED
    BY <1>1, <1>2, <2>1, FateGrows DEF syncVars
<1>9. QED
  BY <1>1, <1>4, <1>5, <1>6, <1>7, <1>8, StillLanded, StillAnswered DEF ProposalsInv, syncVars

LEMMA PutKeeps ==
    ASSUME ProposalsInv, NEW p \in Proposals, PutProposal(p)
    PROVE  /\ ProposalsInv' /\ UNCHANGED <<pr, landed, reopened>>
           /\ row[p] = NoProposal
           /\ \E u \in BOOLEAN : row' = [row EXCEPT ![p] = [status |-> "open", url |-> u]]
<1>0. Ranges /\ Flags /\ RowsFollow /\ ListedRows /\ PullRequestsFollow
  BY DEF ProposalsInv
<1> DEFINE u == step[p] = "opened"
           r == [status |-> "open", url |-> u]
<1>1. /\ row' = [row EXCEPT ![p] = r] /\ step' = [step EXCEPT ![p] = "done"]
      /\ UNCHANGED <<hit, syncVars, peopleVars, forge, breaks>>
      /\ step[p] \in {"pushed", "unpushed", "opened", "unopened"}
  BY DEF PutProposal, To
<1>2. u \in BOOLEAN /\ (u => pr[p] # "none")
  BY <1>0, Zenon DEF PullRequestsFollow
<1> HIDE DEF u
<1>3. r \in Rows
  BY <1>2 DEF Rows, Statuses
<1>4. row[p] = NoProposal
  BY <1>0, <1>1 DEF RowsFollow
<1>5. /\ \A q \in Proposals : q # p => row'[q] = row[q] /\ step'[q] = step[q]
      /\ row'[p] = r /\ step'[p] = "done"
  BY <1>0, <1>1 DEF Ranges
<1>6. Ranges'
  <2>1. row' \in [Proposals -> {NoProposal} \union Rows] /\ step' \in [Proposals -> Steps]
    <3> HIDE DEF r
    <3> QED
      BY <1>0, <1>1, <1>3 DEF Ranges, Steps
  <2>2. QED
    BY <1>0, <1>1, <2>1 DEF Ranges, syncVars, peopleVars
<1>7. Flags'
  BY <1>0, <1>1, Zenon DEF Flags, syncVars
<1>8. RowsFollow'
  BY <1>0, <1>1, <1>2, <1>5 DEF RowsFollow, peopleVars
<1>9. ListedRows'
  BY <1>0, <1>1, <1>4, <1>5 DEF ListedRows, syncVars
<1>10. PullRequestsFollow'
  BY <1>0, <1>1, <1>5 DEF PullRequestsFollow, peopleVars
<1>11. AnsweredHappened'
  BY <1>1, SameFate, StillAnswered DEF syncVars, peopleVars
<1>12. HeadLanded'
  BY <1>1, StillLanded DEF syncVars
<1>13. QED
  BY <1>1, <1>2, <1>4, <1>6, <1>7, <1>8, <1>9, <1>10, <1>11, <1>12
     DEF ProposalsInv, syncVars, peopleVars

-----------------------------------------------------------------------------
(* The refresh. *)

(* Steps that write no row.                                                *)
LEMMA RefreshKeeps ==
    ASSUME ProposalsInv,
           \/ Sync \/ SyncStatuses \/ RefreshDone \/ ListFails \/ UpdateFails \/ IntervalPasses
           \/ \E p \in Proposals : PullRequestStatus(p) \/ LookupFails(p)
    PROVE  ProposalsInv' /\ UNCHANGED row /\ \A q \in Proposals : Fate[q] \subseteq Fate'[q]
<1> USE ProposalAssumption
<1>0. Ranges /\ Flags /\ RowsFollow /\ ListedRows /\ PullRequestsFollow
  BY DEF ProposalsInv
<1>1. /\ UNCHANGED <<createVars, peopleVars, forge>>
      /\ syncPc' \in {"idle", "list", "refresh"}
      /\ breaks' \in 0 .. MaxBreaks
      /\ head' \in {head, remote}
      /\ landed' = landed \union {p \in Proposals : Landed(p, head')} \/ UNCHANGED <<head, landed>>
  BY <1>0 DEF Sync, SyncStatuses, RefreshDone, ListFails, UpdateFails, IntervalPasses,
              PullRequestStatus, LookupFails, Break, Ranges
<1>2. waiting' \in BOOLEAN
  BY <1>0, Zenon DEF Sync, SyncStatuses, RefreshDone, ListFails, UpdateFails, IntervalPasses,
                     PullRequestStatus, LookupFails, Flags
<1>3. Ranges'
  BY <1>0, <1>1 DEF Ranges, createVars, peopleVars
<1>4. Flags'
  BY <1>0, <1>1, <1>2, Zenon DEF Flags
<1>5. RowsFollow' /\ PullRequestsFollow'
  BY <1>0, <1>1 DEF RowsFollow, PullRequestsFollow, createVars, peopleVars
<1>6. \A q \in Proposals : Fate[q] \subseteq Fate'[q]
  BY <1>1, FateGrows DEF peopleVars
<1>7. HeadLanded'
  BY <1>1 DEF ProposalsInv, HeadLanded, Landed
<1>8. CASE \E p \in Proposals : PullRequestStatus(p)
  <2>1. PICK p \in Proposals : PullRequestStatus(p)
    BY <1>8
  <2>2. p \in list /\ row[p] # NoProposal /\ pr[p] \in Statuses
    BY <1>0, <2>1 DEF PullRequestStatus, ListedRows, RowsFollow, Ranges
  <2>3. /\ list' = list \ {p} /\ syncPc = "refresh" /\ syncPc' = syncPc
        /\ row' = row /\ pr' = pr
        /\ asked' = NoAnswer \/ (pr[p] \in {"merged", "closed"} /\ asked' = [id |-> p, status |-> pr[p]])
    BY <2>1, <2>2 DEF PullRequestStatus, Statuses, createVars, peopleVars
  <2>4. ListedRows'
    BY <1>0, <2>2, <2>3 DEF ListedRows
  <2>5. AnsweredHappened'
    BY <2>3 DEF AnsweredHappened, Fate
  <2>6. QED
    BY <1>1, <1>3, <1>4, <1>5, <1>6, <1>7, <2>4, <2>5 DEF ProposalsInv, createVars
<1>9. CASE ~\E p \in Proposals : PullRequestStatus(p)
  <2>1. /\ list' \subseteq list \union ListOpenProposals
        /\ asked' = NoAnswer \/ (asked' = asked /\ (asked # NoAnswer => syncPc' = syncPc))
    BY <1>0, <1>9 DEF Sync, SyncStatuses, RefreshDone, ListFails, UpdateFails, IntervalPasses,
                LookupFails, ListedRows
  <2>2. ListedRows'
    BY <1>0, <1>1, <2>1 DEF ListedRows, ListOpenProposals, createVars
  <2>3. AnsweredHappened'
    <3>1. CASE asked' = NoAnswer
      BY <3>1 DEF AnsweredHappened
    <3>2. CASE asked' = asked
      BY <1>6, <3>2, StillAnswered
    <3>3. QED
      BY <2>1, <3>1, <3>2
  <2>4. QED
    BY <1>1, <1>3, <1>4, <1>5, <1>6, <1>7, <2>2, <2>3 DEF ProposalsInv, createVars
<1>10. QED
  BY <1>8, <1>9

(* Steps that may write a row: of a proposal to which it has happened.     *)
LEMMA SettleKeeps ==
    ASSUME ProposalsInv, UpdateProposalStatus \/ \E p \in Proposals : SettleLanded(p)
    PROVE  /\ ProposalsInv' /\ UNCHANGED <<pr, landed, reopened>>
           /\ \/ UNCHANGED row
              \/ \E p \in Proposals : \E s \in Fate[p] :
                    /\ row[p] # NoProposal /\ row[p].status = "open"
                    /\ row' = [row EXCEPT ![p].status = s]
<1>0. Ranges /\ Flags /\ RowsFollow /\ ListedRows /\ PullRequestsFollow /\ HeadLanded
  BY DEF ProposalsInv
<1>1. /\ UNCHANGED <<step, hit, peopleVars, head, landed, syncPc, waiting, forge, breaks>>
      /\ list' \subseteq list /\ asked' \in {asked, NoAnswer}
  BY DEF UpdateProposalStatus, SettleLanded
<1>2. \/ UNCHANGED row
      \/ \E p \in Proposals : \E s \in Fate[p] :
            /\ row[p] # NoProposal /\ row[p].status = "open"
            /\ row' = [row EXCEPT ![p].status = s]
  <2>1. CASE UpdateProposalStatus
    <3>1. asked.id \in Proposals /\ row[asked.id] # NoProposal /\ asked.status \in Fate[asked.id]
      BY <1>0, <2>1 DEF UpdateProposalStatus, ListedRows, ProposalsInv, AnsweredHappened
    <3>2. QED
      BY <2>1, <3>1 DEF UpdateProposalStatus, Updated
  <2>2. ASSUME NEW p \in Proposals, SettleLanded(p)
        PROVE  \/ UNCHANGED row
               \/ \E s \in Fate[p] : /\ row[p] # NoProposal /\ row[p].status = "open"
                                      /\ row' = [row EXCEPT ![p].status = s]
    <3>1. row[p] # NoProposal
      BY <1>0, <2>2 DEF SettleLanded, ListedRows
    <3>2. Landed(p, head) => "merged" \in Fate[p]
      BY <1>0 DEF HeadLanded, Fate
    <3>3. QED
      BY <2>2, <3>1, <3>2 DEF SettleLanded, Updated
  <2>3. QED
    BY <2>1, <2>2
<1>3. /\ row' \in [Proposals -> {NoProposal} \union Rows]
      /\ \A q \in Proposals : /\ row'[q] = NoProposal <=> row[q] = NoProposal
                              /\ row[q] # NoProposal => row'[q].url = row[q].url
  <2>1. CASE UNCHANGED row
    BY <1>0, <2>1 DEF Ranges
  <2>2. ASSUME NEW p \in Proposals, NEW s \in Fate[p], row[p] # NoProposal,
               row' = [row EXCEPT ![p].status = s]
        PROVE  /\ row' \in [Proposals -> {NoProposal} \union Rows]
               /\ \A q \in Proposals : /\ row'[q] = NoProposal <=> row[q] = NoProposal
                                       /\ row[q] # NoProposal => row'[q].url = row[q].url
    <3>1. row[p] \in Rows /\ s \in Statuses
      BY <1>0, <2>2 DEF Ranges, Fate, Statuses
    <3>2. /\ [row[p] EXCEPT !.status = s] \in Rows
          /\ [row[p] EXCEPT !.status = s].url = row[p].url
      BY <3>1 DEF Rows
    <3>3. /\ row'[p] = [row[p] EXCEPT !.status = s]
          /\ \A q \in Proposals : q # p => row'[q] = row[q]
      BY <1>0, <2>2 DEF Ranges
    <3>4. row' \in [Proposals -> {NoProposal} \union Rows]
      BY <1>0, <2>2, <3>2 DEF Ranges
    <3>5. QED
      BY <2>2, <3>2, <3>3, <3>4, NoRowIsNoRow
  <2>3. QED
    BY <1>2, <2>1, <2>2
<1>4. Ranges'
  BY <1>0, <1>1, <1>3 DEF Ranges, peopleVars
<1>5. Flags'
  BY <1>0, <1>1, Zenon DEF Flags
<1>6. RowsFollow' /\ PullRequestsFollow'
  BY <1>0, <1>1, <1>3 DEF RowsFollow, PullRequestsFollow, peopleVars
<1>7. ListedRows'
  BY <1>0, <1>1, <1>3 DEF ListedRows
<1>8. AnsweredHappened'
  <2>1. CASE asked' = NoAnswer
    BY <2>1 DEF AnsweredHappened
  <2>2. CASE asked' = asked
    BY <1>1, <2>2, SameFate, StillAnswered DEF peopleVars
  <2>3. QED
    BY <1>1, <2>1, <2>2
<1>9. HeadLanded'
  BY <1>1, StillLanded
<1>10. QED
  BY <1>1, <1>2, <1>4, <1>5, <1>6, <1>7, <1>8, <1>9 DEF ProposalsInv, peopleVars

-----------------------------------------------------------------------------
(* The process starts again.                                               *)
LEMMA RestartKeeps ==
    ASSUME ProposalsInv, NEW f \in BOOLEAN, Restart(f)
    PROVE  ProposalsInv' /\ UNCHANGED <<row, pr, landed, reopened>>
<1> USE ProposalAssumption
<1>0. Ranges /\ Flags /\ RowsFollow /\ ListedRows /\ PullRequestsFollow
  BY DEF ProposalsInv
<1> DEFINE cut == {p \in Proposals : step[p] \notin {"new", "done", "failed"}}
<1>1. /\ step' = [p \in Proposals |-> IF p \in cut THEN "failed" ELSE step[p]]
      /\ hit' = hit \union cut /\ breaks' \in 0 .. MaxBreaks
      /\ syncPc' = "idle" /\ list' = {} /\ asked' = NoAnswer
      /\ UNCHANGED <<row, peopleVars, head, landed>>
  BY <1>0 DEF Restart, Hit, Break, Ranges
<1>2. forge' \in BOOLEAN /\ waiting' \in BOOLEAN
  BY Zenon DEF Restart
<1>3. Ranges'
  BY <1>0, <1>1 DEF Ranges, Steps, peopleVars
<1>4. RowsFollow' /\ ListedRows' /\ PullRequestsFollow' /\ AnsweredHappened'
  BY <1>0, <1>1 DEF RowsFollow, ListedRows, PullRequestsFollow, AnsweredHappened, peopleVars
<1>5. HeadLanded'
  BY <1>1, StillLanded
<1>6. Flags'
  BY <1>2 DEF Flags
<1>7. QED
  BY <1>1, <1>3, <1>4, <1>5, <1>6 DEF ProposalsInv, peopleVars

-----------------------------------------------------------------------------
(* People. *)
LEMMA PeopleKeep ==
    ASSUME ProposalsInv,
           \/ \E p \in Proposals : Merge(p) \/ ClosePullRequest(p) \/ ReopenPullRequest(p)
           \/ \E t \in Contents : EditDocument(t)
    PROVE  ProposalsInv' /\ UNCHANGED row /\ \A q \in Proposals : Fate[q] \subseteq Fate'[q]
<1> USE ProposalAssumption
<1>0. Ranges /\ Flags /\ RowsFollow /\ ListedRows /\ PullRequestsFollow
  BY DEF ProposalsInv
<1>1. UNCHANGED <<createVars, syncVars, forge, breaks>> /\ edits' \in 0 .. MaxEdits
  BY <1>0 DEF Merge, ClosePullRequest, ReopenPullRequest, EditDocument, Rest, Edit, Ranges
<1>2. remote' \in Heads
  <2>1. ASSUME NEW p \in Proposals, Merge(p) PROVE remote' \in Heads
    <3>1. PICK t \in {Proposed[p], remote.text}, by \in {{p}, {}} :
             remote' = [text |-> t, has |-> remote.has \union by]
      BY <2>1 DEF Merge
    <3>2. t \in Contents /\ remote.has \union by \subseteq Proposals
      BY <1>0, ProposedAreContents DEF Ranges, Heads
    <3>3. QED
      BY <3>1, <3>2 DEF Heads
  <2>2. ASSUME NEW t \in Contents, EditDocument(t) PROVE remote' \in Heads
    BY <1>0, <2>2 DEF EditDocument, Ranges, Heads
  <2>3. CASE remote' = remote
    BY <1>0, <2>3 DEF Ranges
  <2>4. QED
    BY <2>1, <2>2, <2>3 DEF ClosePullRequest, ReopenPullRequest
<1>3. /\ pr' \in [Proposals -> Statuses \union {"none"}]
      /\ reopened \subseteq reopened' /\ reopened' \subseteq Proposals
      /\ \A q \in Proposals : /\ pr'[q] = "none" <=> pr[q] = "none"
                              /\ \/ pr'[q] = pr[q]
                                 \/ pr[q] \in {"none", "open"}
                                 \/ pr[q] = "closed" /\ q \in reopened'
  BY <1>0 DEF Merge, ClosePullRequest, ReopenPullRequest, EditDocument, Ranges, Statuses
<1>4. Ranges'
  BY <1>0, <1>1, <1>2, <1>3 DEF Ranges, createVars, syncVars
<1>5. Flags'
  BY <1>0, <1>1, Zenon DEF Flags, syncVars
<1>6. RowsFollow' /\ ListedRows' /\ PullRequestsFollow'
  BY <1>0, <1>1, <1>3 DEF RowsFollow, ListedRows, PullRequestsFollow, createVars, syncVars
<1>7. \A q \in Proposals : Fate[q] \subseteq Fate'[q]
  BY <1>1, <1>3, FateGrows DEF syncVars
<1>8. AnsweredHappened' /\ HeadLanded'
  BY <1>1, <1>7, StillAnswered, StillLanded DEF syncVars
<1>9. QED
  BY <1>1, <1>4, <1>5, <1>6, <1>7, <1>8 DEF ProposalsInv, createVars

-----------------------------------------------------------------------------
LEMMA NextKeeps ==
    ASSUME ProposalsInv, [ProposalsNext]_proposalVars
    PROVE  ProposalsInv' /\ [Lifecycle!LifeNext]_<<Life, Fate>>
<1>1. ASSUME row' = row PROVE Life' = Life
  BY <1>1 DEF Life
<1>2. ASSUME row' = row, \A q \in Proposals : Fate[q] \subseteq Fate'[q]
      PROVE  [Lifecycle!LifeNext]_<<Life, Fate>>
  BY <1>1, <1>2 DEF Lifecycle!LifeNext, Lifecycle!Happen
<1>3. ASSUME row' = row, UNCHANGED <<pr, landed, reopened>>
      PROVE  [Lifecycle!LifeNext]_<<Life, Fate>>
  BY <1>1, <1>3, SameFate
<1>4. CASE UNCHANGED proposalVars
  <2>1. UNCHANGED <<step, pr, row, remote, head, forge, waiting, syncPc, list, asked, reopened,
                    landed, hit, edits, breaks>>
    BY <1>4 DEF proposalVars, createVars, syncVars, peopleVars
  <2>2. Ranges' /\ RowsFollow' /\ ListedRows' /\ PullRequestsFollow' /\ HeadLanded'
    BY <2>1 DEF ProposalsInv, Ranges, RowsFollow, ListedRows, PullRequestsFollow,
                HeadLanded, Landed
  <2>3. Flags'
    BY <2>1, Zenon DEF ProposalsInv, Flags
  <2>4. AnsweredHappened'
    BY <2>1, SameFate DEF ProposalsInv, AnsweredHappened
  <2>5. QED
    BY <1>3, <2>1, <2>2, <2>3, <2>4 DEF ProposalsInv
<1>5. ASSUME NEW p \in Proposals, PutProposal(p)
      PROVE  ProposalsInv' /\ [Lifecycle!LifeNext]_<<Life, Fate>>
  <2>1. PICK u \in BOOLEAN : row' = [row EXCEPT ![p] = [status |-> "open", url |-> u]]
    BY <1>5, PutKeeps
  <2>2. row[p] = NoProposal /\ row \in [Proposals -> {NoProposal} \union Rows]
    BY <1>5, PutKeeps DEF ProposalsInv, Ranges
  <2>3. [status |-> "open", url |-> u] # NoProposal
    BY NoRowIsNoRow DEF Rows, Statuses
  <2>4. /\ Life[p] = "unrecorded" /\ Life'[p] = "open"
        /\ \A q \in Proposals : q # p => Life'[q] = Life[q]
    BY <2>1, <2>2, <2>3 DEF Life
  <2>5. Life' = [Life EXCEPT ![p] = "open"]
    BY <2>4 DEF Life
  <2>6. Fate' = Fate
    BY <1>5, PutKeeps, SameFate
  <2>7. Lifecycle!Record(p)
    BY <2>4, <2>5, <2>6 DEF Lifecycle!Record
  <2>8. QED
    BY <1>5, <2>7, PutKeeps DEF Lifecycle!LifeNext
<1>6. CASE UpdateProposalStatus \/ \E p \in Proposals : SettleLanded(p)
  <2>1. ProposalsInv' /\ UNCHANGED <<pr, landed, reopened>>
    BY <1>6, SettleKeeps
  <2>2. ASSUME NEW p \in Proposals, NEW s \in Fate[p], row[p] # NoProposal, row[p].status = "open",
               row' = [row EXCEPT ![p].status = s]
        PROVE  Lifecycle!Settle(p, s) /\ s \in {"merged", "closed"}
    <3>1. row \in [Proposals -> {NoProposal} \union Rows] /\ s \in {"merged", "closed"}
      BY <2>2 DEF ProposalsInv, Ranges, Fate
    <3>2. /\ row'[p] = [row[p] EXCEPT !.status = s]
          /\ \A q \in Proposals : q # p => row'[q] = row[q]
      BY <2>2, <3>1
    <3>3. row'[p] # NoProposal /\ row'[p].status = s
      BY <2>2, <3>1, <3>2, NoRowIsNoRow DEF Rows, Statuses
    <3>4. /\ Life[p] = "open" /\ Life'[p] = s
          /\ \A q \in Proposals : q # p => Life'[q] = Life[q]
      BY <2>2, <3>2, <3>3 DEF Life
    <3>5. Life' = [Life EXCEPT ![p] = s]
      BY <3>4 DEF Life
    <3>6. Fate' = Fate
      BY <2>1, SameFate
    <3>7. QED
      BY <2>2, <3>1, <3>4, <3>5, <3>6 DEF Lifecycle!Settle
  <2>3. CASE UNCHANGED row
    BY <1>3, <2>1, <2>3
  <2>4. CASE ~UNCHANGED row
    BY <1>6, <2>1, <2>2, <2>4, SettleKeeps DEF Lifecycle!LifeNext
  <2>5. QED
    BY <2>3, <2>4
<1>7. ASSUME NEW f \in BOOLEAN, Restart(f)
      PROVE  ProposalsInv' /\ [Lifecycle!LifeNext]_<<Life, Fate>>
  BY <1>3, <1>7, RestartKeeps
<1>8. CASE \/ Sync \/ SyncStatuses \/ RefreshDone \/ ListFails \/ UpdateFails \/ IntervalPasses
           \/ \E p \in Proposals : PullRequestStatus(p) \/ LookupFails(p)
  BY <1>2, <1>8, RefreshKeeps
<1>9. ASSUME NEW p \in Proposals,
             \/ CommitBranch(p) \/ Push(p) \/ PushFails(p) \/ OpenPullRequest(p)
             \/ PullRequestFails(p) \/ CreateFails(p)
      PROVE  ProposalsInv' /\ [Lifecycle!LifeNext]_<<Life, Fate>>
  BY <1>2, <1>9, CreateKeeps
<1>10. CASE \/ \E p \in Proposals : Merge(p) \/ ClosePullRequest(p) \/ ReopenPullRequest(p)
            \/ \E t \in Contents : EditDocument(t)
  BY <1>2, <1>10, PeopleKeep
<1>11. QED
  BY <1>4, <1>5, <1>6, <1>7, <1>8, <1>9, <1>10 DEF ProposalsNext, CreateStep, RefreshStep

LEMMA ProposalsInvariant == ProposalsSpec => []ProposalsInv
  BY InitInv, NextKeeps, PTL DEF ProposalsSpec

(* Every reachable state is well typed, for any number of proposals and    *)
(* whatever people and faults do: in particular only a proposal that is    *)
(* recorded with a URL is ever asked about, and a URL is of a pull request *)
(* (proposal.go:81-99, store/proposals.go:66-70).                          *)
THEOREM ProposalTypes == ProposalsSpec => []ProposalsTypeOK
  BY ProposalsInvariant, InvTypes, PTL

(* Proposals implements the life that ProposalLifecycle promises: recorded *)
(* once, settled at most once, and only as what has happened, although the *)
(* status is read before it is written (proposal.go:55-189).               *)
THEOREM LifecycleImplemented == ProposalsSpec => ImplementsLifecycle
<1>1. ProposalsInit => Lifecycle!LifeInit
  BY DEF ProposalsInit, Lifecycle!LifeInit, Life
<1>2. ProposalsInv /\ [ProposalsNext]_proposalVars => [Lifecycle!LifeNext]_<<Life, Fate>>
  BY NextKeeps
<1>3. QED
  BY <1>1, <1>2, ProposalsInvariant, PTL DEF ProposalsSpec, ImplementsLifecycle, Lifecycle!LifeSpec

-----------------------------------------------------------------------------
(* GitTree.                                                                *)
(*                                                                         *)
(* Paths of files.  UnderOf is what files holds under the first k names of *)
(* p, with the rest of their paths.                                        *)
At(q, f) == [path |-> q \o f.path, mode |-> f.mode, blob |-> f.blob]
UnderOf(F, p, k) == {f \in FileEntries : At(SubSeq(p, 1, k), f) \in F}

LEMMA FileIsARecord ==
    \A f \in FileEntries : /\ f = [path |-> f.path, mode |-> f.mode, blob |-> f.blob]
                     /\ f.path \in Seq(Names) /\ f.path # <<>>
                     /\ f.mode \in Modes \ {"dir"} /\ f.blob \in Blobs
BY DEF FileEntries

LEMMA FileAtIs ==
    ASSUME NEW q \in Seq(Names), NEW f \in FileEntries
    PROVE  At(q, f) \in FileEntries /\ Len(At(q, f).path) = Len(q) + Len(f.path)
<1>1. f.path \in Seq(Names) /\ f.path # <<>> /\ f.mode \in Modes \ {"dir"} /\ f.blob \in Blobs
  BY FileIsARecord
<1>2. q \o f.path \in Seq(Names) /\ Len(q \o f.path) = Len(q) + Len(f.path)
  BY <1>1, ConcatProperties
<1>3. q \o f.path # <<>>
  BY <1>1, ConcatEqualIffEmpty
<1> QED BY <1>1, <1>2, <1>3 DEF At, FileEntries

LEMMA OneName ==
    ASSUME NEW a \in Names
    PROVE  <<a>> \in Seq(Names) /\ Len(<<a>>) = 1 /\ <<a>> # <<>> /\ <<a>>[1] = a
OBVIOUS

LEMMA BeneathIs ==
    ASSUME NEW a \in Names, NEW f \in FileEntries
    PROVE  /\ Beneath(a, f) = At(<<a>>, f) /\ Beneath(a, f) \in FileEntries
           /\ Beneath(a, f).path = <<a>> \o f.path
           /\ Len(Beneath(a, f).path) > 1 /\ Beneath(a, f).path[1] = a
<1>1. Beneath(a, f) = At(<<a>>, f) /\ Beneath(a, f).path = <<a>> \o f.path
  BY DEF Beneath, At
<1>2. <<a>> \in Seq(Names) /\ Len(<<a>>) = 1 /\ <<a>>[1] = a
  BY OneName
<1>3. f.path \in Seq(Names) /\ Len(f.path) \in Nat \ {0}
  BY FileIsARecord, EmptySeq
<1>4. (<<a>> \o f.path)[1] = a
  BY <1>2, <1>3, ConcatProperties
<1>5. Beneath(a, f) \in FileEntries /\ Len(Beneath(a, f).path) = 1 + Len(f.path)
  BY <1>1, <1>2, FileAtIs
<1> QED BY <1>1, <1>3, <1>4, <1>5

LEMMA NamesAssociate == \A u, v, w \in Seq(Names) : (u \o v) \o w = u \o (v \o w)
BY ConcatAssociative

LEMMA ConsInjective ==
    ASSUME NEW a \in Names, NEW s \in Seq(Names), NEW t \in Seq(Names), <<a>> \o s = <<a>> \o t
    PROVE  s = t
<1>1. <<a>> \in Seq(Names)
  OBVIOUS
<1>2. \A x, y, z \in Seq(Names) : x \o y = x \o z => y = z
  BY ConcatSimplifications
<1> QED BY <1>1, <1>2

LEMMA BeneathInjective ==
    ASSUME NEW a \in Names, NEW f \in FileEntries, NEW g \in FileEntries, Beneath(a, f) = Beneath(a, g)
    PROVE  f = g
<1>1. /\ <<a>> \o f.path = <<a>> \o g.path /\ f.mode = g.mode /\ f.blob = g.blob
  BY DEF Beneath
<1>2. f.path \in Seq(Names) /\ g.path \in Seq(Names)
  BY FileIsARecord
<1>3. f.path = g.path
  BY <1>1, <1>2, ConsInjective
<1> QED BY <1>1, <1>3, FileIsARecord

(* A longer path begins with the name of its directory.                    *)
LEMMA UnderNone ==
    ASSUME NEW p \in Seq(Names), NEW F \in SUBSET FileEntries
    PROVE  UnderOf(F, p, 0) = F
<1>1. SubSeq(p, 1, 0) = <<>>
  BY SubSeqEmpty
<1>2. ASSUME NEW f \in FileEntries PROVE At(<<>>, f) = f
  <2>1. <<>> \o f.path = f.path
    BY FileIsARecord, ConcatEmptySeq
  <2> QED BY <2>1, FileIsARecord DEF At
<1> QED BY <1>1, <1>2 DEF UnderOf

LEMMA UnderOne ==
    ASSUME NEW p \in Seq(Names), NEW F, NEW k \in 1 .. Len(p), NEW f \in FileEntries
    PROVE  f \in UnderOf(F, p, k) <=> Beneath(p[k], f) \in UnderOf(F, p, k - 1)
<1>1. /\ p[k] \in Names /\ <<p[k]>> \in Seq(Names) /\ f.path \in Seq(Names)
      /\ SubSeq(p, 1, k - 1) \in Seq(Names)
  BY FileIsARecord, ElementOfSeq, SubSeqProperties, LenProperties
<1>2. SubSeq(p, 1, k) = SubSeq(p, 1, k - 1) \o <<p[k]>>
  BY SubSeqRecursiveSecond
<1>3. SubSeq(p, 1, k) \o f.path = SubSeq(p, 1, k - 1) \o (<<p[k]>> \o f.path)
  <2> DEFINE u == SubSeq(p, 1, k - 1)
             v == <<p[k]>>
             w == f.path
  <2>1. u \in Seq(Names) /\ v \in Seq(Names) /\ w \in Seq(Names) /\ SubSeq(p, 1, k) = u \o v
    BY <1>1, <1>2
  <2> HIDE DEF u, v, w
  <2>2. (u \o v) \o w = u \o (v \o w)
    BY ONLY <2>1, NamesAssociate
  <2>3. SubSeq(p, 1, k) \o w = u \o (v \o w)
    BY <2>1, <2>2
  <2> QED BY <2>3 DEF u, v, w
<1>4. At(SubSeq(p, 1, k), f) = At(SubSeq(p, 1, k - 1), Beneath(p[k], f))
  BY <1>3 DEF At, Beneath
<1>5. Beneath(p[k], f) \in FileEntries
  BY <1>1, BeneathIs
<1> QED BY <1>4, <1>5 DEF UnderOf

LEMMA UnderDirectory ==
    ASSUME NEW p \in Seq(Names), NEW F \in SUBSET FileEntries, NEW n \in 0 .. Len(p)
    PROVE  (\E f \in F : Len(f.path) > n /\ SubSeq(f.path, 1, n) = SubSeq(p, 1, n))
           <=> UnderOf(F, p, n) # {}
<1> DEFINE q == SubSeq(p, 1, n)
<1>0. n \in Nat /\ Len(p) \in Nat /\ n <= Len(p)
  BY LenProperties
<1>1. q \in Seq(Names) /\ Len(q) = n
  BY <1>0, SubSeqProperties, ElementOfSeq
<1>2. ASSUME NEW f \in F, Len(f.path) > n, SubSeq(f.path, 1, n) = q PROVE UnderOf(F, p, n) # {}
  <2> DEFINE r == SubSeq(f.path, n + 1, Len(f.path))
             g == [path |-> r, mode |-> f.mode, blob |-> f.blob]
  <2>1. f.path \in Seq(Names) /\ Len(f.path) \in Nat
    BY FileIsARecord, LenProperties
  <2>2. f.path = SubSeq(f.path, 1, n) \o r
    <3>1. SubSeq(f.path, 1, n) \o SubSeq(f.path, n + 1, Len(f.path)) = SubSeq(f.path, 1, Len(f.path))
      <4>1. 1 \in 1 .. Len(f.path) + 1 /\ n \in 1 - 1 .. Len(f.path) /\ Len(f.path) \in n .. Len(f.path)
        BY <1>0, <1>2, <2>1
      <4> QED BY <2>1, <4>1, ConcatAdjacentSubSeq
    <3> QED BY <2>1, <3>1, SubSeqFull
  <2>3. r \in Seq(Names) /\ Len(r) = Len(f.path) - n
    BY <1>2, <2>1, SubSeqProperties, ElementOfSeq
  <2>4. r # <<>>
    <3> HIDE DEF r
    <3>1. Len(r) # 0
      BY <1>0, <1>2, <2>1, <2>3
    <3> QED BY <3>1, EmptySeq
  <2>5. g \in FileEntries
    BY <2>3, <2>4, FileIsARecord DEF FileEntries
  <2>6. At(q, g) = f
    BY <1>2, <2>2, FileIsARecord DEF At
  <2> QED BY <2>5, <2>6 DEF UnderOf
<1>3. ASSUME NEW g \in UnderOf(F, p, n)
      PROVE  \E f \in F : Len(f.path) > n /\ SubSeq(f.path, 1, n) = q
  <2>1. g \in FileEntries /\ At(q, g) \in F
    BY <1>3 DEF UnderOf
  <2>2. g.path \in Seq(Names) /\ Len(g.path) \in Nat \ {0}
    BY <2>1, FileIsARecord, EmptySeq
  <2>3. Len(At(q, g).path) = n + Len(g.path)
    BY <1>1, <2>1, FileAtIs
  <2>4. SubSeq(q \o g.path, 1, n) = q
    <3>1. CASE n = 0
      BY <1>1, <3>1, SubSeqEmpty, EmptySeq
    <3>2. CASE n # 0
      <4>1. SubSeq(q \o g.path, 1, n) = SubSeq(q, 1, n)
        <5>1. 1 \in 1 .. Len(q) /\ n \in 1 .. Len(q)
          BY <1>0, <1>1, <3>2
        <5> QED BY <1>1, <2>2, <5>1, SubSeqOfConcat1
      <4> QED BY <1>1, <4>1, SubSeqFull
    <3> QED BY <3>1, <3>2
  <2>5. SubSeq(At(q, g).path, 1, n) = q
    BY <2>4 DEF At
  <2> QED BY <2>1, <2>2, <2>3, <2>5
<1> QED BY <1>2, <1>3

LEMMA UnderFile ==
    ASSUME NEW p \in Seq(Names), NEW F \in SUBSET FileEntries, NEW n \in 1 .. Len(p)
    PROVE  (\E f \in F : f.path = SubSeq(p, 1, n)) <=> \E f \in UnderOf(F, p, n - 1) : f.path = <<p[n]>>
<1> DEFINE q == SubSeq(p, 1, n - 1)
<1>1. /\ q \in Seq(Names) /\ p[n] \in Names /\ <<p[n]>> \in Seq(Names) /\ <<p[n]>> # <<>>
      /\ SubSeq(p, 1, n) = q \o <<p[n]>>
  BY SubSeqProperties, LenProperties, ElementOfSeq, SubSeqRecursiveSecond
<1>2. ASSUME NEW f \in F, f.path = q \o <<p[n]>> PROVE \E g \in UnderOf(F, p, n - 1) : g.path = <<p[n]>>
  <2> DEFINE g == [path |-> <<p[n]>>, mode |-> f.mode, blob |-> f.blob]
  <2>1. g \in FileEntries
    BY <1>1, FileIsARecord DEF FileEntries
  <2>2. At(q, g) = f
    BY <1>2, FileIsARecord DEF At
  <2> QED BY <2>1, <2>2 DEF UnderOf
<1>3. ASSUME NEW g \in UnderOf(F, p, n - 1), g.path = <<p[n]>> PROVE \E f \in F : f.path = q \o <<p[n]>>
  <2>1. At(q, g) \in F
    BY <1>3 DEF UnderOf
  <2>2. At(q, g).path = q \o <<p[n]>>
    BY <1>3 DEF At
  <2> QED BY <2>1, <2>2
<1> QED BY <1>1, <1>2, <1>3

-----------------------------------------------------------------------------
(* One file changes.  G is F with the file at p replaced or added.         *)
ModesOf(F, p) == {f.mode : f \in {g \in F : g.path = p}}
NewFile(p, m) == [path |-> p, mode |-> m, blob |-> New]
Others(F, p)  == {f \in F : f.path # p}
Changed(F, G, p) ==
    \E m \in IF ModesOf(F, p) = {} THEN {"file"} ELSE ModesOf(F, p) :
        G = Others(F, p) \union {NewFile(p, m)}

LEMMA AddedFile == \A p : Changed({}, {NewFile(p, "file")}, p)
BY DEF Changed, ModesOf, Others

LEMMA ReplacedFile ==
    ASSUME NEW f PROVE Changed({f}, {NewFile(f.path, f.mode)}, f.path)
<1>1. Others({f}, f.path) = {} /\ ModesOf({f}, f.path) = {f.mode}
  BY DEF Others, ModesOf
<1> QED BY <1>1 DEF Changed

LEMMA ChangedBeside ==
    ASSUME NEW X, NEW F, NEW G, NEW p, Changed(F, G, p), \A f \in X : f.path # p
    PROVE  Changed(X \union F, X \union G, p)
<1>1. ModesOf(X \union F, p) = ModesOf(F, p)
  BY DEF ModesOf
<1>2. Others(X \union F, p) = X \union Others(F, p)
  BY DEF Others
<1> QED BY <1>1, <1>2 DEF Changed

AllBeneath(n, F) == {Beneath(n, f) : f \in F}

LEMMA ChangedBeneath ==
    ASSUME NEW n \in Names, NEW F \in SUBSET FileEntries, NEW G, NEW r \in Seq(Names), Changed(F, G, r)
    PROVE  Changed(AllBeneath(n, F), AllBeneath(n, G), <<n>> \o r)
<1> DEFINE p == <<n>> \o r
<1>1. \A f \in F : Beneath(n, f).path = p <=> f.path = r
  <2> SUFFICES ASSUME NEW f \in F PROVE Beneath(n, f).path = p <=> f.path = r
    OBVIOUS
  <2>1. f.path \in Seq(Names) /\ Beneath(n, f).path = <<n>> \o f.path
    BY FileIsARecord DEF Beneath
  <2> QED BY <2>1, ConsInjective
<1>2. \A f : Beneath(n, f).mode = f.mode
  BY DEF Beneath
<1>3. ModesOf(AllBeneath(n, F), p) = ModesOf(F, r)
  BY <1>1, <1>2 DEF ModesOf, AllBeneath
<1>4. Others(AllBeneath(n, F), p) = AllBeneath(n, Others(F, r))
  BY <1>1 DEF Others, AllBeneath
<1>5. \A m : Beneath(n, NewFile(r, m)) = NewFile(p, m)
  BY DEF Beneath, NewFile
<1>6. \A A, B : AllBeneath(n, A \union B) = AllBeneath(n, A) \union AllBeneath(n, B)
  BY DEF AllBeneath
<1>7. \A f : AllBeneath(n, {f}) = {Beneath(n, f)}
  BY DEF AllBeneath
<1>8. PICK m \in IF ModesOf(F, r) = {} THEN {"file"} ELSE ModesOf(F, r) :
          G = Others(F, r) \union {NewFile(r, m)}
  BY DEF Changed
<1>9. AllBeneath(n, G) = Others(AllBeneath(n, F), p) \union {NewFile(p, m)}
  <2>1. AllBeneath(n, G) = AllBeneath(n, Others(F, r)) \union AllBeneath(n, {NewFile(r, m)})
    BY <1>6, <1>8
  <2>2. AllBeneath(n, {NewFile(r, m)}) = {NewFile(p, m)}
    BY <1>5, <1>7
  <2> HIDE DEF p
  <2> QED BY <1>4, <2>1, <2>2
<1> QED BY <1>3, <1>8, <1>9 DEF Changed

-----------------------------------------------------------------------------
(* The files of a set of entries.                                          *)
EntrySet(es)   == {es[i] : i \in DOMAIN es}
FilesIn(S, F)  == UNION {FilesOfEntry(e, F) : e \in S}
OthersThan(S, n) == {e \in S : e.name # n}

LEMMA FilesOfIs == \A es, F : FilesOf(es, F) = FilesIn(EntrySet(es), F)
BY DEF FilesOf, FilesIn, EntrySet

LEMMA EntryFields ==
    \A e \in Entries : /\ e.name \in Names /\ e.mode \in Modes /\ e.hash \in Blobs \union Nat
                       /\ e = Entry(e.name, e.mode, e.hash)
BY DEF Entries, Entry

(* Each is named for the entry: a file by it alone, a directory's begin so.*)
LEMMA FilesOfEntryAre ==
    ASSUME NEW e \in Entries, NEW F \in Seq(SUBSET FileEntries), e.mode # "dir" => e.hash \in Blobs,
           NEW f \in FilesOfEntry(e, F)
    PROVE  /\ f \in FileEntries /\ f.path[1] = e.name
           /\ e.mode # "dir" => f = [path |-> <<e.name>>, mode |-> e.mode, blob |-> e.hash]
           /\ e.mode = "dir" => /\ e.hash \in DOMAIN F
                               /\ \E g \in F[e.hash] : g \in FileEntries /\ f = Beneath(e.name, g)
                               /\ Len(f.path) > 1
<1>1. e.name \in Names /\ e.mode \in Modes
  BY EntryFields
<1>2. CASE e.mode # "dir"
  <2>1. f = [path |-> <<e.name>>, mode |-> e.mode, blob |-> e.hash]
    BY <1>2 DEF FilesOfEntry
  <2>2. <<e.name>> \in Seq(Names) /\ <<e.name>> # <<>>
    BY <1>1, OneName
  <2> QED BY <1>1, <1>2, <2>1, <2>2, OneName DEF FileEntries
<1>3. CASE e.mode = "dir"
  <2>1. PICK g \in F[e.hash] : e.hash \in DOMAIN F /\ f = Beneath(e.name, g)
    BY <1>3 DEF FilesOfEntry
  <2>2. g \in FileEntries
    BY <2>1
  <2> QED BY <1>1, <1>3, <2>1, <2>2, BeneathIs
<1> QED BY <1>2, <1>3

(* What is left when the entries of a name are replaced by one.            *)
LEMMA CopiedFiles ==
    ASSUME NEW S \in SUBSET Entries, NEW F \in Seq(SUBSET FileEntries), NEW n \in Names, NEW e \in Entries,
           \A d \in S : d.mode # "dir" => d.hash \in Blobs,
           NEW p, p[1] = n,
           Changed(FilesIn({d \in S : d.name = n}, F), FilesOfEntry(e, F), p)
    PROVE  Changed(FilesIn(S, F), FilesIn(OthersThan(S, n) \union {e}, F), p)
<1> DEFINE X == FilesIn(OthersThan(S, n), F)
           O == FilesIn({d \in S : d.name = n}, F)
<1>1. FilesIn(S, F) = X \union O
  BY DEF FilesIn, OthersThan
<1>2. FilesIn(OthersThan(S, n) \union {e}, F) = X \union FilesOfEntry(e, F)
  BY DEF FilesIn
<1>3. \A f \in X : f.path # p
  <2> SUFFICES ASSUME NEW d \in S, d.name # n, NEW f \in FilesOfEntry(d, F) PROVE f.path # p
    BY DEF FilesIn, OthersThan
  <2>1. f.path[1] = d.name
    BY FilesOfEntryAre
  <2> QED BY <2>1
<1>4. Changed(O, FilesOfEntry(e, F), p)
  OBVIOUS
<1> HIDE DEF X, O
<1>5. Changed(X \union O, X \union FilesOfEntry(e, F), p)
  BY <1>3, <1>4, ChangedBeside
<1> QED BY <1>1, <1>2, <1>5

-----------------------------------------------------------------------------
(* Sorting entries.                                                        *)
SortedAs(s, S) ==
    /\ s \in Seq(Entries) /\ EntrySet(s) = S
    /\ \A i, j \in DOMAIN s : i < j => Key(s[i]) < Key(s[j]) /\ s[i].name # s[j].name

LEMMA KeysDiffer ==
    \A d, e \in Entries : Key(d) \in Nat /\ (Key(d) = Key(e) => d.name = e.name)
<1> SUFFICES ASSUME NEW d \in Entries, NEW e \in Entries
             PROVE  Key(d) \in Nat /\ (Key(d) = Key(e) => d.name = e.name)
  OBVIOUS
<1>1. <<d.name, d.mode = "dir">> \in Names \X BOOLEAN /\ <<e.name, e.mode = "dir">> \in Names \X BOOLEAN
  BY EntryFields
<1> QED BY <1>1, GitTreeAssumption DEF Key

LEMMA SortEntriesSorts ==
    ASSUME NEW es \in Seq(Entries), \A i, j \in DOMAIN es : es[i].name = es[j].name => i = j
    PROVE  SortedAs(SortEntries(es), EntrySet(es))
<1> DEFINE S == EntrySet(es)
           R == {de \in S \X S : Key(de[1]) < Key(de[2])}
           s == SortBy(S, R)
<1>1. SortEntries(es) = s
  BY DEF SortEntries, Sort, EntrySet
<1>2. S \in SUBSET Entries
  BY DEF EntrySet
<1>3. IsFiniteSet(S)
  <2>1. Len(es) \in Nat /\ DOMAIN es = 1 .. Len(es)
    BY LenProperties
  <2>2. IsFiniteSet(1 .. Len(es))
    BY <2>1, FS_Interval
  <2>3. es \in Surjection(1 .. Len(es), S)
    BY <2>1, LenProperties DEF Surjection, EntrySet
  <2> QED BY <2>2, <2>3, FS_Surjection
<1>4. \A d, e \in S : d.name = e.name => d = e
  BY DEF EntrySet
<1>5. StrictOrder(S, R)
  <2>1. \A d, e \in S : Key(d) \in Nat /\ Key(e) \in Nat /\ (Key(d) = Key(e) => d = e)
    BY <1>2, <1>4, KeysDiffer
  <2>2. \A d, e : <<d, e>> \in R <=> d \in S /\ e \in S /\ Key(d) < Key(e)
    OBVIOUS
  <2> HIDE DEF R, S
  <2> QED BY <2>1, <2>2 DEF StrictOrder
<1> HIDE DEF S
<1>6. /\ s \in [1 .. Cardinality(S) -> S] /\ Cardinality(S) \in Nat
      /\ \A x \in S : \E n \in 1 .. Cardinality(S) : s[n] = x
      /\ \A m, n \in 1 .. Cardinality(S) : m < n <=> <<s[m], s[n]>> \in R
  BY <1>3, <1>5, Sorted
<1> HIDE DEF s
<1>7. s \in Seq(Entries) /\ DOMAIN s = 1 .. Cardinality(S)
  BY <1>2, <1>6
<1>8. EntrySet(s) = S
  BY <1>6, <1>7 DEF EntrySet
<1>9. ASSUME NEW i \in DOMAIN s, NEW j \in DOMAIN s, i < j PROVE Key(s[i]) < Key(s[j]) /\ s[i].name # s[j].name
  <2>1. s[i] \in S /\ s[j] \in S /\ Key(s[i]) < Key(s[j])
    BY <1>6, <1>7, <1>9
  <2>2. Key(s[i]) \in Nat /\ Key(s[j]) \in Nat
    BY <1>2, <2>1, KeysDiffer
  <2>3. s[i] # s[j]
    BY <2>1, <2>2
  <2> QED BY <1>4, <2>1, <2>3
<1> QED BY <1>1, <1>7, <1>8, <1>9 DEF SortedAs, S

-----------------------------------------------------------------------------
(* The invariant.  Under(k) is what the base holds under the first k names *)
(* of the path; the trail's trees are those; the entry's tree is that with *)
(* the file changed.                                                       *)
Under(k) == UnderOf(files[root], path, k)
PathFrom(k)  == SubSeq(path, k, Len(path))
Sound(t) == WellFormed(t, trees, files)
Whole(t) == Sound(t) /\ files[t] = FilesOf(trees[t], files)

Store ==
    /\ trees \in Seq(Seq(Entries)) /\ files \in Seq(SUBSET FileEntries) /\ Len(files) = Len(trees)
    /\ root \in DOMAIN trees
    /\ path \in Seq(Names) /\ path # <<>>

Trail ==
    /\ trail \in Seq(DOMAIN trees) /\ trail # <<>> /\ Len(trail) <= Len(path)
    /\ \A k \in DOMAIN trail : Whole(trail[k]) /\ files[trail[k]] = Under(k - 1)

Named(k) == {i \in DOMAIN trees[trail[k]] : trees[trail[k]][i].name = path[k]}
Through(k) == \A i \in Named(k) : trees[trail[k]][i].mode = "dir"

WhileOpening ==
    /\ Store /\ Trail
    /\ \A t \in DOMAIN trees : Whole(t)
    /\ \A k \in 1 .. Len(trail) - 1 : Through(k) /\ ~FileAt(k)

Blocked == DirectoryAt(Len(path))
NoFile  == \A n \in 1 .. Len(path) - 1 : ~FileAt(n)
Copying ==
    IF at = Len(path) THEN entry = [mode |-> "file", hash |-> New]
    ELSE /\ entry = [mode |-> "dir", hash |-> entry.hash] /\ entry.hash \in DOMAIN trees
         /\ IF Blocked THEN \E t \in DOMAIN trees : ~Sound(t)
            ELSE Changed(Under(at), files[entry.hash], PathFrom(at + 1))

WhileWriting ==
    /\ Store /\ Trail /\ NoFile
    /\ at \in Len(trail) .. Len(path)
    /\ \A k \in DOMAIN trail : k < Len(path) => Through(k)
    /\ at > Len(trail) => Named(Len(trail)) = {} /\ \A k \in Len(trail) .. Len(path) : Under(k) = {}
    /\ Blocked \/ \A t \in DOMAIN trees : Sound(t)
    /\ Copying

TreeInv ==
    /\ treePc \in {"idle", "open", "write", "done", "failed"}
    /\ treePc = "open" => WhileOpening
    /\ treePc = "write" => WhileWriting
    /\ treePc = "failed" => \E n \in 1 .. Len(path) - 1 : FileAt(n)
    /\ treePc = "done" => /\ Store /\ NoFile /\ at = 0 /\ Copying
                          /\ Blocked \/ \A t \in DOMAIN trees : Sound(t)

LEMMA BasesAre ==
    ASSUME NEW b \in Bases
    PROVE  /\ b.trees \in Seq(Seq(Entries)) /\ b.files \in Seq(SUBSET FileEntries)
           /\ Len(b.files) = Len(b.trees) /\ b.root \in DOMAIN b.trees
           /\ \A t \in DOMAIN b.trees : /\ WellFormed(t, b.trees, b.files)
                                        /\ b.files[t] = FilesOf(b.trees[t], b.files)
BY GitTreeAssumption

LEMMA StoreFacts ==
    ASSUME Store
    PROVE  /\ Len(trees) \in Nat /\ DOMAIN trees = 1 .. Len(trees) /\ DOMAIN files = 1 .. Len(trees)
           /\ root \in 1 .. Len(trees)
           /\ Len(path) \in Nat \ {0} /\ DOMAIN path = 1 .. Len(path)
           /\ \A k \in 1 .. Len(path) : path[k] \in Names /\ PathFrom(k) \in Seq(Names)
           /\ \A t \in DOMAIN trees : files[t] \in SUBSET FileEntries /\ trees[t] \in Seq(Entries)
<1>1. /\ Len(trees) \in Nat /\ DOMAIN trees = 1 .. Len(trees) /\ DOMAIN files = 1 .. Len(trees)
      /\ root \in 1 .. Len(trees)
  BY LenProperties DEF Store
<1>2. Len(path) \in Nat \ {0} /\ DOMAIN path = 1 .. Len(path)
  BY EmptySeq, LenProperties DEF Store
<1>3. ASSUME NEW k \in 1 .. Len(path) PROVE path[k] \in Names /\ PathFrom(k) \in Seq(Names)
  <2>1. \A i \in k .. Len(path) : path[i] \in Names
    BY <1>2, ElementOfSeq DEF Store
  <2>2. k \in Int /\ Len(path) \in Int
    BY <1>2
  <2>3. SubSeq(path, k, Len(path)) \in Seq(Names)
    BY <2>1, <2>2, SubSeqProperties
  <2> QED BY <1>2, <2>1, <2>3 DEF PathFrom
<1>4. ASSUME NEW t \in DOMAIN trees PROVE files[t] \in SUBSET FileEntries /\ trees[t] \in Seq(Entries)
  <2>1. t \in 1 .. Len(trees) /\ t \in 1 .. Len(files)
    BY <1>1 DEF Store
  <2> QED BY <2>1, ElementOfSeq DEF Store
<1> QED BY <1>1, <1>2, <1>3, <1>4

LEMMA PathsFrom ==
    ASSUME Store
    PROVE  /\ PathFrom(1) = path /\ PathFrom(Len(path)) = <<path[Len(path)]>>
           /\ \A k \in 1 .. Len(path) - 1 : PathFrom(k) = <<path[k]>> \o PathFrom(k + 1)
           /\ \A k \in 1 .. Len(path) : PathFrom(k)[1] = path[k]
<1>1. Len(path) \in Nat \ {0} /\ \A k \in 1 .. Len(path) : path[k] \in Names
  BY StoreFacts
<1>2. PathFrom(1) = path
  BY SubSeqFull DEF Store, PathFrom
<1>3. ASSUME NEW k \in 1 .. Len(path) PROVE PathFrom(k) = <<path[k]>> \o SubSeq(path, k + 1, Len(path))
  BY <1>1, SubSeqRecursiveFirst DEF Store, PathFrom
<1>4. SubSeq(path, Len(path) + 1, Len(path)) = <<>>
  BY <1>1, SubSeqEmpty
<1>5. PathFrom(Len(path)) = <<path[Len(path)]>>
  <2>1. <<path[Len(path)]>> \in Seq(Names)
    BY <1>1
  <2>2. PathFrom(Len(path)) = <<path[Len(path)]>> \o <<>>
    <3>1. Len(path) \in 1 .. Len(path)
      BY <1>1
    <3>2. PathFrom(Len(path)) = <<path[Len(path)]>> \o SubSeq(path, Len(path) + 1, Len(path))
      BY <1>3, <3>1
    <3> QED BY <1>4, <3>2
  <2> QED BY <2>1, <2>2, ConcatEmptySeq
<1>6. ASSUME NEW k \in 1 .. Len(path) PROVE PathFrom(k)[1] = path[k]
  <2>1. \A i \in k .. Len(path) : path[i] \in Names
    BY <1>1
  <2>2. k \in Int /\ Len(path) \in Int /\ 1 \in 1 .. Len(path) - k + 1 /\ k + 1 - 1 = k
    BY <1>1
  <2> HIDE DEF PathFrom
  <2>3. SubSeq(path, k, Len(path))[1] = path[k + 1 - 1]
    BY <2>1, <2>2, SubSeqProperties
  <2> QED BY <2>2, <2>3 DEF PathFrom
<1> QED BY <1>1, <1>2, <1>3, <1>5, <1>6 DEF PathFrom
-----------------------------------------------------------------------------
(* The tree of the trail at level k: what it holds beside and beneath the  *)
(* path's next name.                                                       *)
Level(k) == FilesIn({e \in EntrySet(trees[trail[k]]) : e.name = path[k]}, files)

LEMMA TrailFacts ==
    ASSUME Store, Trail, NEW k \in 1 .. Len(trail)
    PROVE  /\ k \in 1 .. Len(path) /\ path[k] \in Names
           /\ trail[k] \in DOMAIN trees /\ trees[trail[k]] \in Seq(Entries)
           /\ files[trail[k]] \in SUBSET FileEntries
           /\ files[trail[k]] = Under(k - 1) /\ Sound(trail[k])
           /\ files[trail[k]] = FilesIn(EntrySet(trees[trail[k]]), files)
           /\ EntrySet(trees[trail[k]]) \in SUBSET Entries
           /\ \A e \in EntrySet(trees[trail[k]]) :
                 IF e.mode = "dir" THEN e.hash \in 1 .. trail[k] - 1 /\ e.hash \in DOMAIN trees
                                        /\ files[e.hash] # {} /\ files[e.hash] \in SUBSET FileEntries
                 ELSE e.hash \in Blobs
<1>1. Len(trail) \in Nat /\ Len(trail) <= Len(path) /\ k \in DOMAIN trail
  BY LenProperties DEF Trail
<1>2. k \in 1 .. Len(path) /\ path[k] \in Names
  BY <1>1, StoreFacts
<1>3. trail[k] \in DOMAIN trees
  BY <1>1, ElementOfSeq DEF Trail
<1>4. trees[trail[k]] \in Seq(Entries) /\ files[trail[k]] \in SUBSET FileEntries
  BY <1>3, StoreFacts
<1>5. Whole(trail[k]) /\ files[trail[k]] = Under(k - 1)
  BY <1>1 DEF Trail
<1>6. files[trail[k]] = FilesIn(EntrySet(trees[trail[k]]), files)
  BY <1>5, FilesOfIs DEF Whole
<1>7. EntrySet(trees[trail[k]]) \in SUBSET Entries
  BY <1>4 DEF EntrySet
<1>8. ASSUME NEW e \in EntrySet(trees[trail[k]])
      PROVE  IF e.mode = "dir" THEN e.hash \in 1 .. trail[k] - 1 /\ e.hash \in DOMAIN trees
                                        /\ files[e.hash] # {} /\ files[e.hash] \in SUBSET FileEntries
                 ELSE e.hash \in Blobs
  <2>1. PICK i \in DOMAIN trees[trail[k]] : e = trees[trail[k]][i]
    BY DEF EntrySet
  <2>2. IF e.mode = "dir" THEN e.hash \in 1 .. trail[k] - 1 /\ files[e.hash] # {} ELSE e.hash \in Blobs
    BY <1>5, <2>1 DEF Whole, Sound, WellFormed
  <2>3. e.mode = "dir" => e.hash \in DOMAIN trees
    BY <1>3, <2>2, StoreFacts
  <2> QED BY <2>2, <2>3, StoreFacts
<1> QED BY <1>2, <1>3, <1>4, <1>5, <1>6, <1>7, <1>8 DEF Whole

(* What lies beneath that name is in the tree's entries of the name.       *)
LEMMA LevelFiles ==
    ASSUME Store, Trail, NEW k \in 1 .. Len(trail), NEW f \in FileEntries
    PROVE  /\ f \in Under(k) <=> Beneath(path[k], f) \in Level(k)
           /\ f \in Level(k) => f \in Under(k - 1) /\ f.path[1] = path[k]
           /\ f \in Under(k - 1) /\ f.path[1] = path[k] => f \in Level(k)
<1> DEFINE S == EntrySet(trees[trail[k]])
<1>1. /\ path[k] \in Names /\ S \in SUBSET Entries /\ k \in 1 .. Len(path)
      /\ \A e \in S : e.mode # "dir" => e.hash \in Blobs
      /\ Under(k - 1) = FilesIn(S, files)
  BY TrailFacts
<1>2. files \in Seq(SUBSET FileEntries)
  BY DEF Store
<1>3. ASSUME NEW g \in Level(k) PROVE g \in Under(k - 1) /\ g.path[1] = path[k]
  <2>1. PICK e \in S : e.name = path[k] /\ g \in FilesOfEntry(e, files)
    BY <1>3 DEF Level, FilesIn
  <2>2. e \in Entries /\ (e.mode # "dir" => e.hash \in Blobs)
    BY <1>1
  <2>3. g.path[1] = path[k]
    BY <1>2, <2>1, <2>2, FilesOfEntryAre
  <2>4. g \in FilesIn(S, files)
    BY <2>1 DEF FilesIn
  <2> QED BY <1>1, <2>3, <2>4
<1>4. ASSUME NEW g \in Under(k - 1), g.path[1] = path[k] PROVE g \in Level(k)
  <2>1. g \in FilesIn(S, files)
    BY <1>1, <1>4
  <2>2. PICK e \in S : g \in FilesOfEntry(e, files)
    BY <2>1 DEF FilesIn
  <2>3. e \in Entries /\ (e.mode # "dir" => e.hash \in Blobs)
    BY <1>1
  <2>4. e.name = path[k]
    BY <1>2, <1>4, <2>2, <2>3, FilesOfEntryAre
  <2> QED BY <2>2, <2>4 DEF Level, FilesIn
<1>5. f \in Under(k) <=> Beneath(path[k], f) \in Under(k - 1)
  <2>1. path \in Seq(Names)
    BY DEF Store
  <2> QED BY <1>1, <2>1, UnderOne DEF Under
<1>6. Beneath(path[k], f).path[1] = path[k]
  BY <1>1, BeneathIs
<1> QED BY <1>3, <1>4, <1>5, <1>6

LEMMA NamedAre ==
    ASSUME Store, Trail, NEW k \in 1 .. Len(trail)
    PROVE  {e \in EntrySet(trees[trail[k]]) : e.name = path[k]} = {trees[trail[k]][i] : i \in Named(k)}
BY DEF EntrySet, Named

(* Nothing of the name: nothing beneath it.                                *)
LEMMA NothingNamed ==
    ASSUME Store, Trail, NEW k \in 1 .. Len(trail), Named(k) = {}
    PROVE  Level(k) = {} /\ Under(k) = {}
<1>1. {e \in EntrySet(trees[trail[k]]) : e.name = path[k]} = {}
  BY NamedAre
<1>2. Level(k) = {}
  BY <1>1 DEF Level, FilesIn
<1>3. \A f \in FileEntries : f \notin Under(k)
  BY <1>2, LevelFiles
<1> QED BY <1>2, <1>3 DEF Under, UnderOf

(* One entry has the name.                                                 *)
LEMMA OneNamed ==
    ASSUME Store, Trail, NEW k \in 1 .. Len(trail), NEW i \in Named(k)
    PROVE  /\ Named(k) = {i} /\ trees[trail[k]][i] \in EntrySet(trees[trail[k]])
           /\ Level(k) = FilesOfEntry(trees[trail[k]][i], files)
<1>1. /\ trees[trail[k]] \in Seq(Entries) /\ Sound(trail[k])
  BY TrailFacts
<1>2. DOMAIN trees[trail[k]] \in SUBSET Nat /\ i \in DOMAIN trees[trail[k]]
  BY <1>1, LenProperties DEF Named
<1>3. ASSUME NEW j \in Named(k) PROVE j = i
  <2>1. i \in Nat /\ j \in Nat /\ j \in DOMAIN trees[trail[k]]
    BY <1>2 DEF Named
  <2>2. trees[trail[k]][i].name = trees[trail[k]][j].name
    BY DEF Named
  <2> QED BY <1>1, <1>2, <2>1, <2>2 DEF Sound, WellFormed
<1>4. Named(k) = {i}
  BY <1>3
<1>5. {e \in EntrySet(trees[trail[k]]) : e.name = path[k]} = {trees[trail[k]][i]}
  BY <1>4, NamedAre
<1>6. Level(k) = FilesOfEntry(trees[trail[k]][i], files)
  BY <1>5 DEF Level, FilesIn
<1> QED BY <1>2, <1>4, <1>6 DEF EntrySet

(* It is a file ...                                                        *)
LEMMA FileNamed ==
    ASSUME Store, Trail, NEW k \in 1 .. Len(trail), NEW i \in Named(k),
           trees[trail[k]][i].mode # "dir"
    PROVE  /\ Level(k) = {[path |-> <<path[k]>>, mode |-> trees[trail[k]][i].mode,
                            blob |-> trees[trail[k]][i].hash]}
           /\ FileAt(k) /\ Under(k) = {} /\ trees[trail[k]][i].hash \notin DOMAIN trees
<1> DEFINE e == trees[trail[k]][i]
           g == [path |-> <<path[k]>>, mode |-> e.mode, blob |-> e.hash]
<1>1. /\ Level(k) = FilesOfEntry(e, files) /\ e.name = path[k] /\ e \in EntrySet(trees[trail[k]])
  BY OneNamed DEF Named
<1>2. /\ path[k] \in Names /\ e \in Entries /\ e.hash \in Blobs /\ k \in 1 .. Len(path)
  BY <1>1, TrailFacts
<1>3. Level(k) = {g}
  BY <1>1 DEF FilesOfEntry
<1>4. g \in FileEntries
  BY <1>2, OneName, EntryFields DEF FileEntries
<1>5. g \in Under(k - 1)
  BY <1>3, <1>4, LevelFiles
<1>6. FileAt(k)
  <2>1. path \in Seq(Names) /\ files[root] \in SUBSET FileEntries
    BY StoreFacts DEF Store
  <2>2. \E f \in UnderOf(files[root], path, k - 1) : f.path = <<path[k]>>
    BY <1>5 DEF Under
  <2> QED BY <1>2, <2>1, <2>2, UnderFile DEF FileAt
<1>7. \A f \in FileEntries : f \notin Under(k)
  <2> SUFFICES ASSUME NEW f \in FileEntries, f \in Under(k) PROVE FALSE
    OBVIOUS
  <2>1. Beneath(path[k], f) = g
    BY <1>3, LevelFiles
  <2>2. Len(Beneath(path[k], f).path) > 1
    BY <1>2, BeneathIs
  <2> QED BY <1>2, <2>1, <2>2, OneName
<1>8. Under(k) = {}
  BY <1>7 DEF Under, UnderOf
<1>9. e.hash \notin DOMAIN trees
  <2>1. DOMAIN trees \in SUBSET Nat
    BY StoreFacts
  <2> QED BY <1>2, <2>1, GitTreeAssumption
<1> QED BY <1>3, <1>6, <1>8, <1>9

(* ... or a directory, and its tree holds what is beneath.                 *)
LEMMA DirectoryNamed ==
    ASSUME Store, Trail, NEW k \in 1 .. Len(trail), NEW i \in Named(k),
           trees[trail[k]][i].mode = "dir"
    PROVE  /\ trees[trail[k]][i].hash \in DOMAIN trees
           /\ files[trees[trail[k]][i].hash] = Under(k)
           /\ Level(k) = AllBeneath(path[k], Under(k))
           /\ ~FileAt(k) /\ Under(k) # {}
<1> DEFINE e == trees[trail[k]][i]
<1>1. /\ Level(k) = FilesOfEntry(e, files) /\ e.name = path[k] /\ e \in EntrySet(trees[trail[k]])
  BY OneNamed DEF Named
<1>2. /\ path[k] \in Names /\ e \in Entries /\ e.hash \in DOMAIN trees /\ k \in 1 .. Len(path)
      /\ files[e.hash] # {} /\ files[e.hash] \in SUBSET FileEntries
  BY <1>1, TrailFacts
<1>3. DOMAIN files = DOMAIN trees
  BY StoreFacts
<1>4. Level(k) = AllBeneath(path[k], files[e.hash])
  BY <1>1, <1>2, <1>3 DEF FilesOfEntry, AllBeneath
<1>5. ASSUME NEW f \in FileEntries PROVE f \in Under(k) <=> f \in files[e.hash]
  <2>1. f \in Under(k) <=> Beneath(path[k], f) \in AllBeneath(path[k], files[e.hash])
    BY <1>4, LevelFiles
  <2>2. Beneath(path[k], f) \in AllBeneath(path[k], files[e.hash]) <=> f \in files[e.hash]
    BY <1>2, BeneathInjective DEF AllBeneath
  <2> QED BY <2>1, <2>2
<1>6. Under(k) = files[e.hash]
  <2>1. Under(k) \in SUBSET FileEntries
    BY DEF Under, UnderOf
  <2> QED BY <1>2, <1>5, <2>1
<1>7. ~FileAt(k)
  <2> SUFFICES ASSUME FileAt(k) PROVE FALSE
    OBVIOUS
  <2>1. path \in Seq(Names) /\ files[root] \in SUBSET FileEntries
    BY StoreFacts DEF Store
  <2>2. PICK f \in UnderOf(files[root], path, k - 1) : f.path = <<path[k]>>
    BY <1>2, <2>1, UnderFile DEF FileAt
  <2>3. f \in FileEntries /\ f \in Under(k - 1) /\ f.path[1] = path[k]
    BY <1>2, <2>2, OneName DEF Under, UnderOf
  <2>4. f \in AllBeneath(path[k], files[e.hash])
    BY <1>4, <2>3, LevelFiles
  <2>5. PICK g \in files[e.hash] : f = Beneath(path[k], g)
    BY <2>4 DEF AllBeneath
  <2>6. Len(f.path) > 1
    BY <1>2, <2>5, BeneathIs
  <2> QED BY <1>2, <2>2, <2>6, OneName
<1> QED BY <1>2, <1>4, <1>6, <1>7

LEMMA UnderDeeper ==
    ASSUME NEW p \in Seq(Names), NEW F \in SUBSET FileEntries, NEW k \in 0 .. Len(p), NEW j \in k .. Len(p),
           UnderOf(F, p, k) = {}
    PROVE  UnderOf(F, p, j) = {}
<1>1. k \in Nat /\ j \in Nat /\ Len(p) \in Nat /\ k <= j /\ j <= Len(p)
  BY LenProperties
<1>2. SUFFICES ASSUME NEW f \in FileEntries, At(SubSeq(p, 1, j), f) \in F PROVE FALSE
  BY DEF UnderOf
<1> DEFINE u == SubSeq(p, 1, k)
           v == SubSeq(p, k + 1, j)
           w == f.path
<1>3. u \in Seq(Names) /\ v \in Seq(Names) /\ w \in Seq(Names)
  <2>1. \A i \in 1 .. Len(p) : p[i] \in Names
    BY ElementOfSeq
  <2> QED BY <1>1, <2>1, SubSeqProperties, FileIsARecord
<1>4. u \o v = SubSeq(p, 1, j)
  <2>1. 1 \in 1 .. Len(p) + 1 /\ k \in 1 - 1 .. Len(p) /\ j \in k .. Len(p)
    BY <1>1
  <2> QED BY <2>1, ConcatAdjacentSubSeq
<1>5. At(v, f) \in FileEntries
  BY <1>3, FileAtIs
<1>6. At(u, At(v, f)) = At(SubSeq(p, 1, j), f)
  <2> HIDE DEF u, v, w
  <2>1. (u \o v) \o w = u \o (v \o w)
    BY ONLY <1>3, NamesAssociate
  <2>2. u \o (v \o w) = SubSeq(p, 1, j) \o w
    BY <1>4, <2>1
  <2> QED BY <2>2 DEF At, w
<1> QED BY <1>2, <1>5, <1>6 DEF UnderOf

LEMMA BlockedIs == ASSUME Store PROVE Blocked <=> Under(Len(path)) # {}
<1>1. Len(path) \in 0 .. Len(path) /\ files[root] \in SUBSET FileEntries /\ path \in Seq(Names)
  BY StoreFacts DEF Store
<1>2. (\E f \in files[root] : Len(f.path) > Len(path) /\ SubSeq(f.path, 1, Len(path)) = SubSeq(path, 1, Len(path)))
      <=> UnderOf(files[root], path, Len(path)) # {}
  BY <1>1, UnderDirectory
<1> QED BY <1>2 DEF Blocked, DirectoryAt, Under

-----------------------------------------------------------------------------
(* A tree is stored: the others stay what they are.                        *)
LEMMA Stored ==
    ASSUME Store, NEW es \in Seq(Entries),
           \A i, j \in DOMAIN es : es[i].name = es[j].name => i = j,
           \A e \in EntrySet(es) : e.mode # "dir" => e.hash \in Blobs,
           StoreTree(es), UNCHANGED <<root, path>>
    PROVE  /\ Store' /\ DOMAIN trees' = 1 .. Len(trees) + 1
           /\ \A t \in DOMAIN trees : trees'[t] = trees[t] /\ files'[t] = files[t]
           /\ SortedAs(trees'[Len(trees) + 1], EntrySet(es))
           /\ files'[Len(trees) + 1] = FilesIn(EntrySet(es), files)
           /\ files'[root] = files[root]
<1> DEFINE new == SortEntries(es)
           n == Len(trees)
<1>1. SortedAs(new, EntrySet(es))
  BY SortEntriesSorts
<1>2. new \in Seq(Entries)
  BY <1>1 DEF SortedAs
<1>3. FilesOf(new, files) = FilesIn(EntrySet(es), files)
  BY <1>1, FilesOfIs DEF SortedAs
<1>4. FilesIn(EntrySet(es), files) \in SUBSET FileEntries
  <2> SUFFICES ASSUME NEW e \in EntrySet(es), NEW f \in FilesOfEntry(e, files) PROVE f \in FileEntries
    BY DEF FilesIn
  <2>1. e \in Entries
    BY DEF EntrySet
  <2> QED BY <2>1, FilesOfEntryAre DEF Store
<1>5. trees' = Append(trees, new) /\ files' = Append(files, FilesIn(EntrySet(es), files))
  BY <1>3 DEF StoreTree
<1>6. /\ trees \in Seq(Seq(Entries)) /\ files \in Seq(SUBSET FileEntries) /\ Len(files) = n /\ n \in Nat
      /\ DOMAIN trees = 1 .. n /\ root \in DOMAIN trees /\ path \in Seq(Names) /\ path # <<>>
  BY StoreFacts DEF Store
<1>7. /\ trees' \in Seq(Seq(Entries)) /\ Len(trees') = n + 1
      /\ trees'[n + 1] = new
      /\ \A t \in 1 .. n : trees'[t] = trees[t]
  <2> HIDE DEF new
  <2> QED BY <1>2, <1>5, <1>6, AppendProperties
<1>8. /\ files' \in Seq(SUBSET FileEntries) /\ Len(files') = n + 1
      /\ files'[n + 1] = FilesIn(EntrySet(es), files)
      /\ \A t \in 1 .. n : files'[t] = files[t]
  BY <1>4, <1>5, <1>6, AppendProperties
<1>9. DOMAIN trees' = 1 .. n + 1
  BY <1>7, LenProperties
<1>10. Store'
  BY <1>6, <1>7, <1>8, <1>9 DEF Store
<1> QED BY <1>1, <1>6, <1>7, <1>8, <1>9, <1>10

(* ... so what git makes of them, and the trail, do too.                   *)
Kept ==
    /\ DOMAIN trees' = 1 .. Len(trees) + 1
    /\ \A t \in DOMAIN trees : trees'[t] = trees[t] /\ files'[t] = files[t]
    /\ files'[root] = files[root] /\ root' = root /\ path' = path

LEMMA KeptSound ==
    ASSUME Store, Store', Kept, NEW t \in DOMAIN trees
    PROVE  /\ Sound(t)' <=> Sound(t)
           /\ Whole(t) => Whole(t)'
<1>1. t \in Nat /\ DOMAIN trees \in SUBSET Nat /\ \A h \in 1 .. t - 1 : h \in DOMAIN trees
  BY StoreFacts
<1>2. trees'[t] = trees[t] /\ files'[t] = files[t] /\ \A h \in 1 .. t - 1 : files'[h] = files[h]
  BY <1>1 DEF Kept
<1>3. WellFormed(t, trees', files') <=> WellFormed(t, trees, files)
  BY <1>2 DEF WellFormed
<1>4. Sound(t)' <=> Sound(t)
  BY <1>3 DEF Sound
<1>5. ASSUME Whole(t) PROVE Whole(t)'
  <2>1. DOMAIN files = DOMAIN trees /\ DOMAIN files' = DOMAIN trees' /\ DOMAIN trees' = 1 .. Len(trees) + 1
        /\ DOMAIN trees = 1 .. Len(trees) /\ Len(trees) \in Nat
    <3>1. DOMAIN files = 1 .. Len(files) /\ DOMAIN trees = 1 .. Len(trees) /\ Len(trees) \in Nat
          /\ DOMAIN files' = 1 .. Len(files') /\ DOMAIN trees' = 1 .. Len(trees')
      BY LenProperties DEF Store
    <3> QED BY <3>1 DEF Kept, Store
  <2>2. ASSUME NEW e \in EntrySet(trees[t]) PROVE FilesOfEntry(e, files') = FilesOfEntry(e, files)
    <3>1. e.mode = "dir" => e.hash \in 1 .. t - 1
      BY <1>5 DEF EntrySet, Whole, Sound, WellFormed
    <3>2. e.mode = "dir" => e.hash \in DOMAIN files /\ e.hash \in DOMAIN files' /\ files'[e.hash] = files[e.hash]
      BY <1>1, <1>2, <2>1, <3>1
    <3> QED BY <3>2 DEF FilesOfEntry
  <2>3. FilesIn(EntrySet(trees[t]), files') = FilesIn(EntrySet(trees[t]), files)
    BY <2>2 DEF FilesIn
  <2>4. FilesOf(trees'[t], files') = FilesOf(trees[t], files)
    BY <1>2, <2>3, FilesOfIs
  <2> QED BY <1>2, <1>4, <1>5, <2>4 DEF Whole
<1> QED BY <1>4, <1>5

LEMMA TrailKept ==
    ASSUME Store, Store', Trail, Kept, trail' \in Seq(DOMAIN trees), trail' # <<>>,
           Len(trail') <= Len(trail), \A k \in 1 .. Len(trail') : trail'[k] = trail[k]
    PROVE  Trail'
<1>1. \A k : Under(k)' = Under(k)
  BY DEF Kept, Under
<1>2. trail \in Seq(DOMAIN trees) /\ Len(trail) <= Len(path)
  BY DEF Trail
<1>3. Len(trail) \in Nat /\ Len(trail') \in Nat /\ DOMAIN trail = 1 .. Len(trail) /\ DOMAIN trail' = 1 .. Len(trail')
  BY <1>2, LenProperties
<1>4. trail' \in Seq(DOMAIN trees') /\ Len(trail') <= Len(path')
  <2>1. DOMAIN trees \subseteq DOMAIN trees'
    BY StoreFacts DEF Kept
  <2>2. trail' \in Seq(DOMAIN trees')
    BY <2>1, SeqMonotonic
  <2>3. Len(path) \in Nat /\ path' = path
    BY StoreFacts DEF Kept
  <2> QED BY <1>2, <1>3, <2>2, <2>3
<1>5. ASSUME NEW k \in DOMAIN trail' PROVE (Whole(trail[k]) /\ files[trail[k]] = Under(k - 1))'
  <2>1. k \in 1 .. Len(trail) /\ k \in DOMAIN trail
    BY <1>3
  <2>2. PICK t \in DOMAIN trees : t = trail[k] /\ t = trail'[k]
    BY <1>2, <1>3, <2>1, ElementOfSeq
  <2>3. Whole(t) /\ files[t] = Under(k - 1)
    BY <2>1, <2>2 DEF Trail
  <2>4. Whole(t)' /\ files'[t] = Under(k - 1)
    BY <2>3, KeptSound DEF Kept
  <2> QED BY <1>1, <2>2, <2>4 DEF Whole, Sound
<1> QED BY <1>4, <1>5 DEF Trail

LEMMA KeptBase ==
    ASSUME Kept
    PROVE  /\ \A k : Under(k)' = Under(k)
           /\ \A k : PathFrom(k)' = PathFrom(k)
           /\ \A k : FileAt(k)' = FileAt(k)
           /\ NoFile' = NoFile /\ Blocked' = Blocked
<1>1. files'[root'] = files[root] /\ path' = path
  BY DEF Kept
<1>2. \A k : FileAt(k)' = FileAt(k)
  BY <1>1 DEF FileAt
<1>3. NoFile' = NoFile
  BY <1>1, <1>2 DEF NoFile
<1> QED BY <1>1, <1>2, <1>3 DEF Under, PathFrom, Blocked, DirectoryAt

(* The new tree is one git accepts when its entries are.                   *)
Acceptable(e) == IF e.mode = "dir" THEN e.hash \in DOMAIN trees /\ files[e.hash] # {} ELSE e.hash \in Blobs

LEMMA NewIsSound ==
    ASSUME Store, Kept, NEW es \in Seq(Entries), NEW n, n = Len(trees),
           SortedAs(trees'[n + 1], EntrySet(es))
    PROVE  /\ (\A e \in EntrySet(es) : Acceptable(e)) => Sound(n + 1)'
           /\ (\E e \in EntrySet(es) : e.mode = "dir" /\ e.hash \in Blobs) => ~Sound(n + 1)'
<1> DEFINE s == trees'[n + 1]
<1>1. n \in Nat /\ DOMAIN trees = 1 .. n /\ n + 1 - 1 = n
  BY StoreFacts
<1>2. s \in Seq(Entries) /\ EntrySet(s) = EntrySet(es)
      /\ \A i, j \in DOMAIN s : i < j => Key(s[i]) < Key(s[j]) /\ s[i].name # s[j].name
  BY DEF SortedAs
<1>3. ASSUME \A e \in EntrySet(es) : Acceptable(e) PROVE Sound(n + 1)'
  <2>1. ASSUME NEW i \in DOMAIN s
        PROVE  IF s[i].mode = "dir" THEN s[i].hash \in 1 .. n + 1 - 1 /\ files'[s[i].hash] # {} ELSE s[i].hash \in Blobs
    <3>1. Acceptable(s[i])
      BY <1>2, <1>3 DEF EntrySet
    <3>2. s[i].mode = "dir" => s[i].hash \in 1 .. n + 1 - 1
      BY <1>1, <3>1 DEF Acceptable
    <3> QED BY <3>1, <3>2 DEF Acceptable, Kept
  <2>2. WellFormed(n + 1, trees', files')
    BY <1>2, <2>1 DEF WellFormed
  <2> QED BY <2>2 DEF Sound
<1>4. ASSUME NEW e \in EntrySet(es), e.mode = "dir", e.hash \in Blobs PROVE ~Sound(n + 1)'
  <2>1. PICK i \in DOMAIN s : s[i] = e
    BY <1>2 DEF EntrySet
  <2>2. e.hash \notin Nat
    BY <1>4, GitTreeAssumption
  <2>3. e.hash \notin 1 .. n + 1 - 1
    BY <1>1, <2>2
  <2>4. ~WellFormed(n + 1, trees', files')
    BY <1>4, <2>1, <2>3 DEF WellFormed
  <2> QED BY <2>4 DEF Sound
<1> QED BY <1>3, <1>4

-----------------------------------------------------------------------------
(* The steps.                                                              *)
LEMMA OpensTheBase ==
    ASSUME TreeInv, NEW b \in Bases, NEW parts \in DocPaths, TreeWithFile(b, parts)
    PROVE  TreeInv'
<1>1. /\ treePc' = "open" /\ trees' = b.trees /\ files' = b.files /\ root' = b.root
      /\ path' = parts /\ trail' = <<b.root>>
  BY DEF TreeWithFile
<1>2. Store'
  <2>1. /\ b.trees \in Seq(Seq(Entries)) /\ b.files \in Seq(SUBSET FileEntries)
        /\ Len(b.files) = Len(b.trees) /\ b.root \in DOMAIN b.trees
    BY BasesAre
  <2>2. parts # <<>> /\ parts \in Seq(Names)
    BY GitTreeAssumption
  <2> QED BY <1>1, <2>1, <2>2 DEF Store
<1>3. \A t \in DOMAIN trees' : Whole(t)'
  BY <1>1, BasesAre DEF Whole, Sound
<1>4. Under(0)' = files'[root']
  <2>1. files'[root'] \in SUBSET FileEntries /\ path' \in Seq(Names)
    <3>1. root' \in 1 .. Len(files') /\ files' \in Seq(SUBSET FileEntries)
      BY <1>2, LenProperties DEF Store
    <3> QED BY <1>2, <3>1, ElementOfSeq DEF Store
  <2>2. UnderOf(files'[root'], path', 0) = files'[root']
    BY <2>1, UnderNone
  <2> QED BY <2>2 DEF Under
<1>5. Trail'
  <2>1. trail' \in Seq(DOMAIN trees') /\ trail' # <<>> /\ Len(trail') = 1 /\ DOMAIN trail' = {1} /\ trail'[1] = root'
    <3>1. \A D, x : x \in D => /\ <<x>> \in Seq(D) /\ <<x>> # <<>> /\ Len(<<x>>) = 1
                               /\ DOMAIN <<x>> = {1} /\ <<x>>[1] = x
      OBVIOUS
    <3>2. root' \in DOMAIN trees' /\ trail' = <<root'>>
      BY <1>1, <1>2 DEF Store
    <3> HIDE DEF Trail
    <3> QED BY <3>1, <3>2
  <2>2. Len(trail') <= Len(path')
    <3>1. Len(path') \in Nat \ {0}
      BY <1>2, EmptySeq, LenProperties DEF Store
    <3> QED BY <2>1, <3>1
  <2>3. ASSUME NEW k \in DOMAIN trail' PROVE (Whole(trail[k]) /\ files[trail[k]] = Under(k - 1))'
    <3>1. k = 1 /\ trail'[k] = root' /\ k - 1 = 0
      BY <2>1
    <3>2. root' \in DOMAIN trees'
      BY <1>2 DEF Store
    <3>3. WellFormed(root', trees', files') /\ files'[root'] = FilesOf(trees'[root'], files')
      BY <1>1, BasesAre
    <3>4. files'[trail'[k]] = UnderOf(files'[root'], path', k - 1)
      BY <1>4, <3>1 DEF Under
    <3> QED BY <3>1, <3>3, <3>4 DEF Whole, Sound, Under
  <2> QED BY <2>1, <2>2, <2>3 DEF Trail
<1>6. \A k \in 1 .. Len(trail') - 1 : FALSE
  BY <1>1
<1>7. WhileOpening'
  BY <1>2, <1>3, <1>5, <1>6 DEF WhileOpening
<1> QED BY <1>1, <1>7 DEF TreeInv

LEMMA OpensATree ==
    ASSUME TreeInv, OpenTree
    PROVE  TreeInv'
<1>0. PICK n : n = Len(trail)
  OBVIOUS
<1>1. WhileOpening /\ Store /\ Trail /\ treePc = "open" /\ n < Len(path)
      /\ trees' = trees /\ files' = files /\ root' = root /\ path' = path
  BY <1>0 DEF OpenTree, TreeInv, WhileOpening
<1>2. n \in Nat \ {0} /\ DOMAIN trail = 1 .. n /\ n \in 1 .. n /\ Len(path) \in Nat
  BY <1>0, <1>1, EmptySeq, LenProperties DEF Trail, Store
<1>3. Replaced = Named(n) /\ Copied = trees[trail[n]]
  BY <1>0 DEF Replaced, Copied, Named
<1>4. PICK i \in Named(n) :
          IF trees[trail[n]][i].hash \in DOMAIN trees
            THEN trail' = Append(trail, trees[trail[n]][i].hash) /\ treePc' = treePc
            ELSE treePc' = "failed" /\ trail' = trail
  BY <1>0, <1>3 DEF OpenTree
<1> DEFINE h == trees[trail[n]][i].hash
<1>5. CASE h \in DOMAIN trees
  <2>1. trees[trail[n]][i].mode = "dir"
    BY <1>0, <1>1, <1>2, <1>5, FileNamed
  <2>2. files[h] = Under(n) /\ ~FileAt(n)
    BY <1>1, <1>2, <2>1, <1>0, DirectoryNamed
  <2>3. Through(n)
    BY <1>1, <1>2, <2>1, <1>0, OneNamed DEF Through
  <2>4. trail' = Append(trail, h) /\ treePc' = "open"
    BY <1>1, <1>4, <1>5
  <2>5. /\ trail' \in Seq(DOMAIN trees) /\ trail' # <<>> /\ Len(trail') = n + 1
        /\ \A k \in 1 .. n : trail'[k] = trail[k]
        /\ trail'[n + 1] = h
    <3>1. trail \in Seq(DOMAIN trees)
      BY <1>1 DEF Trail
    <3> HIDE DEF h
    <3> QED BY <1>0, <1>5, <2>4, <3>1, AppendProperties
  <2>6. ASSUME NEW k \in 1 .. n + 1 PROVE Whole(trail'[k]) /\ files[trail'[k]] = Under(k - 1)
    <3>1. CASE k = n + 1
      BY <1>1, <1>2, <1>5, <2>2, <2>5, <3>1 DEF WhileOpening
    <3>2. CASE k \in 1 .. n
      BY <1>1, <1>2, <2>5, <3>2 DEF Trail
    <3> QED BY <1>2, <3>1, <3>2
  <2>7. Trail'
    <3>1. DOMAIN trail' = 1 .. n + 1 /\ Len(trail') <= Len(path)
      BY <1>1, <1>2, <2>5, LenProperties
    <3> QED BY <1>1, <2>5, <2>6, <3>1 DEF Trail, Whole, Sound, Under
  <2>8. ASSUME NEW k \in 1 .. n PROVE Through(k)' /\ ~FileAt(k)'
    <3>1. Through(k) /\ ~FileAt(k)
      <4>1. CASE k = n
        BY <2>2, <2>3, <4>1
      <4>2. CASE k \in 1 .. n - 1
        BY <1>0, <1>1, <4>2 DEF WhileOpening
      <4> QED BY <1>2, <4>1, <4>2
    <3>2. trail'[k] = trail[k]
      BY <2>5
    <3> QED BY <1>1, <3>1, <3>2 DEF Through, Named, FileAt
  <2>9. WhileOpening'
    <3>1. Store' /\ \A t \in DOMAIN trees' : Whole(t)'
      BY <1>1 DEF WhileOpening, Store, Whole, Sound
    <3>2. 1 .. Len(trail') - 1 = 1 .. n
      BY <1>2, <2>5
    <3> QED BY <2>7, <2>8, <3>1, <3>2 DEF WhileOpening
  <2> QED BY <2>4, <2>9 DEF TreeInv
<1>6. CASE h \notin DOMAIN trees
  <2>1. trees[trail[n]][i].mode # "dir"
    BY <1>1, <1>2, <1>6, <1>0, DirectoryNamed
  <2>2. FileAt(n)
    BY <1>1, <1>2, <2>1, <1>0, FileNamed
  <2>3. FileAt(n)' /\ n \in 1 .. Len(path') - 1
    BY <1>1, <1>2, <2>2 DEF FileAt
  <2>4. treePc' = "failed"
    BY <1>4, <1>6
  <2> QED BY <2>3, <2>4 DEF TreeInv
<1> QED BY <1>5, <1>6

LEMMA ReachesTheBottom ==
    ASSUME TreeInv, Bottom
    PROVE  TreeInv'
<1>0. PICK n : n = Len(trail)
  OBVIOUS
<1>1. /\ WhileOpening /\ Store /\ Trail /\ treePc = "open" /\ (n = Len(path) \/ Replaced = {})
      /\ treePc' = "write" /\ at' = Len(path) /\ entry' = [mode |-> "file", hash |-> New]
      /\ trees' = trees /\ files' = files /\ root' = root /\ path' = path /\ trail' = trail
  BY <1>0 DEF Bottom, TreeInv, WhileOpening
<1>2. n \in Nat \ {0} /\ DOMAIN trail = 1 .. n /\ n \in 1 .. n /\ Len(path) \in Nat /\ n <= Len(path)
  BY <1>0, <1>1, EmptySeq, LenProperties DEF Trail, Store
<1>3. Replaced = Named(n)
  BY <1>0 DEF Replaced, Copied, Named
<1>4. path \in Seq(Names) /\ files[root] \in SUBSET FileEntries
  BY <1>1, StoreFacts DEF Store
<1>5. ASSUME n < Len(path)
      PROVE  /\ Named(n) = {} /\ \A k \in n .. Len(path) : Under(k) = {}
  <2>1. Named(n) = {}
    BY <1>1, <1>2, <1>3, <1>5
  <2>2. Level(n) = {} /\ Under(n) = {}
    BY <1>0, <1>1, <1>2, <2>1, NothingNamed
  <2>3. n \in 0 .. Len(path)
    BY <1>2
  <2>4. \A k \in n .. Len(path) : UnderOf(files[root], path, k) = {}
    BY <1>4, <2>2, <2>3, UnderDeeper DEF Under
  <2> QED BY <2>1, <2>4 DEF Under
<1>6. NoFile
  <2> SUFFICES ASSUME NEW k \in 1 .. Len(path) - 1, FileAt(k) PROVE FALSE
    BY DEF NoFile
  <2>1. k \in 1 .. Len(path)
    BY <1>2
  <2>2. PICK f \in Under(k - 1) : f.path = <<path[k]>>
    BY <1>4, <2>1, UnderFile DEF FileAt, Under
  <2>3. f \in FileEntries /\ path[k] \in Names
    BY <1>1, <2>1, StoreFacts DEF Under, UnderOf
  <2>4. CASE k < n
    BY <1>0, <1>1, <1>2, <2>4 DEF WhileOpening
  <2>5. CASE k = n
    <3>1. n < Len(path)
      BY <1>2, <2>5
    <3>2. Named(n) = {}
      BY <1>5, <3>1
    <3>3. Level(n) = {}
      BY <1>0, <1>1, <1>2, <3>2, NothingNamed
    <3>4. f \in Level(n)
      BY <1>0, <1>1, <1>2, <2>2, <2>3, <2>5, OneName, LevelFiles
    <3> QED BY <3>3, <3>4
  <2>6. CASE k > n
    <3>1. n < Len(path) /\ k - 1 \in n .. Len(path)
      BY <1>2, <2>6
    <3> QED BY <1>5, <2>2, <3>1
  <2> QED BY <1>2, <2>4, <2>5, <2>6
<1>7. ASSUME NEW k \in DOMAIN trail, k < Len(path) PROVE Through(k)
  <2>1. CASE k = n
    BY <1>5, <1>7, <2>1 DEF Through
  <2>2. CASE k \in 1 .. n - 1
    BY <1>0, <1>1, <2>2 DEF WhileOpening
  <2> QED BY <1>2, <2>1, <2>2
<1>8. \A t \in DOMAIN trees : Sound(t)
  BY <1>1 DEF WhileOpening, Whole
<1>9. at' \in Len(trail') .. Len(path')
  BY <1>0, <1>1, <1>2
<1>10. at' > Len(trail') => Named(n) = {} /\ \A k \in n .. Len(path) : Under(k) = {}
  BY <1>0, <1>1, <1>2, <1>5
<1>11. WhileWriting'
  <2>1. (Store /\ Trail /\ NoFile)'
    BY <1>1, <1>6 DEF Store, Trail, NoFile, FileAt, Whole, Sound, Under
  <2>2. \A k \in DOMAIN trail' : k < Len(path') => Through(k)'
    BY <1>1, <1>7 DEF Through, Named
  <2>3. \A k : Under(k)' = Under(k)
    BY <1>1 DEF Under
  <2>4. (at > Len(trail) => Named(Len(trail)) = {} /\ \A k \in Len(trail) .. Len(path) : Under(k) = {})'
    BY <1>0, <1>1, <1>10, <2>3 DEF Named
  <2>5. (\A t \in DOMAIN trees : Sound(t))'
    BY <1>1, <1>8 DEF Sound
  <2>6. Copying'
    BY <1>1 DEF Copying
  <2> QED BY <1>9, <2>1, <2>2, <2>4, <2>5, <2>6 DEF WhileWriting
<1> QED BY <1>1, <1>11 DEF TreeInv

-----------------------------------------------------------------------------
(* What a tree's one new entry holds: the path's file in place of Level.   *)
Fits(O, k, m) ==
    /\ Changed(O, FilesOfEntry(Entry(path[k], m, entry.hash), files), PathFrom(k))
    /\ entry.hash \in Blobs \union Nat
    /\ Acceptable(Entry(path[k], m, entry.hash))
    /\ m # "dir" => entry.hash \in Blobs

LEMMA LastEntryFits ==
    ASSUME Store, Copying, at = Len(path), NEW m, m # "dir",
           NEW O, Changed(O, {NewFile(<<path[at]>>, m)}, <<path[at]>>)
    PROVE  Fits(O, at, m)
<1> DEFINE e == Entry(path[at], m, entry.hash)
<1>1. e.name = path[at] /\ e.mode = m /\ e.hash = entry.hash
  BY DEF Entry
<1>2. entry.hash = New /\ New \in Blobs
  BY GitTreeAssumption DEF Copying
<1>3. FilesOfEntry(e, files) = {NewFile(<<path[at]>>, m)}
  BY <1>1, <1>2 DEF FilesOfEntry, NewFile
<1>4. PathFrom(at) = <<path[at]>>
  BY PathsFrom
<1>5. Acceptable(e)
  BY <1>1, <1>2 DEF Acceptable
<1> QED BY <1>2, <1>3, <1>4, <1>5 DEF Fits

LEMMA DirectoryFits ==
    ASSUME Store, Copying, ~Blocked, at \in 1 .. Len(path), at # Len(path), NEW O,
           O = AllBeneath(path[at], Under(at))
    PROVE  Fits(O, at, "dir")
<1> DEFINE e == Entry(path[at], "dir", entry.hash)
<1>1. e.name = path[at] /\ e.mode = "dir" /\ e.hash = entry.hash /\ path[at] \in Names
  BY StoreFacts DEF Entry
<1>2. /\ entry.hash \in DOMAIN trees /\ Changed(Under(at), files[entry.hash], PathFrom(at + 1))
  BY DEF Copying
<1>3. Len(path) \in Nat /\ at \in 1 .. Len(path) - 1 /\ at + 1 \in 1 .. Len(path)
  BY StoreFacts
<1>4. DOMAIN trees \in SUBSET Nat /\ DOMAIN files = DOMAIN trees
  <2>1. Len(trees) \in Nat /\ DOMAIN trees = 1 .. Len(trees) /\ DOMAIN files = 1 .. Len(trees)
    BY StoreFacts
  <2> QED BY ONLY <2>1
<1>5. FilesOfEntry(e, files) = AllBeneath(path[at], files[entry.hash])
  BY <1>1, <1>2, <1>4 DEF FilesOfEntry, AllBeneath
<1>6. Under(at) \in SUBSET FileEntries
  BY DEF Under, UnderOf
<1>7. PathFrom(at + 1) \in Seq(Names) /\ PathFrom(at) = <<path[at]>> \o PathFrom(at + 1)
  BY <1>3, PathsFrom, StoreFacts
<1>8. Changed(AllBeneath(path[at], Under(at)), AllBeneath(path[at], files[entry.hash]), PathFrom(at))
  BY <1>1, <1>2, <1>6, <1>7, ChangedBeneath
<1>9. files[entry.hash] # {}
  BY <1>2 DEF Changed
<1>10. Acceptable(e)
  BY <1>1, <1>2, <1>9 DEF Acceptable
<1> QED BY <1>2, <1>4, <1>5, <1>8, <1>10 DEF Fits

LEMMA NewNameFits ==
    ASSUME Store, Copying, ~Blocked, at \in 1 .. Len(path), Under(at) = {}
    PROVE  Fits({}, at, entry.mode) /\ entry.mode \in Modes
<1>1. CASE at = Len(path)
  <2>1. entry.mode = "file" /\ entry.mode # "dir"
    BY <1>1 DEF Copying
  <2>2. Changed({}, {NewFile(<<path[at]>>, entry.mode)}, <<path[at]>>)
    BY <2>1, AddedFile
  <2> QED BY <1>1, <2>1, <2>2, LastEntryFits DEF Modes
<1>2. CASE at # Len(path)
  <2>1. entry.mode = "dir"
    BY <1>2 DEF Copying
  <2>2. {} = AllBeneath(path[at], Under(at))
    BY DEF AllBeneath
  <2>3. Fits({}, at, "dir")
    BY <1>2, <2>2, DirectoryFits
  <2> QED BY <2>1, <2>3 DEF Modes
<1> QED BY <1>1, <1>2

LEMMA WritesANewTree ==
    ASSUME TreeInv, NewPath
    PROVE  TreeInv'
<1>0. PICK k, n : k = at /\ n = Len(trees)
  OBVIOUS
<1> DEFINE e  == Entry(path[k], entry.mode, entry.hash)
           es == <<e>>
<1>1. /\ WhileWriting /\ Store /\ Trail /\ NoFile /\ Copying /\ k > Len(trail) /\ k \in Len(trail) .. Len(path)
      /\ StoreTree(es) /\ at' = k - 1 /\ entry' = [mode |-> "dir", hash |-> n + 1]
      /\ treePc' = "write" /\ root' = root /\ path' = path /\ trail' = trail
  BY <1>0 DEF NewPath, TreeInv, WhileWriting, StoreTree
<1>2. /\ Len(trail) \in Nat \ {0} /\ Len(path) \in Nat /\ DOMAIN trail = 1 .. Len(trail) /\ n \in Nat
      /\ DOMAIN trees = 1 .. n /\ k \in 1 .. Len(path) /\ k \in Nat /\ k - 1 \in Len(trail) .. Len(path)
      /\ k - 1 < Len(path) /\ k - 1 \in Nat /\ Len(trail) \in 1 .. Len(trail)
  <2>1. Len(trail) \in Nat \ {0} /\ Len(path) \in Nat /\ DOMAIN trail = 1 .. Len(trail)
    BY <1>1, EmptySeq, LenProperties DEF Trail, Store
  <2>2. n \in Nat /\ DOMAIN trees = 1 .. n
    BY <1>0, <1>1, StoreFacts
  <2> QED BY <1>1, <2>1, <2>2
<1>3. /\ Named(Len(trail)) = {} /\ \A j \in Len(trail) .. Len(path) : Under(j) = {}
  BY <1>0, <1>1 DEF WhileWriting
<1>4. ~Blocked
  <2>1. Len(path) \in Len(trail) .. Len(path)
    BY <1>1, <1>2
  <2> QED BY <1>1, <1>3, <2>1, BlockedIs
<1>5. \A t \in DOMAIN trees : Sound(t)
  BY <1>1, <1>4 DEF WhileWriting
<1>6. Under(k) = {} /\ Under(k - 1) = {}
  BY <1>1, <1>2, <1>3
<1>7. /\ Changed({}, FilesOfEntry(e, files), PathFrom(k))
      /\ entry.hash \in Blobs \union Nat /\ Acceptable(e) /\ (entry.mode # "dir" => entry.hash \in Blobs)
  <2>1. Fits({}, at, entry.mode)
    <3>1. at \in 1 .. Len(path) /\ Under(at) = {}
      BY <1>0, <1>2, <1>6
    <3> QED BY <1>1, <1>4, <3>1, NewNameFits
  <2> QED BY <1>0, <2>1 DEF Fits
<1>8. e \in Entries /\ e.mode = entry.mode /\ e.hash = entry.hash
  <2>1. path[k] \in Names
    BY <1>1, <1>2, StoreFacts
  <2>2. entry.mode \in Modes
    BY <1>0, <1>1 DEF Copying, Modes
  <2> QED BY <1>7, <2>1, <2>2 DEF Entry, Entries
<1> HIDE DEF e
<1>9. es \in Seq(Entries) /\ EntrySet(es) = {e} /\ \A i, j \in DOMAIN es : i = j
  BY <1>8 DEF EntrySet
<1>10. FilesIn(EntrySet(es), files) = FilesOfEntry(e, files)
  BY <1>9 DEF FilesIn
<1>11. /\ Store' /\ Kept /\ SortedAs(trees'[n + 1], EntrySet(es))
       /\ files'[n + 1] = FilesIn(EntrySet(es), files)
  <2>1. \A d \in EntrySet(es) : d.mode # "dir" => d.hash \in Blobs
    BY <1>7, <1>8, <1>9
  <2>2. \A i, j \in DOMAIN es : es[i].name = es[j].name => i = j
    BY <1>9
  <2> HIDE DEF es
  <2>3. /\ Store' /\ DOMAIN trees' = 1 .. Len(trees) + 1
        /\ \A t \in DOMAIN trees : trees'[t] = trees[t] /\ files'[t] = files[t]
        /\ SortedAs(trees'[Len(trees) + 1], EntrySet(es))
        /\ files'[Len(trees) + 1] = FilesIn(EntrySet(es), files)
        /\ files'[root] = files[root]
    BY <1>1, <1>9, <2>1, <2>2, Stored
  <2> QED BY <1>0, <1>1, <2>3 DEF Kept
<1>12. Sound(n + 1)'
  BY <1>0, <1>1, <1>7, <1>9, <1>11, NewIsSound
<1>13. \A t \in DOMAIN trees' : Sound(t)'
  <2> SUFFICES ASSUME NEW t \in DOMAIN trees' PROVE Sound(t)'
    OBVIOUS
  <2>1. t \in DOMAIN trees \/ t = n + 1
    BY <1>0, <1>2, <1>11 DEF Kept
  <2> QED BY <1>1, <1>5, <1>11, <1>12, <2>1, KeptSound
<1>14. Trail'
  <2>1. trail \in Seq(DOMAIN trees) /\ trail # <<>> /\ Len(trail) <= Len(trail)
    BY <1>1, <1>2 DEF Trail
  <2> QED BY <1>1, <1>11, <2>1, TrailKept
<1>15. \A j \in DOMAIN trail : trees'[trail[j]] = trees[trail[j]]
  BY <1>1, <1>2, <1>11, TrailFacts DEF Kept
<1>16. WhileWriting'
  <2>1. NoFile' /\ ~Blocked'
    BY <1>1, <1>4, <1>11, KeptBase
  <2>2. \A j \in DOMAIN trail' : j < Len(path') => Through(j)'
    BY <1>1, <1>15 DEF Through, Named, WhileWriting
  <2>3. (at > Len(trail) => Named(Len(trail)) = {} /\ \A j \in Len(trail) .. Len(path) : Under(j) = {})'
    BY <1>1, <1>2, <1>3, <1>11, <1>15, KeptBase DEF Named
  <2>4. at' \in Len(trail') .. Len(path')
    BY <1>1, <1>2
  <2>5. Copying'
    <3>1. at' # Len(path') /\ entry' = [mode |-> "dir", hash |-> entry'.hash] /\ entry'.hash = n + 1
          /\ n + 1 \in DOMAIN trees'
      BY <1>0, <1>1, <1>2, <1>11 DEF Kept
    <3>2. Under(k - 1)' = {} /\ PathFrom(k)' = PathFrom(k)
      BY <1>6, <1>11, KeptBase
    <3>3. Under(at)' = {} /\ PathFrom(at + 1)' = PathFrom(k)
      <4>1. at' = k - 1 /\ at' + 1 = k
        BY <1>1, <1>2
      <4> QED BY <3>2, <4>1 DEF Under, PathFrom
    <3>4. Changed(Under(at)', files'[entry'.hash], PathFrom(at + 1)')
      BY <1>7, <1>10, <1>11, <3>1, <3>3
    <3> QED BY <2>1, <3>1, <3>4 DEF Copying
  <2> QED BY <1>11, <1>13, <1>14, <2>1, <2>2, <2>3, <2>4, <2>5 DEF WhileWriting
<1> QED BY <1>1, <1>16 DEF TreeInv

-----------------------------------------------------------------------------
(* The copy of a tree: the entries of the other names, and one of the      *)
(* path's next name.                                                       *)
Rewritten(e) ==
    /\ CopiedEntries \in Seq(Entries)
    /\ \A i, j \in DOMAIN CopiedEntries : CopiedEntries[i].name = CopiedEntries[j].name => i = j
    /\ EntrySet(CopiedEntries) = OthersThan(EntrySet(trees[trail[at]]), path[at]) \union {e}

LEMMA NamesDiffer ==
    ASSUME Store, Trail, NEW k \in 1 .. Len(trail)
    PROVE  /\ Len(trees[trail[k]]) \in Nat /\ DOMAIN trees[trail[k]] = 1 .. Len(trees[trail[k]])
           /\ \A i, j \in DOMAIN trees[trail[k]] : trees[trail[k]][i].name = trees[trail[k]][j].name => i = j
<1>1. trees[trail[k]] \in Seq(Entries) /\ Sound(trail[k])
  BY TrailFacts
<1>2. Len(trees[trail[k]]) \in Nat /\ DOMAIN trees[trail[k]] = 1 .. Len(trees[trail[k]])
  BY <1>1, LenProperties
<1>3. ASSUME NEW i \in DOMAIN trees[trail[k]], NEW j \in DOMAIN trees[trail[k]], i # j
      PROVE  trees[trail[k]][i].name # trees[trail[k]][j].name
  <2>1. i \in Nat /\ j \in Nat
    BY <1>2
  <2>2. i < j \/ j < i
    BY <1>3, <2>1
  <2> QED BY <1>1, <2>2 DEF Sound, WellFormed
<1> QED BY <1>2, <1>3

LEMMA AddsAnEntry ==
    ASSUME Store, Trail, at \in 1 .. Len(trail), at = Len(trail), Named(at) = {},
           NEW e \in Entries, e = Entry(path[at], entry.mode, entry.hash)
    PROVE  Rewritten(e)
<1> DEFINE es == trees[trail[at]]
           l  == Len(es)
           c  == CopiedEntries
<1>1. es \in Seq(Entries) /\ path[at] \in Names
  BY TrailFacts
<1>2. l \in Nat /\ DOMAIN es = 1 .. l /\ \A i, j \in DOMAIN es : es[i].name = es[j].name => i = j
  BY NamesDiffer
<1>3. \A i \in 1 .. l : es[i].name # path[at]
  BY <1>2 DEF Named
<1>4. c = Append(es, e)
  BY DEF CopiedEntries, Replaced, Copied, Named
<1>5. e.name = path[at]
  BY DEF Entry
<1> HIDE DEF es, c
<1>6. /\ c \in Seq(Entries) /\ Len(c) = l + 1 /\ DOMAIN c = 1 .. l + 1
      /\ \A i \in 1 .. l : c[i] = es[i]
      /\ c[l + 1] = e
  <2>1. c \in Seq(Entries) /\ Len(c) = l + 1 /\ (\A i \in 1 .. l : c[i] = es[i]) /\ c[l + 1] = e
    BY <1>1, <1>4, AppendProperties
  <2> QED BY <2>1, LenProperties
<1> HIDE DEF l
<1>7. \A i, j \in DOMAIN c : c[i].name = c[j].name => i = j
  <2> SUFFICES ASSUME NEW i \in 1 .. l + 1, NEW j \in 1 .. l + 1, c[i].name = c[j].name PROVE i = j
    BY <1>6
  <2>1. \A x \in 1 .. l + 1 : x \in 1 .. l \/ x = l + 1
    BY <1>2
  <2>2. CASE i \in 1 .. l /\ j \in 1 .. l
    BY <1>2, <1>6, <2>2
  <2>3. CASE i \in 1 .. l /\ j = l + 1
    BY <1>3, <1>5, <1>6, <2>3
  <2>4. CASE i = l + 1 /\ j \in 1 .. l
    BY <1>3, <1>5, <1>6, <2>4
  <2> QED BY <2>1, <2>2, <2>3, <2>4
<1>8. EntrySet(c) = OthersThan(EntrySet(es), path[at]) \union {e}
  <2>1. EntrySet(es) = {es[i] : i \in 1 .. l}
    BY <1>2 DEF EntrySet
  <2>2. OthersThan(EntrySet(es), path[at]) = {es[i] : i \in 1 .. l}
    BY <1>3, <2>1 DEF OthersThan
  <2>3. \A x \in 1 .. l + 1 : x \in 1 .. l \/ x = l + 1
    BY <1>2
  <2>4. \A x \in 1 .. l : x \in 1 .. l + 1
    BY <1>2
  <2>5. l + 1 \in 1 .. l + 1
    BY <1>2
  <2>6. EntrySet(c) = {es[i] : i \in 1 .. l} \union {e}
    BY <1>6, <2>3, <2>4, <2>5 DEF EntrySet
  <2> QED BY <2>2, <2>6
<1> QED BY <1>6, <1>7, <1>8 DEF Rewritten, c, es

LEMMA ReplacesAnEntry ==
    ASSUME Store, Trail, at \in 1 .. Len(trail), at = Len(trail), NEW i \in Named(at),
           NEW e \in Entries, e = Entry(path[at], trees[trail[at]][i].mode, entry.hash)
    PROVE  Rewritten(e)
<1> DEFINE es == trees[trail[at]]
           l  == Len(es)
           c  == CopiedEntries
<1>1. es \in Seq(Entries)
  BY TrailFacts
<1>2. l \in Nat /\ DOMAIN es = 1 .. l /\ \A x, y \in DOMAIN es : es[x].name = es[y].name => x = y
  BY NamesDiffer
<1>3. i \in 1 .. l /\ es[i].name = path[at] /\ \A x \in 1 .. l : es[x].name = path[at] <=> x = i
  BY <1>2 DEF Named
<1>4. c = [x \in 1 .. l |-> IF x = i THEN e ELSE es[x]]
  <2>1. Copied = es /\ Replaced = {i}
    BY <1>2, <1>3 DEF Copied, Replaced
  <2>2. e = Entry(es[i].name, es[i].mode, entry.hash)
    BY <1>3
  <2>3. c = [x \in DOMAIN Copied |-> IF x \in Replaced
                                    THEN Entry(Copied[x].name, Copied[x].mode, entry.hash)
                                    ELSE Copied[x]]
    BY <2>1 DEF CopiedEntries
  <2> QED BY <1>2, <2>1, <2>2, <2>3
<1>5. e.name = path[at]
  BY DEF Entry
<1> HIDE DEF es, c
<1>6. \A x \in 1 .. l : es[x] \in Entries
  BY <1>1, <1>2, ElementOfSeq
<1> HIDE DEF l
<1>7. c \in Seq(Entries) /\ DOMAIN c = 1 .. l
  BY <1>2, <1>4, <1>6
<1>8. \A x, y \in DOMAIN c : c[x].name = c[y].name => x = y
  <2>1. \A x \in 1 .. l : c[x].name = es[x].name
    BY <1>3, <1>4, <1>5
  <2> QED BY <1>2, <1>7, <2>1
<1>9. EntrySet(c) = OthersThan(EntrySet(es), path[at]) \union {e}
  <2>1. OthersThan(EntrySet(es), path[at]) = {es[x] : x \in (1 .. l) \ {i}}
    BY <1>2, <1>3 DEF OthersThan, EntrySet
  <2>2. EntrySet(c) = {es[x] : x \in (1 .. l) \ {i}} \union {e}
    BY <1>3, <1>4, <1>7 DEF EntrySet
  <2> QED BY <2>1, <2>2
<1> QED BY <1>7, <1>8, <1>9 DEF Rewritten, c, es

LEMMA RewritesTheEntry ==
    ASSUME Store, Trail, Copying, at \in 1 .. Len(trail), at = Len(trail),
           at < Len(path) => Through(at)
    PROVE  \E e \in Entries :
              /\ Rewritten(e) /\ e.name = path[at] /\ (e.mode # "dir" => e.hash \in Blobs)
              /\ Blocked /\ at = Len(path) => e.mode = "dir" /\ e.hash \in Blobs
              /\ ~Blocked => Acceptable(e) /\ Changed(Level(at), FilesOfEntry(e, files), PathFrom(at))
<1>1. at \in 1 .. Len(path) /\ path[at] \in Names /\ at \in Nat /\ Len(path) \in Nat
  <2>1. at \in 1 .. Len(path) /\ path[at] \in Names
    BY TrailFacts
  <2> QED BY <2>1, StoreFacts
<1>2. entry.hash \in Blobs \union Nat /\ (at # Len(path) => entry.hash \in Nat)
  <2>1. CASE at = Len(path)
    BY <2>1, GitTreeAssumption DEF Copying
  <2>2. CASE at # Len(path)
    <3>1. entry.hash \in DOMAIN trees
      BY <2>2 DEF Copying
    <3>2. entry.hash \in Nat
      BY <3>1, StoreFacts
    <3> QED BY <3>2
  <2> QED BY <2>1, <2>2
<1>3. ASSUME NEW m \in Modes
      PROVE  /\ Entry(path[at], m, entry.hash) \in Entries
             /\ Entry(path[at], m, entry.hash).name = path[at] /\ Entry(path[at], m, entry.hash).mode = m
             /\ Entry(path[at], m, entry.hash).hash = entry.hash
  BY <1>1, <1>2 DEF Entry, Entries
<1>4. CASE Named(at) = {}
  <2>1. Level(at) = {} /\ Under(at) = {}
    BY <1>4, NothingNamed
  <2>2. ~Blocked
    <3>1. /\ at \in 0 .. Len(path) /\ Len(path) \in at .. Len(path) /\ path \in Seq(Names)
          /\ files[root] \in SUBSET FileEntries
      BY <1>1, StoreFacts DEF Store
    <3>2. UnderOf(files[root], path, Len(path)) = {}
      BY <2>1, <3>1, UnderDeeper DEF Under
    <3> QED BY <3>2, BlockedIs DEF Under
  <2>3. Fits({}, at, entry.mode) /\ entry.mode \in Modes
    BY <1>1, <2>1, <2>2, NewNameFits
  <2>4. PICK e \in Entries : /\ e = Entry(path[at], entry.mode, entry.hash)
                             /\ e.name = path[at] /\ e.mode = entry.mode /\ e.hash = entry.hash
    BY <1>3, <2>3
  <2>5. Rewritten(e)
    BY <1>4, <2>4, AddsAnEntry
  <2> QED BY <2>1, <2>2, <2>3, <2>4, <2>5 DEF Fits
<1>5. CASE Named(at) # {}
  <2>1. PICK i \in Named(at) : TRUE
    BY <1>5
  <2>2. PICK m \in Modes : m = trees[trail[at]][i].mode
    <3>1. trees[trail[at]][i] \in Entries
      BY OneNamed, TrailFacts
    <3> QED BY <3>1, EntryFields
  <2>3. PICK e \in Entries : /\ e = Entry(path[at], m, entry.hash)
                             /\ e.name = path[at] /\ e.mode = m /\ e.hash = entry.hash
    BY <1>3
  <2>4. Rewritten(e)
    BY <2>2, <2>3, ReplacesAnEntry
  <2>5. CASE at = Len(path)
    <3>1. entry.hash = New /\ New \in Blobs
      BY <2>5, GitTreeAssumption DEF Copying
    <3>2. CASE m = "dir"
      <4>1. Under(at) # {}
        BY <2>2, <3>2, DirectoryNamed
      <4>2. Blocked
        BY <2>5, <4>1, BlockedIs
      <4> QED BY <2>3, <2>4, <3>1, <3>2, <4>2
    <3>3. CASE m # "dir"
      <4>1. /\ Level(at) = {[path |-> <<path[at]>>, mode |-> m, blob |-> trees[trail[at]][i].hash]}
            /\ Under(at) = {}
        BY <2>2, <3>3, FileNamed
      <4>2. ~Blocked
        BY <2>5, <4>1, BlockedIs
      <4>3. Changed(Level(at), {NewFile(<<path[at]>>, m)}, <<path[at]>>)
        <5> DEFINE f == [path |-> <<path[at]>>, mode |-> m, blob |-> trees[trail[at]][i].hash]
        <5>1. Level(at) = {f} /\ f.path = <<path[at]>> /\ f.mode = m
          BY <4>1
        <5> HIDE DEF f
        <5>2. Changed({f}, {NewFile(f.path, f.mode)}, f.path)
          BY ReplacedFile
        <5> QED BY <5>1, <5>2
      <4>4. Fits(Level(at), at, m)
        BY <2>5, <3>3, <4>3, LastEntryFits
      <4> QED BY <2>3, <2>4, <4>2, <4>4 DEF Fits
    <3> QED BY <3>2, <3>3
  <2>6. CASE at # Len(path)
    <3>1. at < Len(path)
      BY <1>1, <2>6
    <3>2. m = "dir"
      BY <2>2, <3>1 DEF Through
    <3>3. CASE Blocked
      BY <2>3, <2>4, <2>6, <3>2, <3>3
    <3>4. CASE ~Blocked
      <4>1. Level(at) = AllBeneath(path[at], Under(at))
        BY <2>2, <3>2, DirectoryNamed
      <4>2. Fits(Level(at), at, "dir")
        BY <1>1, <2>6, <3>4, <4>1, DirectoryFits
      <4> QED BY <2>3, <2>4, <3>2, <3>4, <4>2 DEF Fits
    <3> QED BY <3>3, <3>4
  <2> QED BY <2>5, <2>6
<1> QED BY <1>4, <1>5

LEMMA RewritesATree ==
    ASSUME TreeInv, RebuildTree
    PROVE  TreeInv'
<1>0. PICK k, n : k = at /\ n = Len(trees)
  OBVIOUS
<1> DEFINE S == EntrySet(trees[trail[k]])
<1>1. /\ WhileWriting /\ Store /\ Trail /\ NoFile /\ Copying /\ k = Len(trail) /\ k \in Len(trail) .. Len(path)
      /\ StoreTree(CopiedEntries) /\ at' = k - 1 /\ entry' = [mode |-> "dir", hash |-> n + 1]
      /\ treePc' = (IF k = 1 THEN "done" ELSE "write") /\ root' = root /\ path' = path
      /\ trail' = SubSeq(trail, 1, k - 1)
  BY <1>0 DEF RebuildTree, TreeInv, WhileWriting, StoreTree
<1>2. /\ k \in Nat \ {0} /\ Len(path) \in Nat /\ DOMAIN trail = 1 .. k /\ n \in Nat
      /\ DOMAIN trees = 1 .. n /\ k \in 1 .. Len(path) /\ k \in 1 .. k
      /\ k - 1 < Len(path) /\ k - 1 \in Nat /\ k - 1 + 1 = k
  <2>1. Len(trail) \in Nat \ {0} /\ Len(path) \in Nat /\ DOMAIN trail = 1 .. Len(trail)
    BY <1>1, EmptySeq, LenProperties DEF Trail, Store
  <2>2. n \in Nat /\ DOMAIN trees = 1 .. n
    BY <1>0, <1>1, StoreFacts
  <2> QED BY <1>1, <2>1, <2>2
<1>3. PICK e \in Entries :
          /\ Rewritten(e) /\ e.name = path[k] /\ (e.mode # "dir" => e.hash \in Blobs)
          /\ Blocked /\ k = Len(path) => e.mode = "dir" /\ e.hash \in Blobs
          /\ ~Blocked => Acceptable(e) /\ Changed(Level(k), FilesOfEntry(e, files), PathFrom(k))
  <2>1. at < Len(path) => Through(at)
    BY <1>0, <1>1, <1>2 DEF WhileWriting
  <2> QED BY <1>0, <1>1, <1>2, <2>1, RewritesTheEntry
<1>4. PICK es : es = CopiedEntries
  OBVIOUS
<1>5. /\ es \in Seq(Entries) /\ \A i, j \in DOMAIN es : es[i].name = es[j].name => i = j
      /\ EntrySet(es) = OthersThan(S, path[k]) \union {e}
  BY <1>0, <1>3, <1>4 DEF Rewritten
<1>6. /\ files[trail[k]] = Under(k - 1) /\ files[trail[k]] = FilesIn(S, files) /\ S \in SUBSET Entries
      /\ trail[k] \in DOMAIN trees /\ path[k] \in Names
      /\ \A d \in S : Acceptable(d) /\ (d.mode # "dir" => d.hash \in Blobs)
  BY <1>1, <1>2, TrailFacts DEF Acceptable
<1>7. \A d \in EntrySet(es) : d = e \/ d \in S
  BY <1>5 DEF OthersThan
<1>8. e \in EntrySet(es)
  BY <1>5
<1> HIDE DEF S
<1>9. /\ Store' /\ Kept /\ SortedAs(trees'[n + 1], EntrySet(es))
      /\ files'[n + 1] = FilesIn(EntrySet(es), files)
  <2>1. \A d \in EntrySet(es) : d.mode # "dir" => d.hash \in Blobs
    BY <1>3, <1>6, <1>7
  <2>2. StoreTree(es)
    BY <1>1, <1>4
  <2>3. /\ Store' /\ DOMAIN trees' = 1 .. Len(trees) + 1
        /\ \A t \in DOMAIN trees : trees'[t] = trees[t] /\ files'[t] = files[t]
        /\ SortedAs(trees'[Len(trees) + 1], EntrySet(es))
        /\ files'[Len(trees) + 1] = FilesIn(EntrySet(es), files)
        /\ files'[root] = files[root]
    BY <1>1, <1>5, <2>1, <2>2, Stored
  <2> QED BY <1>0, <1>1, <2>3 DEF Kept
<1>10. (\A t \in DOMAIN trees' : Sound(t)') \/ Blocked'
  <2> SUFFICES ASSUME ~Blocked, NEW t \in DOMAIN trees' PROVE Sound(t)'
    BY <1>9, KeptBase
  <2>1. \A d \in EntrySet(es) : Acceptable(d)
    BY <1>3, <1>6, <1>7
  <2>2. Sound(n + 1)'
    BY <1>0, <1>1, <1>5, <1>9, <2>1, NewIsSound
  <2>3. t \in DOMAIN trees \/ t = n + 1
    BY <1>0, <1>2, <1>9 DEF Kept
  <2>4. \A s \in DOMAIN trees : Sound(s)
    BY <1>1 DEF WhileWriting
  <2> QED BY <1>1, <1>9, <2>2, <2>3, <2>4, KeptSound
<1>11. Copying'
  <2>1. at' # Len(path') /\ entry' = [mode |-> "dir", hash |-> entry'.hash] /\ entry'.hash = n + 1
        /\ n + 1 \in DOMAIN trees'
    BY <1>0, <1>1, <1>2, <1>9 DEF Kept
  <2>2. CASE Blocked
    <3>1. Blocked'
      BY <1>9, <2>2, KeptBase
    <3>2. CASE k = Len(path)
      <4>1. e.mode = "dir" /\ e.hash \in Blobs
        BY <1>3, <2>2, <3>2
      <4>2. ~Sound(n + 1)'
        BY <1>0, <1>1, <1>5, <1>8, <1>9, <4>1, NewIsSound
      <4> QED BY <2>1, <3>1, <4>2 DEF Copying
    <3>3. CASE k # Len(path)
      <4>1. PICK t \in DOMAIN trees : ~Sound(t)
        BY <1>0, <1>1, <2>2, <3>3 DEF Copying
      <4>2. t \in DOMAIN trees' /\ ~Sound(t)'
        BY <1>0, <1>1, <1>2, <1>9, <4>1, KeptSound DEF Kept
      <4> QED BY <2>1, <3>1, <4>2 DEF Copying
    <3> QED BY <3>2, <3>3
  <2>3. CASE ~Blocked
    <3>1. ~Blocked'
      BY <1>9, <2>3, KeptBase
    <3>2. Changed(FilesIn(S, files), FilesIn(OthersThan(S, path[k]) \union {e}, files), PathFrom(k))
      <4>1. FilesIn({d \in S : d.name = path[k]}, files) = Level(k)
        BY DEF Level, S
      <4>2. Changed(FilesIn({d \in S : d.name = path[k]}, files), FilesOfEntry(e, files), PathFrom(k))
        BY <1>3, <2>3, <4>1
      <4>3. PathFrom(k)[1] = path[k]
        BY <1>1, <1>2, PathsFrom
      <4>4. files \in Seq(SUBSET FileEntries)
        BY <1>1 DEF Store
      <4>5. \A d \in S : d.mode # "dir" => d.hash \in Blobs
        BY <1>6
      <4> QED BY <1>6, <4>2, <4>3, <4>4, <4>5, CopiedFiles
    <3>3. Changed(Under(k - 1), files'[n + 1], PathFrom(k))
      BY <1>5, <1>6, <1>9, <3>2
    <3>4. Under(k - 1)' = Under(k - 1) /\ PathFrom(k)' = PathFrom(k)
      BY <1>9, KeptBase
    <3>5. Under(at)' = Under(k - 1) /\ PathFrom(at + 1)' = PathFrom(k)
      <4>1. at' = k - 1 /\ at' + 1 = k
        BY <1>1, <1>2
      <4> QED BY <3>4, <4>1 DEF Under, PathFrom
    <3>6. Changed(Under(at)', files'[entry'.hash], PathFrom(at + 1)')
      BY <2>1, <3>3, <3>5
    <3> QED BY <2>1, <3>1, <3>6 DEF Copying
  <2> QED BY <2>2, <2>3
<1>12. NoFile'
  BY <1>1, <1>9, KeptBase
<1>13. CASE k = 1
  <2>1. treePc' = "done" /\ at' = 0
    BY <1>1, <1>13
  <2> QED BY <1>9, <1>10, <1>11, <1>12, <2>1 DEF TreeInv
<1>14. CASE k # 1
  <2>1. treePc' = "write"
    BY <1>1, <1>14
  <2>2. /\ trail' \in Seq(DOMAIN trees) /\ Len(trail') = k - 1 /\ trail' # <<>>
        /\ \A i \in 1 .. k - 1 : trail'[i] = trail[i]
    <3>1. trail \in Seq(DOMAIN trees)
      BY <1>1 DEF Trail
    <3>2. \A i \in 1 .. k - 1 : trail[i] \in DOMAIN trees
      BY <1>1, <1>2, <3>1, ElementOfSeq
    <3>3. k - 1 \in Int /\ 1 \in Int /\ 1 <= k - 1 + 1 /\ k - 1 - 1 + 1 = k - 1 /\ k - 1 # 0
      BY <1>2, <1>14
    <3>4. /\ trail' \in Seq(DOMAIN trees) /\ Len(trail') = k - 1
          /\ \A i \in 1 .. k - 1 : trail'[i] = trail[i]
      BY <1>1, <1>2, <3>1, <3>2, <3>3, SubSeqProperties
    <3> QED BY <3>3, <3>4, EmptySeq
  <2>3. Trail'
    <3>1. Len(trail') <= Len(trail)
      BY <1>1, <1>2, <2>2
    <3> QED BY <1>1, <1>9, <2>2, <3>1, TrailKept
  <2>4. \A j \in 1 .. k - 1 : trees'[trail'[j]] = trees[trail[j]]
    <3> SUFFICES ASSUME NEW j \in 1 .. k - 1 PROVE trees'[trail'[j]] = trees[trail[j]]
      OBVIOUS
    <3>1. j \in 1 .. Len(trail)
      BY <1>1, <1>2
    <3>2. trail[j] \in DOMAIN trees
      BY <1>1, <3>1, TrailFacts
    <3> QED BY <1>9, <2>2, <3>2 DEF Kept
  <2>5. \A j \in DOMAIN trail' : j < Len(path') => Through(j)'
    <3> SUFFICES ASSUME NEW j \in DOMAIN trail', j < Len(path') PROVE Through(j)'
      OBVIOUS
    <3>1. j \in 1 .. k - 1 /\ j \in DOMAIN trail
      BY <1>2, <2>2, LenProperties
    <3>2. Through(j)
      BY <1>1, <3>1 DEF WhileWriting
    <3> QED BY <1>1, <2>4, <3>1, <3>2 DEF Through, Named
  <2>6. at' \in Len(trail') .. Len(path') /\ ~(at' > Len(trail'))
    BY <1>1, <1>2, <2>2
  <2>7. WhileWriting'
    BY <1>9, <1>10, <1>11, <1>12, <2>3, <2>5, <2>6 DEF WhileWriting
  <2> QED BY <2>1, <2>7 DEF TreeInv
<1> QED BY <1>13, <1>14

-----------------------------------------------------------------------------
(* Along the opening and the writing of the trees: treeWithFile            *)
(* (gitsync.go:353-434).                                                   *)
THEOREM TreeInvariant == TreeSpec => []TreeInv
<1>1. TreeInit => TreeInv
  BY DEF TreeInit, TreeInv
<1>2. TreeInv /\ [TreeNext]_treeVars => TreeInv'
  <2> SUFFICES ASSUME TreeInv, [TreeNext]_treeVars PROVE TreeInv'
    OBVIOUS
  <2>1. CASE \E b \in Bases, parts \in DocPaths : TreeWithFile(b, parts)
    BY <2>1, OpensTheBase
  <2>2. CASE OpenTree
    BY <2>2, OpensATree
  <2>3. CASE Bottom
    BY <2>3, ReachesTheBottom
  <2>4. CASE NewPath
    BY <2>4, WritesANewTree
  <2>5. CASE RebuildTree
    BY <2>5, RewritesATree
  <2>6. CASE UNCHANGED treeVars
    <3>1. /\ treePc' = treePc /\ trees' = trees /\ files' = files /\ root' = root /\ path' = path
          /\ trail' = trail /\ at' = at /\ entry' = entry
      BY <2>6 DEF treeVars
    <3>2. (\A k : FileAt(k)' = FileAt(k)) /\ (\A t : Sound(t)' = Sound(t)) /\ (\A t : Whole(t)' = Whole(t))
          /\ (\A k : Under(k)' = Under(k)) /\ (\A k : PathFrom(k)' = PathFrom(k)) /\ Blocked' = Blocked
      BY <3>1 DEF FileAt, Sound, Whole, Under, PathFrom, Blocked, DirectoryAt
    <3>3. (\A k : Named(k)' = Named(k)) /\ (\A k : Through(k)' = Through(k))
      BY <3>1 DEF Named, Through
    <3>4. Store' = Store /\ Trail' = Trail /\ NoFile' = NoFile /\ Copying' = Copying
      <4>1. Store' = Store
        BY <3>1 DEF Store
      <4>2. Trail' = Trail
        BY <3>1, <3>2 DEF Trail
      <4>3. NoFile' = NoFile
        BY <3>1, <3>2 DEF NoFile
      <4>4. Copying' = Copying
        BY <3>1 DEF Copying, Blocked, DirectoryAt, Sound, Under, PathFrom
      <4> QED BY <4>1, <4>2, <4>3, <4>4
    <3>5. WhileOpening' = WhileOpening
      BY <3>1, <3>2, <3>3, <3>4 DEF WhileOpening
    <3>6. WhileWriting' = WhileWriting
      BY <3>1, <3>2, <3>3, <3>4 DEF WhileWriting
    <3> QED BY <3>1, <3>2, <3>4, <3>5, <3>6 DEF TreeInv
  <2> QED BY <2>1, <2>2, <2>3, <2>4, <2>5, <2>6 DEF TreeNext
<1> QED BY <1>1, <1>2, PTL DEF TreeSpec

LEMMA TreeInvGivesOneFile == TreeInv => OneFileChanges
<1> SUFFICES ASSUME TreeInv PROVE OneFileChanges
  OBVIOUS
<1>1. ASSUME treePc \in {"done", "failed"} PROVE treePc = "failed" <=> \E n \in 1 .. Len(path) - 1 : FileAt(n)
  BY <1>1 DEF TreeInv, NoFile
<1>2. ASSUME treePc = "done"
      PROVE  /\ Store /\ Copying /\ at = 0 /\ entry.hash \in DOMAIN trees
             /\ IF Blocked THEN \E t \in DOMAIN trees : ~Sound(t)
                ELSE (\A t \in DOMAIN trees : Sound(t)) /\ Changed(Under(at), files[entry.hash], PathFrom(at + 1))
  <2>1. Store /\ Copying /\ at = 0 /\ (Blocked \/ \A t \in DOMAIN trees : Sound(t))
    BY <1>2 DEF TreeInv
  <2>2. at # Len(path)
    BY <2>1, StoreFacts
  <2> QED BY <2>1, <2>2 DEF Copying
<1>3. ASSUME treePc = "done", ~DirectoryAt(Len(path))
      PROVE  /\ \A t \in DOMAIN trees : WellFormed(t, trees, files)
             /\ \E mode \in IF ModesAtPath = {} THEN {"file"} ELSE ModesAtPath :
                   files[entry.hash] = {f \in files[root] : f.path # path}
                                          \union {[path |-> path, mode |-> mode, blob |-> New]}
  <2>1. (\A t \in DOMAIN trees : Sound(t)) /\ Changed(Under(at), files[entry.hash], PathFrom(at + 1))
    BY <1>2, <1>3 DEF Blocked
  <2>2. path \in Seq(Names) /\ files[root] \in SUBSET FileEntries
    BY <1>2, <1>3, StoreFacts DEF Store
  <2>3. Under(0) = files[root]
    BY <2>2, UnderNone DEF Under
  <2>4. PathFrom(1) = path
    BY <1>2, <1>3, PathsFrom
  <2>5. Changed(files[root], files[entry.hash], path)
    BY <1>2, <1>3, <2>1, <2>3, <2>4
  <2>6. ModesOf(files[root], path) = ModesAtPath
    BY DEF ModesOf, ModesAtPath
  <2> QED BY <2>1, <2>5, <2>6 DEF Changed, Others, NewFile, Sound
<1>4. ASSUME treePc = "done", DirectoryAt(Len(path))
      PROVE  \E t \in DOMAIN trees : ~WellFormed(t, trees, files)
  BY <1>2, <1>4 DEF Blocked, Sound
<1> QED BY <1>1, <1>3, <1>4 DEF OneFileChanges

(* The tree of a proposal's commit differs from its base in the one file   *)
(* and is a tree git accepts, unless the path is a directory of the base.  *)
THEOREM OneFileOnly == TreeSpec => []OneFileChanges
BY TreeInvariant, TreeInvGivesOneFile, PTL
=============================================================================
