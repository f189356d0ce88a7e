------------------------------ MODULE Proposals ------------------------------
(***************************************************************************)
(* Proposed changes (internal/proposal/proposal.go) from the request of an *)
(* agent to the end of their pull request: a branch, a push, a pull        *)
(* request and a row, made one after the other, and the refresh of the     *)
(* rows at the end of every sync run, from a forge or from git alone.      *)
(*                                                                         *)
(* All proposals are for one document.  A branch head is what that         *)
(* document holds there and which proposals' commits are its ancestors.    *)
(* The followed branch is never force pushed here (GitCheckout has that).  *)
(***************************************************************************)
EXTENDS Naturals, FiniteSets

CONSTANTS
    Proposals,      \* ids of the calls of Create
    Base,           \* what the document holds at first
    Proposed,       \* Proposed[p], the new_content of p
    NoProposal,     \* no row in the table
    NoAnswer,       \* the forge was not asked, or said "open"
    MaxEdits,       \* bound: what people do at the remote
    MaxBreaks       \* bound: failed calls, crashes and restarts

Contents == {Base} \union {Proposed[p] : p \in Proposals}
Heads    == [text : Contents, has : SUBSET Proposals]
Statuses == {"open", "merged", "closed"}

ASSUME ProposalAssumption == /\ NoProposal \notin [status : Statuses, url : BOOLEAN]
                             /\ NoAnswer \notin [id : Proposals, status : Statuses]
                             /\ MaxEdits \in Nat /\ MaxBreaks \in Nat

VARIABLES
    step,       \* where the call of Create stands
    pr,         \* its pull request at the forge
    row,        \* its row: the status, and whether it has a pull request URL
    remote,     \* the followed branch at the remote
    head,       \* HEAD of the clone
    forge,      \* Service.Forge is configured
    waiting,    \* less than StatusSyncInterval since the last refresh
    syncPc,     \* next step of the sync run
    list,       \* the open proposals the refresh still has to look at
    asked,      \* one of them that has ended, and how
    reopened,   \* auxiliary: pull requests that were closed and opened again
    landed,     \* auxiliary: proposals whose change HEAD has held
    hit,        \* auxiliary: calls of Create a fault interfered with
    edits,      \* what people did so far
    breaks      \* faults so far

createVars == <<step, row, hit>>
syncVars   == <<head, waiting, syncPc, list, asked, landed>>
peopleVars == <<pr, remote, reopened, edits>>
proposalVars == <<createVars, syncVars, peopleVars, forge, breaks>>

(* Landed: the commit is an ancestor of HEAD, or HEAD holds its content.   *)
Landed(p, h) == p \in h.has \/ h.text = Proposed[p]

(* ListOpenProposals: open, and with a pull request URL.                   *)
ListOpenRows == {p \in Proposals : row[p] # NoProposal /\ row[p].status = "open"}
ListOpenProposals ==
    {p \in Proposals : row[p] # NoProposal /\ row[p].status = "open" /\ row[p].url}

ProposalsInit ==
    /\ step = [p \in Proposals |-> "new"]
    /\ pr = [p \in Proposals |-> "none"]
    /\ row = [p \in Proposals |-> NoProposal]
    /\ remote = [text |-> Base, has |-> {}]
    /\ head = remote
    /\ forge \in BOOLEAN
    /\ waiting = FALSE /\ syncPc = "idle" /\ list = {}
    /\ asked = NoAnswer
    /\ reopened = {}
    /\ landed = {p \in Proposals : Proposed[p] = Base}
    /\ hit = {} /\ edits = 0 /\ breaks = 0

-----------------------------------------------------------------------------
(* Create.  Once Propose stored the branch, its push, the pull request and *)
(* the row can each fail; only the failure of the row fails the call.      *)

To(p, s) == step' = [step EXCEPT ![p] = s]
Break    == breaks < MaxBreaks /\ breaks' = breaks + 1
Hit(ps)  == hit' = hit \union ps

CommitBranch(p) ==
    /\ step[p] = "new" /\ To(p, "committed")
    /\ UNCHANGED <<row, hit, syncVars, peopleVars, forge, breaks>>

Push(p) ==
    /\ step[p] = "committed" /\ To(p, "pushed")
    /\ UNCHANGED <<row, hit, syncVars, peopleVars, forge, breaks>>

PushFails(p) ==
    /\ Break /\ Hit({p})
    /\ step[p] = "committed" /\ To(p, "unpushed")
    /\ UNCHANGED <<row, syncVars, peopleVars, forge>>

OpenPullRequest(p) ==
    /\ step[p] = "pushed" /\ forge /\ To(p, "opened")
    /\ pr' = [pr EXCEPT ![p] = "open"]
    /\ UNCHANGED <<row, hit, syncVars, remote, reopened, edits, forge, breaks>>

(* The forge refuses, or opens the pull request and its answer is lost.    *)
PullRequestFails(p) ==
    /\ Break /\ Hit({p})
    /\ step[p] = "pushed" /\ forge /\ To(p, "unopened")
    /\ \E s \in {"none", "open"} : pr' = [pr EXCEPT ![p] = s]
    /\ UNCHANGED <<row, syncVars, remote, reopened, edits, forge>>

PutAsTheForgeSays(p) ==
    /\ step[p] \in {"unpushed", "opened", "unopened"} \/ (step[p] = "pushed" /\ ~forge)
    /\ To(p, "done")
    /\ row' = [row EXCEPT ![p] = [status |-> IF pr[p] \in Statuses THEN pr[p] ELSE "open",
                                 url |-> step[p] = "opened"]]
    /\ UNCHANGED <<hit, syncVars, peopleVars, forge, breaks>>
PutWithoutUrl(p) ==
    /\ step[p] \in {"unpushed", "opened", "unopened"} \/ (step[p] = "pushed" /\ ~forge)
    /\ To(p, "done")
    /\ row' = [row EXCEPT ![p] = [status |-> "open", url |-> FALSE]]
    /\ UNCHANGED <<hit, syncVars, peopleVars, forge, breaks>>
PutProposal(p) ==
    /\ step[p] \in {"unpushed", "opened", "unopened"} \/ (step[p] = "pushed" /\ ~forge)
    /\ To(p, "done")
    /\ row' = [row EXCEPT ![p] = [status |-> "open", url |-> step[p] = "opened"]]
    /\ UNCHANGED <<hit, syncVars, peopleVars, forge, breaks>>

(* The call fails, is cancelled, or the row cannot be written.             *)
CreateFails(p) ==
    /\ Break /\ Hit({p})
    /\ step[p] \notin {"new", "done", "failed"} /\ To(p, "failed")
    /\ UNCHANGED <<row, syncVars, peopleVars, forge>>

-----------------------------------------------------------------------------
(* The sync run, as far as proposals see it.  A row does not depend on the *)
(* others, so the list is a set; every error goes on with the next one.    *)

Sync ==
    /\ syncPc = "idle" /\ syncPc' = "list"
    /\ head' = remote
    /\ landed' = landed \union {p \in Proposals : Landed(p, remote)}
    /\ UNCHANGED <<createVars, peopleVars, forge, waiting, list, asked, breaks>>

SyncStatuses ==
    /\ syncPc = "list"
    /\ IF forge /\ waiting
         THEN syncPc' = "idle" /\ UNCHANGED <<list, waiting>>
         ELSE /\ syncPc' = "refresh"
              /\ list' = ListOpenProposals
              /\ waiting' = (waiting \/ forge)
    /\ UNCHANGED <<createVars, peopleVars, head, landed, asked, forge, breaks>>

(* One answer of the forge; rows of proposals that ended are updated next. *)
PullRequestStatus(p) ==
    /\ syncPc = "refresh" /\ forge /\ asked = NoAnswer /\ p \in list
    /\ list' = list \ {p}
    /\ asked' = IF pr[p] = "open" THEN NoAnswer ELSE [id |-> p, status |-> pr[p]]
    /\ UNCHANGED <<createVars, peopleVars, head, landed, syncPc, waiting, forge, breaks>>

(* UPDATE ... WHERE id = ? AND status = 'open'.                            *)
Updated(p, s) == IF row[p].status = "open" THEN [row EXCEPT ![p].status = s] ELSE row

UpdateProposalStatus ==
    /\ asked # NoAnswer /\ asked' = NoAnswer
    /\ row' = Updated(asked.id, asked.status)
    /\ UNCHANGED <<step, hit, peopleVars, head, landed, syncPc, waiting, list, forge, breaks>>

(* syncFromGit, one proposal: what is not on HEAD stays as it is.          *)
SettleAncestor(p) ==
    /\ syncPc = "refresh" /\ ~forge /\ p \in list
    /\ list' = list \ {p}
    /\ row' = IF p \in head.has THEN Updated(p, "merged") ELSE row
    /\ UNCHANGED <<step, hit, peopleVars, head, landed, syncPc, waiting, asked, forge, breaks>>
SettleLanded(p) ==
    /\ syncPc = "refresh" /\ ~forge /\ p \in list
    /\ list' = list \ {p}
    /\ row' = IF Landed(p, head) THEN Updated(p, "merged") ELSE row
    /\ UNCHANGED <<step, hit, peopleVars, head, landed, syncPc, waiting, asked, forge, breaks>>

(* A proposal is passed over: the forge, git or the update failed.         *)
LookupFails(p) ==
    /\ Break
    /\ syncPc = "refresh" /\ p \in list /\ asked = NoAnswer
    /\ list' = list \ {p}
    /\ UNCHANGED <<createVars, peopleVars, head, landed, syncPc, waiting, asked, forge>>

UpdateFails ==
    /\ Break
    /\ asked # NoAnswer /\ asked' = NoAnswer
    /\ UNCHANGED <<createVars, peopleVars, head, landed, syncPc, waiting, list, forge>>

(* The list is done, or its query failed.                                  *)
RefreshDone ==
    /\ syncPc = "refresh" /\ list = {} /\ asked = NoAnswer
    /\ syncPc' = "idle"
    /\ UNCHANGED <<createVars, peopleVars, head, landed, waiting, list, asked, forge, breaks>>
ListFails ==
    /\ Break
    /\ syncPc = "list" /\ syncPc' = "idle"
    /\ waiting' = (waiting \/ forge)
    /\ UNCHANGED <<createVars, peopleVars, head, landed, list, asked, forge>>

IntervalPasses ==
    /\ waiting /\ waiting' = FALSE
    /\ UNCHANGED <<createVars, peopleVars, head, landed, syncPc, list, asked, forge, breaks>>

(* The process ends and starts again, with or without a forge.             *)
Restart(f) ==
    /\ Break
    /\ forge' = f
    /\ LET cut == {p \in Proposals : step[p] \notin {"new", "done", "failed"}}
       IN  /\ step' = [p \in Proposals |-> IF p \in cut THEN "failed" ELSE step[p]]
           /\ Hit(cut)
    /\ syncPc' = "idle" /\ list' = {} /\ asked' = NoAnswer /\ waiting' = FALSE
    /\ UNCHANGED <<row, peopleVars, head, landed>>

-----------------------------------------------------------------------------
(* People at the remote.  A proposal that was pushed can be merged, as a   *)
(* merge commit or squashed; of a conflict either side's text may remain.  *)

Edit     == edits < MaxEdits /\ edits' = edits + 1
OnBranch(p) == step[p] \notin {"new", "committed", "unpushed"}
Rest     == <<createVars, syncVars, forge, breaks>>

Merge(p) ==
    /\ Edit
    /\ OnBranch(p) /\ p \notin remote.has /\ pr[p] \in {"none", "open"}
    /\ pr' = [pr EXCEPT ![p] = IF @ = "open" THEN "merged" ELSE @]
    /\ \E t \in {Proposed[p], remote.text}, by \in {{p}, {}} :
          remote' = [text |-> t, has |-> remote.has \union by]
    /\ UNCHANGED <<reopened, Rest>>

ClosePullRequest(p) ==
    /\ Edit
    /\ pr[p] = "open" /\ pr' = [pr EXCEPT ![p] = "closed"]
    /\ UNCHANGED <<remote, reopened, Rest>>

ReopenPullRequest(p) ==
    /\ Edit
    /\ pr[p] = "closed" /\ pr' = [pr EXCEPT ![p] = "open"]
    /\ reopened' = reopened \union {p}
    /\ UNCHANGED <<remote, Rest>>

EditDocument(t) ==
    /\ Edit
    /\ remote' = [remote EXCEPT !.text = t]
    /\ UNCHANGED <<pr, reopened, Rest>>

-----------------------------------------------------------------------------
CreateStep(p) == CommitBranch(p) \/ Push(p) \/ OpenPullRequest(p) \/ PutProposal(p)

RefreshStep ==
    \/ SyncStatuses \/ UpdateProposalStatus \/ RefreshDone
    \/ \E p \in Proposals : PullRequestStatus(p) \/ SettleLanded(p)

ProposalsNext ==
    \/ Sync
    \/ RefreshStep
    \/ IntervalPasses
    \/ ListFails
    \/ UpdateFails
    \/ \E f \in BOOLEAN : Restart(f)
    \/ \E p \in Proposals :
          \/ CreateStep(p) \/ PushFails(p) \/ PullRequestFails(p) \/ CreateFails(p)
          \/ LookupFails(p)
          \/ Merge(p) \/ ClosePullRequest(p) \/ ReopenPullRequest(p)
    \/ \E t \in Contents : EditDocument(t)

ProposalsSpec == ProposalsInit /\ [][ProposalsNext]_proposalVars

(* The ticker starts runs for as long as the process lives, the steps of a *)
(* run and of a call return, and ten minutes pass.                         *)
ProposalsFairness ==
    /\ WF_proposalVars(Sync) /\ WF_proposalVars(RefreshStep) /\ WF_proposalVars(IntervalPasses)
    /\ \A p \in Proposals : WF_proposalVars(step[p] # "new" /\ CreateStep(p))

ProposalsFairSpec == ProposalsSpec /\ ProposalsFairness

-----------------------------------------------------------------------------
(* Every variable keeps its range; only a proposal that is listed is asked *)
(* about, and a row with a URL has its pull request (proposal.go:92-99).   *)
ProposalsTypeOK ==
    /\ step \in [Proposals -> {"new", "committed", "pushed", "unpushed", "opened",
                               "unopened", "done", "failed"}]
    /\ pr \in [Proposals -> Statuses \union {"none"}]
    /\ row \in [Proposals -> {NoProposal} \union [status : Statuses, url : BOOLEAN]]
    /\ remote \in Heads /\ head \in Heads
    /\ forge \in BOOLEAN /\ waiting \in BOOLEAN
    /\ syncPc \in {"idle", "list", "refresh"}
    /\ list \subseteq {p \in Proposals : row[p] # NoProposal /\ row[p].url}
    /\ asked \in {NoAnswer} \union [id : Proposals, status : {"merged", "closed"}]
    /\ asked # NoAnswer => row[asked.id] # NoProposal /\ syncPc = "refresh"
    /\ \A p \in Proposals : row[p] # NoProposal => step[p] = "done" /\ (row[p].url => pr[p] # "none")
    /\ reopened \subseteq Proposals /\ landed \subseteq Proposals /\ hit \subseteq Proposals
    /\ edits \in 0 .. MaxEdits /\ breaks \in 0 .. MaxBreaks

(* The table as ProposalLifecycle sees it.                                 *)
Life == [p \in Proposals |-> IF row[p] = NoProposal THEN "unrecorded" ELSE row[p].status]
Fate == [p \in Proposals |-> {s \in {"merged", "closed"} :
            \/ pr[p] = s
            \/ s = "merged" /\ p \in landed
            \/ s = "closed" /\ p \in reopened}]
Lifecycle == INSTANCE ProposalLifecycle WITH life <- Life, fate <- Fate

(* A proposal is recorded once, settled at most once, and only as merged   *)
(* or closed when its pull request was, or as merged when HEAD held it,    *)
(* although the status is read before the row is written and pull requests *)
(* close, reopen and merge in between (proposal.go:132-144, 178-186).      *)
ImplementsLifecycle == Lifecycle!LifeSpec

Settled(p) == row[p] # NoProposal /\ row[p].status # "open"

(* With a forge, a pull request that ended and stays so is settled in the  *)
(* table, unless a fault hit the call that created it: no refresh that     *)
(* failed, was rate limited or saw it open is the last (proposal.go:112).  *)
PullRequestsAreSettled ==
    <>[]forge => \A p \in Proposals :
        <>[](pr[p] \in {"merged", "closed"}) => <>(Settled(p) \/ p \in hit)

(* Without a forge, a proposal that has a pull request URL and whose       *)
(* change stays on the followed branch is settled (proposal.go:167-189).   *)
LandedIsSettled ==
    <>[]~forge => \A p \in Proposals :
        <>[](row[p] # NoProposal /\ row[p].url /\ Landed(p, head)) => <>Settled(p)

(* "syncFromGit marks proposals merged once their change is on the         *)
(* followed branch, for sources without a forge" (proposal.go:162-163):    *)
(* a recorded proposal whose change stays on HEAD does not stay open.      *)
LandedWithoutForgeIsMerged ==
    [](~forge) => \A p \in Proposals :
        <>[](row[p] # NoProposal /\ Landed(p, head)) => <>Settled(p)
=============================================================================
