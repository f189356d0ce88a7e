------------------------------ MODULE LinkGraph ------------------------------
(***************************************************************************)
(* The document link graph as a reader gets it (store.LinkGraph, three     *)
(* queries without a transaction) while index runs write documents and     *)
(* link rows, resolve the rows when they are done, and may stop anywhere,  *)
(* also between the two statements of DeleteDocument.                      *)
(***************************************************************************)
EXTENDS Naturals, FiniteSets, FiniteSetsExt, Sequences

CONSTANTS
    Documents,    \* document paths
    Targets,      \* link targets as written
    Candidates,   \* Candidates[d, t], the paths target t of d may name, best first
    NoDoc,        \* to_path = ''
    MaxIndexRuns, \* bound: index runs
    MaxCuts       \* bound: runs that stop half way

ASSUME LinkGraphAssumption ==
    /\ Candidates \in [Documents \X Targets -> Seq(Documents)] /\ NoDoc \notin Documents
    /\ MaxIndexRuns \in Nat /\ MaxCuts \in Nat

VARIABLES
    documents,    \* the documents table
    docLinks,     \* doc_links
    indexPc,      \* next step of the run
    upserted,     \* documents this run wrote
    removed,      \* this run deleted a document
    doomed,       \* the document whose link rows go next
    graph,        \* the reader: next query, results, and auxiliary what it saw first
    indexRuns,    \* runs so far
    cuts,         \* of these, how many stopped half way
    ghosts,       \* auxiliary: documents whose deletion was cut short
    loose         \* auxiliary: a run that wrote did not get to ResolveLinks

tableVars == <<documents, docLinks>>
runVars   == <<indexPc, upserted, removed, doomed, indexRuns, cuts, ghosts, loose>>
graphVars == <<tableVars, runVars, graph>>

NoGraph == [pc |-> "nodes", nodes |-> {}, links |-> {}, in |-> <<>>, edges |-> {}, broken |-> {},
            same |-> TRUE, resting |-> TRUE, ghosts |-> {}, loose |-> FALSE]

GraphInit ==
    /\ documents = {} /\ docLinks = {}
    /\ indexPc = "idle" /\ upserted = {} /\ removed = FALSE /\ doomed = NoDoc
    /\ graph = NoGraph
    /\ indexRuns = 0 /\ cuts = 0 /\ ghosts = {} /\ loose = FALSE

(* Resolver.Resolve: the first of the places a target may name.            *)
Resolve(d, t, ds) ==
    LET found == {i \in DOMAIN Candidates[d, t] : Candidates[d, t][i] \in ds}
    IN  IF found = {} THEN NoDoc ELSE Candidates[d, t][Min(found)]

-----------------------------------------------------------------------------
(* The index run: documents in the tree, then those that are not, then     *)
(* links, if anything was written (IndexRun has the rest).                 *)

BeginIndexing ==
    /\ indexPc = "idle" /\ indexPc' = "write"
    /\ indexRuns < MaxIndexRuns /\ indexRuns' = indexRuns + 1
    /\ upserted' = {} /\ removed' = FALSE
    /\ UNCHANGED <<tableVars, doomed, graph, cuts, ghosts, loose>>

(* UpsertDocument and replaceLinks, one transaction; a target counts once. *)
WriteDocument(d, targets) ==
    /\ indexPc = "write" /\ d \notin upserted
    /\ documents' = documents \union {d}
    /\ docLinks' = {r \in docLinks : r.from # d}
                     \union {[from |-> d, target |-> t, to |-> NoDoc] : t \in targets}
    /\ upserted' = upserted \union {d} /\ ghosts' = ghosts \ {d}
    /\ UNCHANGED <<indexPc, removed, doomed, graph, indexRuns, cuts, loose>>

RemoveRow(d) ==
    /\ indexPc \in {"write", "delete"} /\ d \in documents \ upserted
    /\ documents' = documents \ {d} /\ doomed' = d
    /\ indexPc' = "unlink"
    /\ UNCHANGED <<docLinks, upserted, removed, graph, indexRuns, cuts, ghosts, loose>>

RemoveLinks ==
    /\ indexPc = "unlink" /\ indexPc' = "delete"
    /\ docLinks' = {r \in docLinks : r.from # doomed}
    /\ removed' = TRUE /\ doomed' = NoDoc
    /\ UNCHANGED <<documents, upserted, graph, indexRuns, cuts, ghosts, loose>>

ResolveAfterUpserts ==
    /\ indexPc \in {"write", "delete"} /\ indexPc' = "idle"
    /\ docLinks' = IF upserted = {} THEN docLinks
                   ELSE {[r EXCEPT !.to = Resolve(r.from, r.target, documents)] : r \in docLinks}
    /\ loose' = (loose /\ upserted = {} /\ ~removed)
    /\ UNCHANGED <<documents, upserted, removed, doomed, graph, indexRuns, cuts, ghosts>>
ResolveAll ==
    /\ indexPc \in {"write", "delete"} /\ indexPc' = "idle"
    /\ docLinks' = IF upserted = {} /\ ~removed THEN docLinks
                   ELSE {[r EXCEPT !.to = Resolve(r.from, r.target, documents)] : r \in docLinks}
    /\ loose' = (loose /\ upserted = {} /\ ~removed)
    /\ UNCHANGED <<documents, upserted, removed, doomed, graph, indexRuns, cuts, ghosts>>

(* An error, a cancelled context or the end of the process.                *)
StopHalfWay ==
    /\ indexPc # "idle" /\ indexPc' = "idle"
    /\ cuts < MaxCuts /\ cuts' = cuts + 1
    /\ ghosts' = ghosts \union ({doomed} \ {NoDoc}) /\ doomed' = NoDoc
    /\ loose' = (loose \/ upserted # {} \/ removed \/ indexPc = "unlink")
    /\ UNCHANGED <<tableVars, upserted, removed, graph, indexRuns>>

-----------------------------------------------------------------------------
(* LinkGraph: nodes with their number of backlinks, edges, broken links.   *)

Seen == graph.nodes = documents /\ graph.links = docLinks

QueryNodes ==
    /\ graph.pc = "nodes"
    /\ graph' = [NoGraph EXCEPT
         !.pc = "edges", !.nodes = documents, !.links = docLinks,
         !.in = [d \in documents |->
                   Cardinality({r.from : r \in {r \in docLinks : r.to = d /\ r.from # d}})],
         !.resting = (indexPc = "idle"), !.ghosts = ghosts, !.loose = loose]
    /\ UNCHANGED <<tableVars, runVars>>

QueryEdges ==
    /\ graph.pc = "edges"
    /\ graph' = [graph EXCEPT
         !.pc = "broken", !.same = @ /\ Seen,
         !.edges = {<<r.from, r.to>> : r \in {r \in docLinks : r.to \notin {NoDoc, r.from}}}]
    /\ UNCHANGED <<tableVars, runVars>>

QueryBroken ==
    /\ graph.pc = "broken"
    /\ graph' = [graph EXCEPT
         !.pc = "done", !.same = @ /\ Seen,
         !.broken = {<<r.from, r.target>> : r \in {r \in docLinks : r.to = NoDoc}}]
    /\ UNCHANGED <<tableVars, runVars>>

Answered ==
    /\ graph.pc = "done" /\ graph' = NoGraph
    /\ UNCHANGED <<tableVars, runVars>>

GraphNext ==
    \/ BeginIndexing
    \/ \E d \in Documents : RemoveRow(d) \/ \E ts \in SUBSET Targets : WriteDocument(d, ts)
    \/ RemoveLinks \/ ResolveAll \/ StopHalfWay
    \/ QueryNodes \/ QueryEdges \/ QueryBroken \/ Answered

GraphSpec == GraphInit /\ [][GraphNext]_graphVars

-----------------------------------------------------------------------------
(* A graph that was read while no run wrote is the one its documents' links*)
(* give: edges between documents it has, backlinks counted alike, and a    *)
(* link broken only if it names none of them.  What interrupted runs leave:*)
(* rows of a document whose deletion was cut short, until it is written    *)
(* again, and, until a run changes something, links that were not resolved *)
(* (documents.go:101-108, links.go:187-256).                               *)
GraphIsExact ==
    graph.pc = "done" /\ graph.same /\ graph.resting =>
        LET target(r) == Resolve(r.from, r.target, graph.nodes)
        IN  /\ {r.from : r \in graph.links} \subseteq graph.nodes \union graph.ghosts
            /\ \A d \in graph.nodes : graph.in[d] = Cardinality({e \in graph.edges : e[2] = d})
            /\ ~graph.loose =>
                  /\ graph.edges = {<<r.from, target(r)>> : r \in
                                      {r \in graph.links : target(r) \notin {NoDoc, r.from}}}
                  /\ graph.broken = {<<r.from, r.target>> : r \in
                                       {r \in graph.links : target(r) = NoDoc}}
=============================================================================
