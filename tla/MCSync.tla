-------------------------------- MODULE MCSync -------------------------------
(***************************************************************************)
(* What sync runs and proposals do, for TLC: the index runs (IndexRun), the*)
(* checkout they read, which follows the remote (GitCheckout), proposals   *)
(* beside the run that settles them and people at the remote (Proposals),  *)
(* and the tree of a proposal's commit (GitTree).  A behaviour is one of a *)
(* single part, chosen at first; the others stay as they begin, the index  *)
(* at rest: IndexRun takes whatever checkout it is given, Proposals has a  *)
(* followed branch of its own, and a proposal's fate does not depend on    *)
(* what else its tree holds.                                               *)
(***************************************************************************)
EXTENDS MCIndexRun, MCGitCheckout, MCProposals, GitTree

CONSTANTS old1, new1

VARIABLE part   \* the part that runs

allVars == <<vars, checkoutVars, proposalVars, treeVars, part>>

(* What a run leaves of the first checkout.                                *)
AtRest ==
    /\ tree = [d \in Docs |-> 0]
    /\ rows = Snapshot(tree) /\ pub = rows /\ synced = tree /\ age = rows /\ old = {}
    /\ links = [d \in Docs |-> LinksTo[d][0]] /\ resolved = links
    /\ vec = rows /\ mem = vec
    /\ booted = TRUE /\ runPc = "idle"
    /\ todo = {} /\ force = FALSE /\ indexed = {} /\ deleted = FALSE /\ embedded = FALSE
    /\ faults = 0

MCInit ==
    /\ part \in {"index", "checkout", "life", "tree"}
    /\ IF part = "index" THEN Init ELSE AtRest
    /\ CheckoutInit /\ ProposalsInit /\ TreeInit
    /\ part # "checkout" => upstream = 1
    /\ part # "life" => forge

OfIndex(A)    == part = "index" /\ A /\ UNCHANGED <<checkoutVars, proposalVars, treeVars, part>>
OfCheckout(A) == part = "checkout" /\ A /\ UNCHANGED <<vars, proposalVars, treeVars, part>>
OfLife(A)     == part = "life" /\ A /\ UNCHANGED <<vars, checkoutVars, treeVars, part>>
OfTree(A)     == part = "tree" /\ A /\ UNCHANGED <<vars, checkoutVars, proposalVars, part>>

MCNext == OfIndex(Next) \/ OfCheckout(CheckoutNext) \/ OfLife(ProposalsNext) \/ OfTree(TreeNext)

(* Each part's own fairness, of the part that runs.                        *)
MCFairness ==
    \/ part = "index" /\ Fairness
    \/ part = "checkout" /\ CheckoutFairness
    \/ part = "life" /\ ProposalsFairness
    \/ part = "tree"

MCSpec == MCInit /\ [][MCNext]_allVars /\ MCFairness

-----------------------------------------------------------------------------
(* GitTree: all roots over a name and the same name with an extension,     *)
(* which sort differently as file and as directory; directory 2 may hold   *)
(* directory 1.                                                            *)
InByteOrder == [x \in Names \X BOOLEAN |->
    CASE x = <<"a", FALSE>>    -> 1     \* "a"
      [] x = <<"a.md", FALSE>> -> 2     \* "a.md"
      [] x = <<"a.md", TRUE>>  -> 3     \* "a.md/"
      [] x = <<"a", TRUE>>     -> 4]    \* "a/"
Either(n, dir) == {<<>>} \union {<<Entry(n, m, old1)>> : m \in {"file", "link"}}
                         \union {<<Entry(n, "dir", h)>> : h \in dir}
Level(dir1, dir2) ==
    {es \in UNION {{s \o t, t \o s} : s \in Either("a", dir1), t \in Either("a.md", dir2)} :
       Len(es) = 2 => Key(es[1]) < Key(es[2])}
Opens(es, h) == \E i \in DOMAIN es : es[i].hash = h
ThreeTrees ==
    {LET one == FilesOf(s, <<>>)
         two == FilesOf(t, <<one>>)
     IN  [trees |-> <<s, t, r>>, files |-> <<one, two, FilesOf(r, <<one, two>>)>>, root |-> 3] :
     s \in Level({}, {}), t \in Level({1}, {}), r \in Level({1}, {2})}
TheBases == {b \in ThreeTrees :
    /\ b.trees[1] # <<>> <=> \E t \in 2 .. 3 : Opens(b.trees[t], 1)
    /\ b.trees[2] # <<>> <=> Opens(b.trees[3], 2)}
ThePaths == {<<"a.md">>, <<"a", "a.md">>, <<"a.md", "a.md">>, <<"a", "a", "a.md">>,
             <<"a", "a.md", "a.md">>, <<"a.md", "a", "a.md">>}
=============================================================================
