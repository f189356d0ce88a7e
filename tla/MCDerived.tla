------------------------------ MODULE MCDerived ------------------------------
(***************************************************************************)
(* What a sync run derives from repositories, for TLC: drift (CodeDrift),  *)
(* the walks through history it and document ages rest on, what refs       *)
(* govern, how documents become chunks, and the link graph.  A behaviour is*)
(* one of a single part, chosen at first; the others stay as they begin.   *)
(***************************************************************************)
EXTENDS CodeDrift, History, MCGlobs, MCChunker, LinkGraph

CONSTANTS d1, d2

VARIABLE part   \* the part that runs

allVars == <<vars, historyVars, globVars, chunkerVars, graphVars, part>>

MCInit ==
    /\ part \in {"drift", "history", "globs", "chunks", "links"}
    /\ Init /\ HistoryInit /\ GlobsInit /\ ChunkerInit /\ GraphInit

MCNext ==
    /\ UNCHANGED part
    /\ \/ part = "drift" /\ Next
          /\ UNCHANGED <<historyVars, globVars, chunkerVars, graphVars>>
       \/ part = "history" /\ HistoryNext
          /\ UNCHANGED <<vars, globVars, chunkerVars, graphVars>>
       \/ part = "globs" /\ GlobsNext
          /\ UNCHANGED <<vars, historyVars, chunkerVars, graphVars>>
       \/ part = "chunks" /\ ChunkerNext
          /\ UNCHANGED <<vars, historyVars, globVars, graphVars>>
       \/ part = "links" /\ GraphNext
          /\ UNCHANGED <<vars, historyVars, globVars, chunkerVars>>

MCSpec == MCInit /\ [][MCNext]_allVars

-----------------------------------------------------------------------------
(* CodeDrift: the first commit of a repository touches what d1 governs,    *)
(* the second what both documents do.                                      *)
Widening == [r \in Repos |-> [k \in 1 .. MaxCommits |-> IF k = 1 THEN {d1} ELSE Docs]]

(* History: four commits in a line, a merge, and a merge of a commit that  *)
(* is an ancestor, with every clock of three times.                        *)
Line    == <<{}, {1}, {2}, {3}>>
Diamond == <<{}, {1}, {1}, {2, 3}>>
Nested  == <<{}, {1}, {2}, {2, 3}>>
FourCommits ==
    {[parents |-> s, when |-> w, files |-> [c \in 1 .. 4 |-> [p |-> f[c], q |-> IF c >= 3 THEN 2 ELSE 1]]] :
       s \in {Line, Diamond, Nested}, w \in [1 .. 4 -> 1 .. 3], f \in [1 .. 4 -> 0 .. 1]}

(* LinkGraph: two documents; one target names either, the other d2 only.   *)
Either == [x \in Documents \X Targets |-> IF x[2] = "x" THEN <<d1, d2>> ELSE <<d2>>]
=============================================================================
