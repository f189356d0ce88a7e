------------------------------ MODULE MCRequests ------------------------------
(***************************************************************************)
(* What requests do, for TLC: the compiler while code drift is recomputed  *)
(* (BundleCompiler), how chunks are ranked and packed, feedback and gaps,  *)
(* link suggestions, and the counters.  None of them reads what another    *)
(* writes here, so a behaviour is one of a single part, chosen at first;   *)
(* the others stay as they begin.                                          *)
(***************************************************************************)
EXTENDS BundleCompiler, Ranking, Packer, Feedback, Suggestions, Counters, TLC

CONSTANTS d1, absent, q1, d2

VARIABLE part   \* the part that runs

Parts == {"compiler", "ranking", "packer", "feedback", "suggestions", "counters"}
allVars == <<vars, rankingVars, packerVars, feedbackVars, suggestVars, counterVars, part>>

MCInit ==
    /\ part \in Parts
    /\ Init /\ RankingInit /\ PackerInit /\ FeedbackInit /\ SuggestionsInit /\ CountersInit
    /\ part # "compiler" => drift = CHOOSE t \in DriftTables : TRUE

MCNext ==
    /\ UNCHANGED part
    /\ \/ part = "compiler" /\ Next
          /\ UNCHANGED <<rankingVars, packerVars, feedbackVars, suggestVars, counterVars>>
       \/ part = "ranking" /\ RankingNext
          /\ UNCHANGED <<vars, packerVars, feedbackVars, suggestVars, counterVars>>
       \/ part = "packer" /\ PackerNext
          /\ UNCHANGED <<vars, rankingVars, feedbackVars, suggestVars, counterVars>>
       \/ part = "feedback" /\ FeedbackNext
          /\ UNCHANGED <<vars, rankingVars, packerVars, suggestVars, counterVars>>
       \/ part = "suggestions" /\ SuggestionsNext
          /\ UNCHANGED <<vars, rankingVars, packerVars, feedbackVars, counterVars>>
       \/ part = "counters" /\ CountersNext
          /\ UNCHANGED <<vars, rankingVars, packerVars, feedbackVars, suggestVars>>

MCSpec == MCInit /\ [][MCNext]_allVars

-----------------------------------------------------------------------------
(* BundleCompiler: one document that is never edited. *)
NoEdits == d1 :> (0 :> "a0")
AllTexts == {"a0"}

(* Ranking: three chunks of two documents, all ways to match two lists and *)
(* three vectors, and what governs the paths.                              *)
ThreeChunks == 1 .. 3
TwoDocuments == <<1, 1, 2>>
TheirTokens == <<1, 2, 2>>
Orders == UNION {{s \in [1 .. n -> ThreeChunks] : IsInjective(s)} : n \in 0 .. 3}
Matches == {x \in Orders \X Orders : ToSet(x[1]) \subseteq ToSet(x[2])}
Vectors == {[i \in ThreeChunks |-> [id |-> <<3, 1, 2>>[i], score |-> v[i]]] :
              v \in [ThreeChunks -> {1, 2}]}
AllQueries ==
    {[mode |-> m, matchAll |-> x[1], matchAny |-> x[2], vectors |-> v, governing |-> g,
      topK |-> 2, budget |-> 4] :
       m \in {"hybrid", "unembedded", "bm25", "vector"}, x \in Matches, v \in Vectors,
       g \in {<<>>, <<2>>, <<2, 1>>}}

(* Packer: four chunks, of which the first and the third are alike, and    *)
(* rendered sizes below and above the estimates.                           *)
FiveRankings == {<<>>, <<1, 2, 3, 4>>, <<3, 1, 4, 2>>, <<4, 3, 2>>, <<2, 3, 1>>, <<4>>}
TheirScopes == <<2, 0, 1, 0>>
TheirEstimates == <<2, 3, 3, 6>>
ThreeRenderings == {<<2, 3, 2, 6>>, <<2, 8, 3, 5>>, <<3, 4, 3, 9>>}
OneThree == {<<1, 3>>, <<3, 1>>}
TheHeaders == [n \in 0 .. 4 |-> IF n < 2 THEN 2 ELSE 3]

(* Suggestions: two pairs and three contents of the index. *)
PairsUnlinked == "i0" :> {"p", "q"} @@ "i1" :> {"q"} @@ "i2" :> {"p", "q"}
PairsMentioned == "i0" :> {"p"} @@ "i1" :> {"p", "q"} @@ "i2" :> {"q"}

(* Counters: the second request is answered with another document. *)
AnsweredWith == [n \in 1 .. MaxRequests |-> IF n % 3 = 2 THEN d2 ELSE d1]
=============================================================================
