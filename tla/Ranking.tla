------------------------------- MODULE Ranking -------------------------------
(***************************************************************************)
(* How a search ranks chunks (internal/search Search, bm25Split, hybrid,   *)
(* governed, RRFWeighted and VectorIndex.Search): the matches of all terms *)
(* before those of any, fused with the nearest vectors, then with the      *)
(* sections of the documents that govern the paths being edited, and taken *)
(* in that order while the token budget lasts.                             *)
(*                                                                         *)
(* Chunks are numbers, ordered like their ids.  What SQLite and the        *)
(* embedder answer is part of a query: the matches of all and of any of its*)
(* terms, best first, and the similarity of each vector, in scan order.    *)
(***************************************************************************)
EXTENDS Integers, FiniteSets, Sequences, SequencesExt, Collections

CONSTANTS
    RankedChunks,   \* chunks
    DocOf,          \* DocOf[k], the document of chunk k, in document order
    Tokens,         \* Tokens[k]
    Queries,        \* records [mode, matchAll, matchAny, vectors, governing, topK, budget]
    FusionDepth,    \* fusionDepth, 50
    PerDoc, Total,  \* governedPerDoc, 3, and governedTotal, 6
    NoQuery

(* topK is at most max_top_k, by default 50.                               *)
ASSUME RankingAssumption ==
    /\ RankedChunks \subseteq Nat /\ IsFiniteSet(RankedChunks)
    /\ DocOf \in [RankedChunks -> Nat] /\ Tokens \in [RankedChunks -> Nat]
    /\ FusionDepth \in 1 .. 200 /\ PerDoc \in Nat /\ Total \in 0 .. 6
    /\ \A q \in Queries :
          /\ q.mode \in {"hybrid", "unembedded", "bm25", "vector"}
          /\ q.matchAll \in Seq(RankedChunks) /\ IsInjective(q.matchAll)
          /\ q.matchAny \in Seq(RankedChunks) /\ IsInjective(q.matchAny)
          /\ ToSet(q.matchAll) \subseteq ToSet(q.matchAny)
          /\ q.vectors \in Seq([id : RankedChunks, score : Int])
          /\ \A i, j \in DOMAIN q.vectors : q.vectors[i].id = q.vectors[j].id => i = j
          /\ q.governing \in Seq(Nat) /\ q.topK \in 1 .. 150 /\ q.budget \in Nat

VARIABLES
    query,        \* the query, NoQuery before there is one
    near,         \* the heap of VectorIndex.Search
    seen,         \* how many vectors, then how many hits, were looked at
    found,        \* the hits before governed
    hits,         \* the hits after it
    taken,        \* Result.Chunks
    totalTokens,  \* Result.TotalTokens
    omitted,      \* Result.Omitted
    searchPc      \* next step

resultVars  == <<taken, totalTokens, omitted>>
rankingVars == <<query, near, seen, found, hits, resultVars, searchPc>>

RankingInit ==
    /\ query = NoQuery /\ near = {} /\ seen = 0 /\ found = <<>> /\ hits = <<>>
    /\ taken = <<>> /\ totalTokens = 0 /\ omitted = 0 /\ searchPc = "idle"

-----------------------------------------------------------------------------
Position(s, k) == CHOOSE i \in DOMAIN s : s[i] = k
Limit(s, n)    == SubSeq(s, 1, IF Len(s) < n THEN Len(s) ELSE n)

(* RRFWeighted: weight / (60 + offset + rank), summed over up to three     *)
(* lists; ties go to the smaller id.  Weights are quarters, scores 10^-7.  *)
RRFK  == 60
Scale == 10000000
Ranked(ids, weight, offset) == [ids |-> ids, weight |-> weight * Scale, offset |-> offset]
NoRanked == Ranked(<<>>, 0, 0)

ScoreIn(l, k) ==
    IF Contains(l.ids, k) THEN l.weight \div (RRFK + l.offset + Position(l.ids, k)) ELSE 0
Score(lists, k) == ScoreIn(lists[1], k) + ScoreIn(lists[2], k) + ScoreIn(lists[3], k)
RRFWeighted(lists) ==
    LET ids == ToSet(lists[1].ids) \union ToSet(lists[2].ids) \union ToSet(lists[3].ids)
    IN  SortBy(ids, {x \in ids \X ids :
                        \/ Score(lists, x[1]) > Score(lists, x[2])
                        \/ Score(lists, x[1]) = Score(lists, x[2]) /\ x[1] < x[2]})

(* bm25Split: the matches of all terms, then those of any, up to n of both.*)
AllTerms(q, n) == Limit(q.matchAll, n)
AnyTerm(q, n) ==
    LET any  == Limit(q.matchAny, n)
        more == ToSet(any) \ ToSet(AllTerms(q, n))
    IN  Limit(SortBy(more, {x \in more \X more : Position(any, x[1]) < Position(any, x[2])}),
              n - Len(AllTerms(q, n)))
BM25Split(q, n) == AllTerms(q, n) \o AnyTerm(q, n)

(* VectorIndex.Search, at most so many: a heap of the best so far.  A later*)
(* chunk replaces the worst only if it is more similar; equals come out by *)
(* id.                                                                     *)
Depth == IF query.mode = "hybrid" THEN FusionDepth ELSE 3 * query.topK
Worst(hs) == CHOOSE h \in hs : \A g \in hs : \/ h.score < g.score
                                             \/ h.score = g.score /\ h.id >= g.id
Embedded  == query.mode \in {"hybrid", "vector"}
VectorSearch ==
    /\ searchPc = "rank" /\ Embedded /\ seen < Len(query.vectors)
    /\ seen' = seen + 1
    /\ LET h == query.vectors[seen']
       IN  near' = IF Cardinality(near) < Depth THEN near \union {h}
                   ELSE IF h.score > Worst(near).score THEN (near \ {Worst(near)}) \union {h}
                   ELSE near
    /\ UNCHANGED <<query, found, hits, resultVars, searchPc>>

Nearest ==
    LET s == SortBy(near, {x \in near \X near :
                              \/ x[1].score > x[2].score
                              \/ x[1].score = x[2].score /\ x[1].id < x[2].id})
    IN  [i \in DOMAIN s |-> s[i].id]

HybridNearestLast ==
    RRFWeighted(<<Ranked(AllTerms(query, FusionDepth), 4, 0),
                  Ranked(AnyTerm(query, FusionDepth), 1, Len(AllTerms(query, FusionDepth))),
                  Ranked(Reverse(Nearest), 4, 0)>>)
Hybrid ==
    RRFWeighted(<<Ranked(AllTerms(query, FusionDepth), 4, 0),
                  Ranked(AnyTerm(query, FusionDepth), 1, Len(AllTerms(query, FusionDepth))),
                  Ranked(Nearest, 4, 0)>>)

Query(q) ==
    /\ searchPc = "idle" /\ searchPc' = "rank" /\ query' = q
    /\ UNCHANGED <<near, seen, found, hits, resultVars>>

(* "unembedded" is a hybrid search whose query could not be embedded.      *)
Search ==
    /\ searchPc = "rank" /\ (Embedded => seen = Len(query.vectors))
    /\ searchPc' = "govern" /\ seen' = 0
    /\ found' = CASE query.mode = "hybrid"     -> Hybrid
                  [] query.mode = "unembedded" -> BM25Split(query, FusionDepth)
                  [] query.mode = "bm25"       -> BM25Split(query, 3 * query.topK)
                  [] query.mode = "vector"     -> Nearest
    /\ UNCHANGED <<query, near, hits, resultVars>>

-----------------------------------------------------------------------------
(* governed: of each governing document the sections that were found, in   *)
(* that order, then the others; the first PerDoc of each, Total of all.    *)
Sooner(hs, j, k) ==
    IF Contains(hs, j) /\ Contains(hs, k) THEN Position(hs, j) < Position(hs, k)
    ELSE Contains(hs, j) \/ (~Contains(hs, k) /\ j < k)
Governing(docs, hs) ==
    LET place(k)  == Position(docs, DocOf[k])
        sooner(k) == {j \in RankedChunks : DocOf[j] = DocOf[k] /\ Sooner(hs, j, k)}
        first == {k \in RankedChunks : Contains(docs, DocOf[k]) /\ Cardinality(sooner(k)) < PerDoc}
    IN  Limit(SortBy(first, {x \in first \X first :
                                \/ place(x[1]) < place(x[2])
                                \/ place(x[1]) = place(x[2]) /\ Sooner(hs, x[1], x[2])}), Total)

GovernedUnweighted ==
    /\ searchPc = "govern" /\ searchPc' = "take"
    /\ hits' = IF query.governing = <<>> THEN found
               ELSE RRFWeighted(<<Ranked(found, 4, 0),
                                  Ranked(Governing(query.governing, found), 4, 0), NoRanked>>)
    /\ UNCHANGED <<query, near, seen, found, resultVars>>
Governed ==
    /\ searchPc = "govern" /\ searchPc' = "take"
    /\ hits' = IF query.governing = <<>> THEN found
               ELSE RRFWeighted(<<Ranked(found, 4, 0),
                                  Ranked(Governing(query.governing, found), 6, 0), NoRanked>>)
    /\ UNCHANGED <<query, near, seen, found, resultVars>>

(* The loop of Search over hits: skip what does not fit, stop at topK.     *)
Take ==
    /\ searchPc = "take" /\ seen < Len(hits) /\ Len(taken) < query.topK
    /\ seen' = seen + 1
    /\ LET k == hits[seen']
       IN  IF totalTokens + Tokens[k] > query.budget
             THEN omitted' = omitted + 1 /\ UNCHANGED <<taken, totalTokens>>
             ELSE /\ taken' = Append(taken, k) /\ totalTokens' = totalTokens + Tokens[k]
                  /\ UNCHANGED omitted
    /\ UNCHANGED <<query, near, found, hits, searchPc>>
TakenAll ==
    /\ searchPc = "take" /\ (seen = Len(hits) \/ Len(taken) = query.topK)
    /\ searchPc' = "done"
    /\ UNCHANGED <<query, near, seen, found, hits, resultVars>>

RankingNext ==
    \/ searchPc = "idle" /\ \E q \in Queries : Query(q)
    \/ VectorSearch \/ Search \/ Governed \/ Take \/ TakenAll

RankingSpec == RankingInit /\ [][RankingNext]_rankingVars

-----------------------------------------------------------------------------
Before(s, j, k) == \E a, b \in DOMAIN s : a < b /\ s[a] = j /\ s[b] = k

(* j matches the terms at least as well as k.                              *)
Lexically(q, j, k) ==
    \/ ~Contains(q.matchAny, k)
    \/ Contains(q.matchAll, j) /\ ~Contains(q.matchAll, k)
    \/ Before(q.matchAll, j, k)
    \/ ~Contains(q.matchAll, k) /\ Before(q.matchAny, j, k)
Nearer(q, j, k) == \E g, h \in ToSet(q.vectors) : g.id = j /\ h.id = k /\ g.score > h.score

(* Fusion never puts a chunk behind one that matches the terms no better   *)
(* and is farther from the query, although a match of all terms, one of    *)
(* some and a vector are weighted differently, ranks of the second list go *)
(* on from the first, and both retrievers stop at fusionDepth              *)
(* (search.go:303-352, rrf.go:38-56).                                      *)
FusionRespectsBoth ==
    searchPc = "govern" /\ query.mode = "hybrid" =>
        \A j, k \in ToSet(found) :
            j # k /\ Lexically(query, j, k) /\ Nearer(query, j, k) => Before(found, j, k)

(* "When a path is claimed, its rules lead even when the wording of the    *)
(* task did not retrieve them; a section both lists agree on scores highest*)
(* of all" (search.go:430-434), in what the agent gets: the governing      *)
(* sections come first, those that were found first among them, and one is *)
(* left out only for the sake of others.                                   *)
RulesLead ==
    searchPc = "done" =>
        LET rules == ToSet(Governing(query.governing, found))
            got   == ToSet(taken)
        IN  /\ \A j \in got \intersect rules, k \in got \ rules : Before(taken, j, k)
            /\ \A j \in got \intersect rules, k \in got \intersect rules :
                  Contains(found, j) /\ ~Contains(found, k) => Before(taken, j, k)
            /\ \A k \in rules \ got :
                  \/ Len(taken) = query.topK
                  \/ SumOver(Tokens, got \intersect rules) + Tokens[k] > query.budget
=============================================================================
