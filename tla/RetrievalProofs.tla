---------------------------- MODULE RetrievalProofs ---------------------------
(***************************************************************************)
(* Retrieval.  How the ranked chunks of a search become the sections of a  *)
(* bundle, for any search results, sizes, budgets and similarities; and    *)
(* how a search ranks them, for any matches, vectors and governing rules.  *)
(***************************************************************************)
EXTENDS Packer, Ranking, CollectionsProofs, FunctionTheorems, FiniteSetTheorems, TLAPS

-----------------------------------------------------------------------------
(* The packer.  Kept is what it has selected; a chunk is left out because a*)
(* better one is like it, because the better ones that are kept leave no   *)
(* room for it, or because it was dropped after all worse ones.            *)
Kept == ToSet(selected)
Estimated(s) == HeaderCost + SumOver(Estimate, s)
LikeBetter(c) == \E d \in ToSet(ranked) : Rank(d) < Rank(c) /\ <<c, d>> \in Alike
Crowded(c)    == Estimate[c] + Estimated(Better(c, Kept)) > budget
Left(c)       == LikeBetter(c) \/ Crowded(c) \/ \A d \in Kept : Rank(d) < Rank(c)

PackerTyped ==
    /\ packPc \in {"idle", "pack", "fit", "done"}
    /\ ranked \in Seq(PackedChunks) /\ IsInjective(ranked) /\ budget \in Nat /\ cutTo \in Nat
    /\ considered \in 0 .. Len(ranked)
    /\ selected \in Seq(PackedChunks) /\ IsInjective(selected) /\ Kept \subseteq ToSet(ranked)
    /\ packPc = "idle" => selected = <<>> /\ considered = 0 /\ cutTo = 0
    /\ packPc # "idle" => rendered \in [PackedChunks -> Nat] /\ 0 .. Len(ranked) \subseteq DOMAIN Header

InRankOrder == \A i, j \in DOMAIN selected : i < j => Rank(selected[i]) < Rank(selected[j])
NoneAlike   == \A c, d \in Kept : <<c, d>> \notin Alike \/ c = d

(* While chunks are considered, those seen were taken or left for a reason *)
(* that is still visible in what was taken.                                *)
WhilePacking ==
    /\ cutTo = 0 /\ used = Estimated(Kept) /\ (Kept # {} => used <= budget)
    /\ \A c \in Kept : Rank(c) <= considered
    /\ \A c \in ToSet(ranked) \ Kept : Rank(c) <= considered =>
          \/ \E d \in Kept : Rank(d) < Rank(c) /\ <<c, d>> \in Alike
          \/ Crowded(c)

(* When nothing is rendered larger than estimated, nothing is dropped.     *)
Honest ==
    /\ \A c \in PackedChunks : rendered[c] <= Estimate[c]
    /\ \A n \in DOMAIN Header : Header[n] <= HeaderCost
    /\ cutTo <= SectionOverhead + Room + Marker
NothingLost ==
    /\ selected # <<>> => Count(selected) <= budget
    /\ selected = <<>> => /\ \A c \in ToSet(ranked) : HeaderCost + Estimate[c] > budget
                          /\ ranked # <<>> => Room < MinTruncated

WhileFitting ==
    /\ \A c \in ToSet(ranked) \ Kept : Left(c)
    /\ Honest => NothingLost

PackerInv ==
    /\ PackerTyped /\ NoneAlike
    /\ packPc # "done" => InRankOrder
    /\ packPc = "pack" => WhilePacking
    /\ packPc \in {"fit", "done"} => WhileFitting
    /\ packPc = "done" => selected = <<>> \/ Count(selected) <= budget

LEMMA SeqSet ==
    ASSUME NEW X, NEW s \in Seq(X)
    PROVE  /\ IsFiniteSet(ToSet(s)) /\ ToSet(s) \subseteq X
           /\ IsInjective(s) => Cardinality(ToSet(s)) = Len(s)
<1>1. Len(s) \in Nat /\ s \in [1 .. Len(s) -> X] /\ ToSet(s) = {s[i] : i \in 1 .. Len(s)}
  BY DEF ToSet
<1>2. s \in Surjection(1 .. Len(s), ToSet(s))
  BY <1>1 DEF Surjection
<1>3. IsFiniteSet(1 .. Len(s)) /\ Cardinality(1 .. Len(s)) = Len(s)
  <2>1. /\ IsFiniteSet(1 .. Len(s))
        /\ Cardinality(1 .. Len(s)) = IF 1 > Len(s) THEN 0 ELSE Len(s) - 1 + 1
    BY <1>1, FS_Interval
  <2> QED BY <1>1, <2>1
<1>4. /\ IsFiniteSet(ToSet(s))
      /\ Cardinality(ToSet(s)) = Cardinality(1 .. Len(s)) <=> s \in Injection(1 .. Len(s), ToSet(s))
  BY ONLY <1>2, <1>3, FS_Surjection
<1>5. IsInjective(s) => s \in Injection(1 .. Len(s), ToSet(s))
  BY <1>1 DEF Injection
<1> QED BY <1>1, <1>3, <1>4, <1>5

LEMMA RankOf ==
    ASSUME PackerTyped
    PROVE  /\ \A c \in ToSet(ranked) : Rank(c) \in 1 .. Len(ranked) /\ ranked[Rank(c)] = c
           /\ \A i \in 1 .. Len(ranked) : Rank(ranked[i]) = i /\ ranked[i] \in ToSet(ranked)
<1>1. Len(ranked) \in Nat /\ DOMAIN ranked = 1 .. Len(ranked)
  BY DEF PackerTyped
<1>2. ASSUME NEW c \in ToSet(ranked) PROVE Rank(c) \in 1 .. Len(ranked) /\ ranked[Rank(c)] = c
  <2>1. \E i \in DOMAIN ranked : ranked[i] = c
    BY DEF ToSet
  <2> QED BY <1>1, <2>1 DEF Rank
<1>3. ASSUME NEW i \in 1 .. Len(ranked) PROVE Rank(ranked[i]) = i /\ ranked[i] \in ToSet(ranked)
  <2>1. ranked[i] \in ToSet(ranked)
    BY <1>1 DEF ToSet
  <2>2. Rank(ranked[i]) \in DOMAIN ranked /\ ranked[Rank(ranked[i])] = ranked[i]
    BY <1>1, <1>2, <2>1
  <2> QED BY <1>1, <2>1, <2>2 DEF PackerTyped, IsInjective
<1> QED BY <1>2, <1>3

LEMMA OrderKeeps ==
    ASSUME PackerTyped
    PROVE  /\ Order(selected) \in Seq(PackedChunks) /\ IsInjective(Order(selected))
           /\ ToSet(Order(selected)) = Kept /\ Len(Order(selected)) = Len(selected)
<1> DEFINE R == {x \in Kept \X Kept :
                    \/ ScopeRank[x[1]] < ScopeRank[x[2]]
                    \/ ScopeRank[x[1]] = ScopeRank[x[2]] /\ Rank(x[1]) < Rank(x[2])}
           s == SortBy(Kept, R)
<1>1. IsFiniteSet(Kept) /\ Kept \subseteq PackedChunks /\ Cardinality(Kept) = Len(selected)
  BY SeqSet DEF Kept, PackerTyped
<1>2. \A c \in Kept : ScopeRank[c] \in 0 .. 2 /\ Rank(c) \in Nat /\ ranked[Rank(c)] = c
  <2> SUFFICES ASSUME NEW c \in Kept
               PROVE  ScopeRank[c] \in 0 .. 2 /\ Rank(c) \in Nat /\ ranked[Rank(c)] = c
    OBVIOUS
  <2>1. ScopeRank[c] \in 0 .. 2
    BY <1>1, PackerAssumption
  <2>2. c \in ToSet(ranked) /\ Len(ranked) \in Nat
    BY DEF PackerTyped
  <2>3. Rank(c) \in 1 .. Len(ranked) /\ ranked[Rank(c)] = c
    BY <2>2, RankOf
  <2> QED BY <2>1, <2>2, <2>3
<1>3. \A c, d \in Kept : <<c, d>> \in R <=>
          (ScopeRank[c] < ScopeRank[d] \/ (ScopeRank[c] = ScopeRank[d] /\ Rank(c) < Rank(d)))
  OBVIOUS
<1>4. Order(selected) = s
  BY DEF Order, Kept
<1> HIDE DEF R
<1>5. StrictOrder(Kept, R)
  <2>1. \A c \in Kept : <<c, c>> \notin R
    BY <1>2, <1>3
  <2>2. \A c, d, e \in Kept : <<c, d>> \in R /\ <<d, e>> \in R => <<c, e>> \in R
    BY <1>2, <1>3
  <2>3. ASSUME NEW c \in Kept, NEW d \in Kept PROVE c = d \/ <<c, d>> \in R \/ <<d, c>> \in R
    <3>1. ScopeRank[c] \in 0 .. 2 /\ ScopeRank[d] \in 0 .. 2 /\ Rank(c) \in Nat /\ Rank(d) \in Nat
      BY <1>2
    <3>2. Rank(c) = Rank(d) => c = d
      BY <1>2
    <3>3. /\ ScopeRank[c] < ScopeRank[d] => <<c, d>> \in R
          /\ ScopeRank[c] = ScopeRank[d] /\ Rank(c) < Rank(d) => <<c, d>> \in R
          /\ ScopeRank[d] < ScopeRank[c] => <<d, c>> \in R
          /\ ScopeRank[d] = ScopeRank[c] /\ Rank(d) < Rank(c) => <<d, c>> \in R
      BY <1>3
    <3> QED BY ONLY <3>1, <3>2, <3>3
  <2> QED BY <2>1, <2>2, <2>3 DEF StrictOrder
<1>6. /\ s \in [1 .. Len(selected) -> Kept] /\ Len(selected) \in Nat
      /\ \A x \in Kept : \E n \in 1 .. Len(selected) : s[n] = x
      /\ \A m, n \in 1 .. Len(selected) : m < n <=> <<s[m], s[n]>> \in R
  BY <1>1, <1>5, Sorted
<1> HIDE DEF s
<1>7. s \in Seq(PackedChunks) /\ Len(s) = Len(selected) /\ DOMAIN s = 1 .. Len(selected)
  BY <1>1, <1>6
<1>8. ToSet(s) = Kept
  BY <1>6, <1>7 DEF ToSet
<1>9. IsInjective(s)
  <2> SUFFICES ASSUME NEW m \in 1 .. Len(selected), NEW n \in 1 .. Len(selected), s[m] = s[n] PROVE m = n
    BY <1>7 DEF IsInjective
  <2>1. <<s[m], s[n]>> \notin R /\ <<s[n], s[m]>> \notin R
    BY <1>5, <1>6 DEF StrictOrder
  <2>2. ~(m < n) /\ ~(n < m)
    BY <1>6, <2>1
  <2> QED BY <1>6, <2>2
<1> QED BY <1>4, <1>7, <1>8, <1>9
-----------------------------------------------------------------------------
(* The steps of the packer.                                                *)
LEMMA EstimatedFacts ==
    ASSUME NEW S \in SUBSET PackedChunks, IsFiniteSet(S)
    PROVE  /\ Estimated(S) \in Nat
           /\ \A c \in PackedChunks \ S : Estimated(S \union {c}) = Estimated(S) + Estimate[c]
<1>1. \A x \in PackedChunks : Estimate[x] \in Nat
  BY PackerAssumption
<1>2. SumOver(Estimate, S) \in Nat
  BY <1>1, SumFinite
<1>3. ASSUME NEW c \in PackedChunks \ S
      PROVE  SumOver(Estimate, S \union {c}) = SumOver(Estimate, S) + Estimate[c]
  BY <1>1, SumOneMore
<1> QED BY <1>1, <1>2, <1>3, PackerAssumption DEF Estimated

LEMMA PackerStart == PackerInit => PackerInv
<1> SUFFICES ASSUME PackerInit PROVE PackerInv
  OBVIOUS
<1>1. Kept = {}
  BY DEF PackerInit, Kept, ToSet
<1>2. PackerTyped
  <2>1. IsInjective(<<>>)
    BY DEF IsInjective
  <2> QED BY <1>1, <2>1 DEF PackerInit, PackerTyped
<1> QED BY <1>1, <1>2 DEF PackerInit, PackerInv, NoneAlike, InRankOrder

LEMMA PackStep ==
    ASSUME PackerInv, NEW r \in Rankings, NEW b \in Budgets, NEW sizes \in Renderings, PackChunks(r, b, sizes)
    PROVE  PackerInv'
<1>1. /\ selected = <<>> /\ selected' = <<>> /\ considered' = 0 /\ cutTo' = 0 /\ packPc' = "pack"
      /\ ranked' = r /\ budget' = b /\ rendered' = sizes /\ used' = HeaderCost
  BY DEF PackChunks, PackerInv, PackerTyped
<1>2. Kept' = {}
  BY <1>1 DEF Kept, ToSet
<1>3. /\ r \in Seq(PackedChunks) /\ IsInjective(r) /\ 0 .. Len(r) \subseteq DOMAIN Header
      /\ sizes \in [PackedChunks -> Nat] /\ b \in Nat
  BY PackerAssumption
<1>4. PackerTyped'
  <2>1. IsInjective(<<>>) /\ <<>> \in Seq(PackedChunks)
    BY DEF IsInjective
  <2>2. considered' \in 0 .. Len(r)
    BY <1>1, <1>3
  <2> QED BY <1>1, <1>2, <1>3, <2>1, <2>2 DEF PackerTyped
<1>5. WhilePacking'
  <2>1. SumOver(Estimate, {}) = 0
    BY SumNothing
  <2>2. Estimated(Kept)' = HeaderCost + 0
    BY <1>2, <2>1 DEF Estimated
  <2>3. \A c \in ToSet(ranked') : Rank(c)' \in 1 .. Len(ranked')
    <3> SUFFICES ASSUME NEW c \in ToSet(ranked') PROVE Rank(c)' \in 1 .. Len(ranked')
      OBVIOUS
    <3>1. \E i \in DOMAIN ranked' : ranked'[i] = c
      BY DEF ToSet
    <3>2. DOMAIN ranked' = 1 .. Len(ranked')
      BY <1>1, <1>3
    <3> QED BY <3>1, <3>2 DEF Rank
  <2>4. \A c \in ToSet(ranked') : ~(Rank(c)' <= considered')
    BY <1>1, <1>3, <2>3
  <2> QED BY <1>1, <1>2, <2>2, <2>4, PackerAssumption DEF WhilePacking
<1> QED BY <1>1, <1>2, <1>4, <1>5 DEF PackerInv, NoneAlike, InRankOrder

(* What a step that keeps the ranking keeps of the ranks.                  *)
LEMMA SameRanks ==
    ASSUME ranked' = ranked
    PROVE  /\ \A c : Rank(c)' = Rank(c)
           /\ \A c : Better(c, Kept)' = {d \in Kept' : Rank(d) < Rank(c)}
           /\ \A c : LikeBetter(c)' <=> LikeBetter(c)
<1>1. \A c : Rank(c)' = Rank(c)
  BY DEF Rank
<1> QED BY <1>1 DEF Better, LikeBetter

LEMMA ConsiderStep == ASSUME PackerInv, Consider PROVE PackerInv'
<1> DEFINE c == ranked[considered + 1]
<1>1. /\ PackerTyped /\ WhilePacking /\ InRankOrder /\ NoneAlike
      /\ packPc = "pack" /\ packPc' = "pack"
      /\ ranked' = ranked /\ budget' = budget /\ rendered' = rendered /\ cutTo' = cutTo /\ cutTo = 0
      /\ considered < Len(ranked) /\ considered' = considered + 1
  BY DEF Consider, PackerInv, WhilePacking
<1>2. /\ Len(ranked) \in Nat /\ considered \in Nat /\ considered + 1 \in 1 .. Len(ranked)
      /\ budget \in Nat /\ HeaderCost \in Nat
  <2>1. ranked \in Seq(PackedChunks) /\ budget \in Nat /\ considered \in 0 .. Len(ranked)
    BY <1>1 DEF PackerTyped
  <2>2. HeaderCost \in Nat
    BY PackerAssumption
  <2>3. Len(ranked) \in Nat
    BY <2>1
  <2> QED BY <1>1, <2>1, <2>2, <2>3
<1>3. /\ c \in ToSet(ranked) /\ c \in PackedChunks /\ Rank(c) = considered + 1
      /\ Estimate[c] \in Nat
  <2>1. c \in PackedChunks
    BY <1>1, <1>2 DEF PackerTyped
  <2>2. Rank(c) = considered + 1 /\ c \in ToSet(ranked)
    BY <1>1, <1>2, RankOf, Zenon
  <2>3. Estimate[c] \in Nat
    BY <2>1, PackerAssumption
  <2> QED BY <2>1, <2>2, <2>3
<1>4. /\ IsFiniteSet(Kept) /\ Kept \subseteq PackedChunks /\ Kept \subseteq ToSet(ranked)
      /\ \A d \in Kept : Rank(d) \in Nat /\ Rank(d) <= considered
  <2>1. IsFiniteSet(Kept) /\ Kept \subseteq PackedChunks /\ Kept \subseteq ToSet(ranked)
    BY <1>1, SeqSet DEF Kept, PackerTyped
  <2> QED BY <1>1, <2>1, RankOf DEF WhilePacking
<1>5. c \notin Kept
  BY <1>2, <1>3, <1>4
<1>6. \A d \in ToSet(ranked) : Rank(d) <= considered' => d = c \/ Rank(d) <= considered
  <2> SUFFICES ASSUME NEW d \in ToSet(ranked), Rank(d) <= considered + 1, ~(Rank(d) <= considered)
               PROVE  d = c
    BY <1>1
  <2>1. Rank(d) \in 1 .. Len(ranked) /\ ranked[Rank(d)] = d
    BY <1>1, RankOf
  <2>2. Rank(d) = considered + 1
    BY <1>2, <2>1
  <2> QED BY <2>1, <2>2
<1>7. \A d : Rank(d)' = Rank(d)
  BY <1>1, SameRanks
<1>8. Estimated(Kept) \in Nat /\ Estimated(Kept \union {c}) = Estimated(Kept) + Estimate[c]
  BY <1>3, <1>4, <1>5, EstimatedFacts
<1>9. CASE UNCHANGED <<selected, used>> /\ (IsDuplicate(c) \/ used + Estimate[c] > budget)
  <2>1. Kept' = Kept /\ selected' = selected /\ used' = used
    BY <1>9 DEF Kept
  <2>2. PackerTyped'
    BY <1>1, <1>2, <2>1 DEF PackerTyped, Kept
  <2>3. NoneAlike' /\ InRankOrder'
    BY <1>1, <1>7, <2>1 DEF NoneAlike, InRankOrder
  <2>4. Better(c, Kept) = Kept
    BY <1>2, <1>3, <1>4 DEF Better
  <2>5. \/ \E d \in Kept : Rank(d) < Rank(c) /\ <<c, d>> \in Alike
        \/ Crowded(c)
    <3>1. CASE IsDuplicate(c)
      BY <1>2, <1>3, <1>4, <3>1 DEF IsDuplicate, Kept
    <3>2. CASE used + Estimate[c] > budget
      <4>1. used = Estimated(Kept)
        BY <1>1 DEF WhilePacking
      <4>2. Estimate[c] + Estimated(Kept) > budget
        BY <1>3, <1>8, <3>2, <4>1
      <4> QED BY <2>4, <4>2 DEF Crowded
    <3> QED BY <1>9, <3>1, <3>2
  <2>6. \A d : Crowded(d)' <=> Crowded(d)
    BY <1>1, <2>1, SameRanks DEF Crowded, Better
  <2>7. WhilePacking'
    <3>1. \A d \in Kept : Rank(d) <= considered + 1
      BY <1>2, <1>4
    <3>2. used' = Estimated(Kept)' /\ (Kept' # {} => used' <= budget')
      BY <1>1, <2>1 DEF WhilePacking, Estimated
    <3>3. ASSUME NEW d \in ToSet(ranked) \ Kept, Rank(d) <= considered + 1
          PROVE  (\E e \in Kept : Rank(e) < Rank(d) /\ <<d, e>> \in Alike) \/ Crowded(d)
      BY <1>1, <1>6, <2>5, <3>3 DEF WhilePacking
    <3> QED BY <1>1, <1>7, <2>1, <2>6, <3>1, <3>2, <3>3 DEF WhilePacking
  <2> QED BY <1>1, <2>2, <2>3, <2>7 DEF PackerInv
<1>10. CASE /\ ~IsDuplicate(c) /\ ~(used + Estimate[c] > budget)
            /\ selected' = Append(selected, c) /\ used' = used + Estimate[c]
  <2>1. /\ selected \in Seq(PackedChunks) /\ Len(selected) \in Nat /\ Len(selected') = Len(selected) + 1
        /\ selected' \in Seq(PackedChunks) /\ selected'[Len(selected) + 1] = c
        /\ \A i \in 1 .. Len(selected) : selected'[i] = selected[i] /\ selected[i] \in Kept
        /\ DOMAIN selected = 1 .. Len(selected) /\ DOMAIN selected' = 1 .. Len(selected) + 1
    <3>1. selected \in Seq(PackedChunks) /\ c \in PackedChunks
      BY <1>1, <1>3 DEF PackerTyped
    <3> HIDE DEF c
    <3>2. /\ Len(selected) \in Nat /\ Len(selected') = Len(selected) + 1
          /\ selected' \in Seq(PackedChunks) /\ selected'[Len(selected) + 1] = c
          /\ \A i \in 1 .. Len(selected) : selected'[i] = selected[i]
          /\ DOMAIN selected = 1 .. Len(selected) /\ DOMAIN selected' = 1 .. Len(selected) + 1
      BY ONLY <1>10, <3>1
    <3>3. \A i \in 1 .. Len(selected) : selected[i] \in Kept
      BY <3>2 DEF Kept, ToSet
    <3> QED BY <3>1, <3>2, <3>3
  <2>2. Kept' = Kept \union {c}
    <3>1. Kept' = {selected'[i] : i \in 1 .. Len(selected) + 1} /\ Kept = {selected[i] : i \in 1 .. Len(selected)}
      BY <2>1 DEF Kept, ToSet
    <3>2. \A i \in 1 .. Len(selected) + 1 : i \in 1 .. Len(selected) \/ i = Len(selected) + 1
      BY <2>1
    <3>3. \A i \in 1 .. Len(selected) : i \in 1 .. Len(selected) + 1
      BY <2>1
    <3>4. Len(selected) + 1 \in 1 .. Len(selected) + 1
      BY <2>1
    <3> QED BY <2>1, <3>1, <3>2, <3>3, <3>4
  <2>3. IsInjective(selected')
    <3> SUFFICES ASSUME NEW i \in DOMAIN selected', NEW j \in DOMAIN selected', selected'[i] = selected'[j]
                 PROVE  i = j
      BY DEF IsInjective
    <3>1. \A k \in DOMAIN selected' : k = Len(selected) + 1 \/ k \in 1 .. Len(selected)
      BY <2>1
    <3>2. \A k, l \in 1 .. Len(selected) : selected[k] = selected[l] => k = l
      BY <1>1, <2>1 DEF PackerTyped, IsInjective
    <3> QED BY <1>5, <2>1, <3>1, <3>2
  <2>4. PackerTyped'
    BY <1>1, <1>2, <1>3, <2>1, <2>2, <2>3 DEF PackerTyped
  <2>5. NoneAlike'
    <3>1. \A d \in Kept : <<c, d>> \notin Alike
      BY <1>10 DEF IsDuplicate, Kept
    <3>2. ASSUME NEW d \in Kept PROVE <<d, c>> \notin Alike
      <4>1. <<d, c>> \in Alike => <<(<<d, c>>)[2], (<<d, c>>)[1]>> \in Alike
        BY PackerAssumption
      <4> QED BY <3>1, <4>1
    <3> QED BY <1>1, <2>2, <3>1, <3>2 DEF NoneAlike
  <2>6. InRankOrder'
    <3> SUFFICES ASSUME NEW i \in DOMAIN selected', NEW j \in DOMAIN selected', i < j
                 PROVE  Rank(selected'[i]) < Rank(selected'[j])
      BY <1>7 DEF InRankOrder
    <3>1. i \in 1 .. Len(selected)
      BY <2>1
    <3>2. CASE j \in 1 .. Len(selected)
      BY <1>1, <2>1, <3>1, <3>2 DEF InRankOrder
    <3>3. CASE j = Len(selected) + 1
      BY <1>2, <1>3, <1>4, <2>1, <3>1, <3>3
    <3> QED BY <2>1, <3>2, <3>3
  <2>7. WhilePacking'
    <3>1. used' = Estimated(Kept)' /\ used' <= budget'
      <4>1. used = Estimated(Kept) /\ Estimated(Kept)' = Estimated(Kept \union {c})
        BY <1>1, <2>2 DEF WhilePacking, Estimated
      <4> QED BY <1>1, <1>2, <1>3, <1>8, <1>10, <4>1
    <3>2. \A d \in Kept \union {c} : Rank(d) <= considered + 1
      BY <1>2, <1>3, <1>4
    <3>3. ASSUME NEW d \in ToSet(ranked) \ (Kept \union {c}), Rank(d) <= considered + 1
          PROVE  (\E e \in Kept \union {c} : Rank(e) < Rank(d) /\ <<d, e>> \in Alike) \/ Crowded(d)'
      <4>1. Rank(d) <= considered /\ Rank(d) \in 1 .. Len(ranked)
        BY <1>1, <1>6, <3>3, RankOf
      <4>2. (\E e \in Kept : Rank(e) < Rank(d) /\ <<d, e>> \in Alike) \/ Crowded(d)
        BY <1>1, <4>1 DEF WhilePacking
      <4>3. Better(d, Kept)' = Better(d, Kept)
        <5>1. ~(Rank(c) < Rank(d))
          BY <1>2, <1>3, <4>1
        <5>2. Better(d, Kept)' = {e \in Kept \union {c} : Rank(e) < Rank(d)}
          BY <1>1, <2>2, SameRanks
        <5> QED BY <5>1, <5>2 DEF Better
      <4>4. Crowded(d)' <=> Crowded(d)
        BY <1>1, <4>3 DEF Crowded, Estimated
      <4> QED BY <4>2, <4>4
    <3> QED BY <1>1, <1>7, <2>2, <3>1, <3>2, <3>3 DEF WhilePacking
  <2> QED BY <1>1, <2>4, <2>5, <2>6, <2>7 DEF PackerInv
<1> QED BY <1>1, <1>9, <1>10 DEF Consider
LEMMA PackedStep == ASSUME PackerInv, Packed PROVE PackerInv'
<1>1. /\ PackerTyped /\ WhilePacking /\ InRankOrder /\ NoneAlike
      /\ packPc = "pack" /\ packPc' = "fit"
      /\ ranked' = ranked /\ budget' = budget /\ rendered' = rendered
      /\ considered = Len(ranked) /\ considered' = considered /\ cutTo = 0
  BY DEF Packed, PackerInv, WhilePacking
<1>2. /\ Len(ranked) \in Nat /\ budget \in Nat /\ HeaderCost \in Nat
      /\ SectionOverhead \in Nat /\ Marker \in Nat /\ Slack \in Nat /\ MinTruncated \in Nat \ {0}
  BY <1>1, PackerAssumption DEF PackerTyped
<1>3. \A d : Rank(d)' = Rank(d)
  BY <1>1, SameRanks
<1>4. /\ IsFiniteSet(Kept) /\ Kept \subseteq PackedChunks /\ Kept \subseteq ToSet(ranked)
      /\ \A d \in ToSet(ranked) : Rank(d) \in 1 .. Len(ranked)
  BY <1>1, SeqSet, RankOf DEF Kept, PackerTyped
<1>5. Room' = Room /\ Room \in Nat
  BY <1>1, <1>2 DEF Room
<1>6. rendered \in [PackedChunks -> Nat] /\ 0 .. Len(ranked) \subseteq DOMAIN Header
  BY <1>1 DEF PackerTyped
<1>7. \A n \in DOMAIN Header : Header[n] \in Nat
  BY PackerAssumption
<1>8. CASE /\ selected = <<>> /\ ranked # <<>> /\ Room >= MinTruncated
           /\ selected' = <<ranked[1]>> /\ cutTo' \in 1 .. SectionOverhead + Room + Marker + Slack
  <2> DEFINE c == ranked[1]
  <2>1. /\ Len(ranked) >= 1 /\ c \in PackedChunks /\ c \in ToSet(ranked) /\ Rank(c) = 1
    <3>1. Len(ranked) >= 1
      BY <1>1, <1>2, <1>8 DEF PackerTyped
    <3>2. 1 \in 1 .. Len(ranked)
      BY <1>2, <3>1
    <3> QED BY <1>1, <3>1, <3>2, RankOf DEF PackerTyped
  <2>2. /\ selected' \in Seq(PackedChunks) /\ Len(selected') = 1 /\ DOMAIN selected' = {1}
        /\ selected'[1] = c /\ selected' # <<>>
    BY <1>8, <2>1
  <2>3. Kept' = {c}
    BY <2>2 DEF Kept, ToSet
  <2>4. cutTo' \in Nat /\ cutTo' > 0
    BY <1>2, <1>5, <1>8
  <2>5. PackerTyped'
    BY <1>1, <1>2, <2>1, <2>2, <2>3, <2>4 DEF PackerTyped, IsInjective
  <2>6. NoneAlike'
    BY <2>3 DEF NoneAlike
  <2>7. InRankOrder'
    BY <2>2 DEF InRankOrder
  <2>8. ASSUME NEW d \in ToSet(ranked) \ {c} PROVE Rank(c) < Rank(d)
    <3>1. Rank(d) \in 1 .. Len(ranked) /\ ranked[Rank(d)] = d
      BY <1>1, RankOf
    <3> QED BY <1>2, <2>1, <3>1
  <2>9. \A d \in ToSet(ranked') \ Kept' : Left(d)'
    BY <1>1, <1>3, <2>3, <2>8 DEF Left
  <2>10. Honest' => NothingLost'
    <3> SUFFICES ASSUME Honest' PROVE Count(selected)' <= budget
      BY <1>1, <2>2 DEF NothingLost
    <3>1. Header[1] \in Nat /\ Header[1] <= HeaderCost /\ cutTo' <= SectionOverhead + Room + Marker
      <4>1. 1 \in DOMAIN Header
        BY <1>2, <1>6, <2>1
      <4> QED BY <1>5, <1>7, <4>1 DEF Honest
    <3>2. Count(selected)' = Header[1] + cutTo'
      <4> DEFINE f == [d \in {c} |-> Adds(d)']
      <4>1. Count(selected)' = Header[1] + SumOver(f, {c})
        BY <2>2, <2>3 DEF Count, Kept
      <4>2. f[c] = cutTo'
        BY <2>4 DEF Adds
      <4> HIDE DEF f
      <4>3. SumOver(f, {} \union {c}) = SumOver(f, {}) + f[c]
        <5>1. IsFiniteSet({})
          BY FS_EmptySet
        <5>2. f[c] \in Nat
          BY <2>4, <4>2
        <5> QED BY <5>1, <5>2, SumOneMore
      <4>4. SumOver(f, {}) = 0
        BY SumNothing
      <4>5. {} \union {c} = {c}
        OBVIOUS
      <4> QED BY <2>4, <4>1, <4>2, <4>3, <4>4, <4>5
    <3>3. budget = HeaderCost + SectionOverhead + Marker + Room
      BY <1>2, <1>5, <1>8 DEF Room
    <3> QED BY <1>1, <1>2, <1>5, <2>4, <3>1, <3>2, <3>3
  <2> QED BY <1>1, <2>5, <2>6, <2>7, <2>9, <2>10 DEF PackerInv, WhileFitting
<1>9. CASE ~(selected = <<>> /\ ranked # <<>> /\ Room >= MinTruncated) /\ UNCHANGED <<selected, cutTo>>
  <2>1. selected' = selected /\ cutTo' = 0 /\ Kept' = Kept
    BY <1>1, <1>9 DEF Kept
  <2>2. PackerTyped'
    BY <1>1, <2>1 DEF PackerTyped, Kept
  <2>3. NoneAlike' /\ InRankOrder'
    BY <1>1, <1>3, <2>1 DEF NoneAlike, InRankOrder
  <2>4. \A d \in ToSet(ranked) \ Kept :
           (\E e \in Kept : Rank(e) < Rank(d) /\ <<d, e>> \in Alike) \/ Crowded(d)
    BY <1>1, <1>2, <1>4 DEF WhilePacking
  <2>5. \A d \in ToSet(ranked') \ Kept' : Left(d)'
    <3> SUFFICES ASSUME NEW d \in ToSet(ranked) \ Kept PROVE Left(d)'
      BY <1>1, <2>1
    <3>1. LikeBetter(d) \/ Crowded(d)
      BY <1>4, <2>4 DEF LikeBetter
    <3>2. LikeBetter(d)' <=> LikeBetter(d)
      BY <1>1, SameRanks
    <3>3. Crowded(d)' <=> Crowded(d)
      BY <1>1, <1>3, <2>1 DEF Crowded, Better, Estimated
    <3> QED BY <3>1, <3>2, <3>3 DEF Left
  <2>6. Honest' => NothingLost'
    <3> SUFFICES ASSUME Honest' PROVE NothingLost'
      OBVIOUS
    <3>1. CASE selected # <<>>
      <4>1. /\ Len(selected) \in Nat /\ selected \in Seq(PackedChunks) /\ Len(selected) <= Len(ranked)
            /\ Kept # {}
        <5>1. selected \in Seq(PackedChunks) /\ Len(selected) \in Nat /\ Len(selected) = Cardinality(Kept)
          BY <1>1, SeqSet DEF PackerTyped, Kept
        <5>2. IsFiniteSet(ToSet(ranked)) /\ Cardinality(ToSet(ranked)) = Len(ranked)
          BY <1>1, SeqSet DEF PackerTyped
        <5>3. Cardinality(Kept) <= Cardinality(ToSet(ranked))
          BY <1>4, <5>2, FS_Subset
        <5>4. selected[1] \in Kept
          BY <3>1, <5>1 DEF Kept, ToSet
        <5> QED BY <5>1, <5>2, <5>3, <5>4
      <4>2. Header[Len(selected)] \in Nat /\ Header[Len(selected)] <= HeaderCost
        <5>1. Len(selected) \in DOMAIN Header
          BY <1>2, <1>6, <4>1
        <5> QED BY <1>7, <5>1 DEF Honest
      <4> DEFINE f == [d \in Kept |-> Adds(d)']
      <4>3. Count(selected)' = Header[Len(selected)] + SumOver(f, Kept)
        BY <2>1 DEF Count, Kept
      <4>4. \A d \in Kept : f[d] \in Nat /\ f[d] <= Estimate[d] /\ Estimate[d] \in Nat
        <5> SUFFICES ASSUME NEW d \in Kept PROVE f[d] \in Nat /\ f[d] <= Estimate[d] /\ Estimate[d] \in Nat
          OBVIOUS
        <5>1. d \in PackedChunks /\ f[d] = rendered[d]
          BY <1>1, <1>4, <2>1 DEF Adds
        <5>2. rendered[d] \in Nat /\ rendered[d] <= Estimate[d]
          BY <1>1, <1>6, <5>1 DEF Honest
        <5>3. Estimate[d] \in Nat
          BY <5>1, PackerAssumption
        <5> HIDE DEF f
        <5> QED BY <5>1, <5>2, <5>3
      <4> HIDE DEF f
      <4>5. SumOver(f, Kept) \in Nat /\ SumOver(Estimate, Kept) \in Nat
        BY <1>4, <4>4, SumFinite
      <4>6. SumOver(f, Kept) <= SumOver(Estimate, Kept)
        BY <1>4, <4>4, SumGrows
      <4>7. HeaderCost + SumOver(Estimate, Kept) <= budget
        BY <1>1, <4>1 DEF WhilePacking, Estimated
      <4>8. Count(selected)' <= budget
        BY ONLY <1>2, <4>2, <4>3, <4>5, <4>6, <4>7
      <4> QED BY <1>1, <2>1, <3>1, <4>8 DEF NothingLost
    <3>2. CASE selected = <<>>
      <4>1. Kept = {}
        BY <3>2 DEF Kept, ToSet
      <4>2. ASSUME NEW d \in ToSet(ranked) PROVE HeaderCost + Estimate[d] > budget
        <5>1. Crowded(d)
          BY <2>4, <4>1
        <5>2. Better(d, Kept) = {} /\ SumOver(Estimate, {}) = 0
          BY <4>1, SumNothing DEF Better
        <5>3. Estimate[d] \in Nat
          BY <1>1, PackerAssumption, SeqSet DEF PackerTyped
        <5> QED BY <1>2, <5>1, <5>2, <5>3 DEF Crowded, Estimated
      <4>3. ranked # <<>> => Room < MinTruncated
        BY <1>2, <1>5, <1>9, <3>2
      <4> QED BY <1>1, <1>5, <2>1, <3>2, <4>2, <4>3 DEF NothingLost
    <3> QED BY <3>1, <3>2
  <2> QED BY <1>1, <2>2, <2>3, <2>5, <2>6 DEF PackerInv, WhileFitting
<1> QED BY <1>8, <1>9 DEF Packed

LEMMA DropStep == ASSUME PackerInv, DropLowest PROVE PackerInv'
<1> DEFINE n == Len(selected)
           last == selected[n]
<1>1. /\ PackerTyped /\ WhileFitting /\ InRankOrder /\ NoneAlike
      /\ packPc = "fit" /\ packPc' = "fit"
      /\ ranked' = ranked /\ budget' = budget /\ rendered' = rendered /\ cutTo' = cutTo
      /\ considered' = considered /\ selected # <<>> /\ Count(selected) > budget
      /\ selected' = SubSeq(selected, 1, n - 1)
  BY DEF DropLowest, PackerInv, Front
<1>2. /\ selected \in Seq(PackedChunks) /\ n \in Nat \ {0} /\ DOMAIN selected = 1 .. n
      /\ selected' \in Seq(PackedChunks) /\ Len(selected') = n - 1 /\ DOMAIN selected' = 1 .. n - 1
      /\ \A i \in 1 .. n - 1 : selected'[i] = selected[i]
  <2>1. selected \in Seq(PackedChunks) /\ n \in Nat \ {0} /\ DOMAIN selected = 1 .. n
    BY <1>1 DEF PackerTyped
  <2>2. /\ selected' = [i \in 1 .. n - 1 |-> selected[i]]
        /\ \A i \in 1 .. n - 1 : i \in 1 .. n /\ selected[i] \in PackedChunks
    <3>1. \A i \in 1 .. n - 1 : i \in 1 .. n
      BY <2>1
    <3>2. SubSeq(selected, 1, n - 1) = [i \in 1 .. n - 1 |-> selected[i]]
      BY <2>1
    <3> QED BY <1>1, <2>1, <3>1, <3>2
  <2>3. n - 1 \in Nat
    BY <2>1
  <2> HIDE DEF n
  <2> QED BY <2>1, <2>2, <2>3
<1>3. \A i, j \in 1 .. n : selected[i] = selected[j] => i = j
  BY <1>1, <1>2 DEF PackerTyped, IsInjective
<1>4. Kept = {selected[i] : i \in 1 .. n} /\ Kept' = {selected'[i] : i \in 1 .. n - 1}
  BY <1>2 DEF Kept, ToSet
<1>5. Kept' \subseteq Kept /\ Kept \subseteq Kept' \union {last} /\ last \in Kept /\ last \notin Kept'
  <2>1. /\ \A i \in 1 .. n - 1 : i \in 1 .. n /\ i # n
        /\ n \in 1 .. n
        /\ \A i \in 1 .. n : i = n \/ i \in 1 .. n - 1
    <3>1. n \in Nat \ {0}
      BY <1>2
    <3> HIDE DEF n
    <3> QED BY ONLY <3>1
  <2> HIDE DEF n
  <2> QED BY <1>2, <1>3, <1>4, <2>1
<1>6. \A d \in Kept' : Rank(d) < Rank(last)
  <2>1. \A i \in 1 .. n - 1 : i \in DOMAIN selected /\ n \in DOMAIN selected /\ i < n
    BY <1>2
  <2> QED BY <1>1, <1>2, <1>4, <2>1 DEF InRankOrder
<1>7. \A d : Rank(d)' = Rank(d)
  BY <1>1, SameRanks
<1>8. PackerTyped'
  <2>1. IsInjective(selected')
    <3>1. \A i \in 1 .. n - 1 : i \in 1 .. n
      BY <1>2
    <3> QED BY <1>2, <1>3, <3>1 DEF IsInjective
  <2> QED BY <1>1, <1>2, <1>5, <2>1 DEF PackerTyped
<1>9. NoneAlike'
  BY <1>1, <1>5 DEF NoneAlike
<1>10. InRankOrder'
  <2>1. \A i \in 1 .. n - 1 : i \in 1 .. n
    BY <1>2
  <2> QED BY <1>1, <1>2, <1>7, <2>1 DEF InRankOrder
<1>11. ASSUME NEW c \in ToSet(ranked) \ Kept' PROVE Left(c)'
  <2>1. CASE c = last
    BY <1>6, <1>7, <2>1 DEF Left
  <2>2. CASE c # last
    <3>1. c \in ToSet(ranked) \ Kept /\ Left(c)
      BY <1>1, <1>5, <1>11, <2>2 DEF WhileFitting
    <3>2. CASE LikeBetter(c)
      BY <1>1, <3>2, SameRanks DEF Left
    <3>3. CASE \A d \in Kept : Rank(d) < Rank(c)
      BY <1>5, <1>7, <3>3 DEF Left
    <3>4. CASE Crowded(c)
      <4>1. \A d \in Kept : Rank(d) \in Nat
        BY <1>1, RankOf DEF PackerTyped
      <4>2. Rank(c) \in Nat
        BY <1>1, <3>1, RankOf DEF PackerTyped
      <4>3. CASE Rank(last) < Rank(c)
        <5>1. \A d \in Kept' : Rank(d) < Rank(c)
          BY <1>5, <1>6, <4>1, <4>2, <4>3
        <5> QED BY <1>7, <5>1 DEF Left
      <4>4. CASE ~(Rank(last) < Rank(c))
        <5>1. Better(c, Kept)' = Better(c, Kept)
          <6>1. Better(c, Kept)' = {d \in Kept' : Rank(d) < Rank(c)}
            BY <1>1, SameRanks
          <6> QED BY <1>5, <4>4, <6>1 DEF Better
        <5>2. Crowded(c)'
          BY <1>1, <3>4, <5>1 DEF Crowded, Estimated
        <5> QED BY <5>2 DEF Left
      <4> QED BY <4>3, <4>4
    <3> QED BY <3>1, <3>2, <3>3, <3>4 DEF Left
  <2> QED BY <2>1, <2>2
<1>12. ~Honest'
  <2>1. Honest' <=> Honest
    BY <1>1 DEF Honest, Room
  <2>2. Count(selected) \in Nat
    <3>1. Header[n] \in Nat /\ IsFiniteSet(Kept) /\ Kept \subseteq PackedChunks
      <4>1. IsFiniteSet(Kept) /\ Kept \subseteq PackedChunks /\ Cardinality(Kept) = n
        BY <1>1, SeqSet DEF Kept, PackerTyped
      <4>2. IsFiniteSet(ToSet(ranked)) /\ Cardinality(ToSet(ranked)) = Len(ranked)
        BY <1>1, SeqSet DEF PackerTyped
      <4>3. Cardinality(Kept) <= Cardinality(ToSet(ranked)) /\ Len(ranked) \in Nat
        BY <1>1, <4>2, FS_Subset DEF PackerTyped
      <4>4. n \in DOMAIN Header
        BY <1>1, <1>2, <4>1, <4>2, <4>3 DEF PackerTyped
      <4> QED BY <4>1, <4>4, PackerAssumption
    <3> DEFINE f == [d \in Kept |-> Adds(d)]
    <3>2. Count(selected) = Header[n] + SumOver(f, Kept)
      BY DEF Count, Kept
    <3>3. \A d \in Kept : f[d] \in Nat
      BY <1>1, <3>1 DEF Adds, PackerTyped
    <3> HIDE DEF f
    <3>4. SumOver(f, Kept) \in Nat
      BY <3>1, <3>3, SumFinite
    <3> QED BY <3>1, <3>2, <3>4
  <2>3. budget \in Nat
    BY <1>1 DEF PackerTyped
  <2> QED BY <1>1, <2>1, <2>2, <2>3 DEF WhileFitting, NothingLost
<1> QED BY <1>1, <1>8, <1>9, <1>10, <1>11, <1>12 DEF PackerInv, WhileFitting

LEMMA RenderStep == ASSUME PackerInv, RenderBundle PROVE PackerInv'
<1>1. /\ PackerTyped /\ WhileFitting /\ NoneAlike
      /\ packPc = "fit" /\ packPc' = "done"
      /\ ranked' = ranked /\ budget' = budget /\ rendered' = rendered /\ cutTo' = cutTo
      /\ considered' = considered /\ (selected = <<>> \/ Count(selected) <= budget)
      /\ selected' = Order(selected)
  BY DEF RenderBundle, PackerInv
<1>2. /\ selected' \in Seq(PackedChunks) /\ IsInjective(selected')
      /\ ToSet(selected') = Kept /\ Len(selected') = Len(selected)
  BY <1>1, OrderKeeps
<1>3. Kept' = Kept /\ Kept = ToSet(selected)
  BY <1>2 DEF Kept
<1>4. \A d : Rank(d)' = Rank(d)
  BY <1>1, SameRanks
<1>5. PackerTyped'
  BY <1>1, <1>2, <1>3 DEF PackerTyped
<1>6. NoneAlike'
  BY <1>1, <1>3 DEF NoneAlike
<1>7. Count(selected)' = Count(selected)
  <2>1. \A d : Adds(d)' = Adds(d)
    BY <1>1 DEF Adds
  <2>2. [d \in ToSet(selected') |-> Adds(d)'] = [d \in ToSet(selected) |-> Adds(d)]
    BY <1>2, <1>3, <2>1
  <2> QED BY <1>2, <1>3, <2>2 DEF Count
<1>8. (selected' = <<>>) <=> (selected = <<>>)
  BY <1>1, <1>2 DEF PackerTyped
<1>9. \A c \in ToSet(ranked') \ Kept' : Left(c)'
  <2> SUFFICES ASSUME NEW c \in ToSet(ranked) \ Kept PROVE Left(c)'
    BY <1>1, <1>3
  <2>1. Left(c)
    BY <1>1 DEF WhileFitting
  <2>2. LikeBetter(c)' <=> LikeBetter(c)
    BY <1>1, SameRanks
  <2>3. Crowded(c)' <=> Crowded(c)
    BY <1>1, <1>3, <1>4 DEF Crowded, Better, Estimated
  <2> QED BY <1>3, <1>4, <2>1, <2>2, <2>3 DEF Left
<1>10. Honest' => NothingLost'
  <2>1. (Honest' <=> Honest) /\ Room' = Room
    BY <1>1 DEF Honest, Room
  <2> QED BY <1>1, <1>7, <1>8, <2>1 DEF WhileFitting, NothingLost
<1> QED BY <1>1, <1>5, <1>6, <1>7, <1>8, <1>9, <1>10 DEF PackerInv, WhileFitting

LEMMA PackerStutter == ASSUME PackerInv, UNCHANGED packerVars PROVE PackerInv'
<1>1. /\ ranked' = ranked /\ budget' = budget /\ rendered' = rendered /\ considered' = considered
      /\ selected' = selected /\ used' = used /\ cutTo' = cutTo /\ packPc' = packPc
  BY DEF packerVars
<1>2. \A c : Rank(c)' = Rank(c)
  BY <1>1, SameRanks
<1>3. Kept' = Kept
  BY <1>1 DEF Kept
<1>4. \A c : (Crowded(c)' <=> Crowded(c)) /\ (LikeBetter(c)' <=> LikeBetter(c))
  BY <1>1, <1>2, <1>3, SameRanks DEF Crowded, Better, Estimated
<1>5. Count(selected)' = Count(selected) /\ Room' = Room
  BY <1>1 DEF Count, Adds, Room
<1>6. (PackerTyped' <=> PackerTyped) /\ (NoneAlike' <=> NoneAlike) /\ (InRankOrder' <=> InRankOrder)
  BY <1>1, <1>2, <1>3 DEF PackerTyped, NoneAlike, InRankOrder
<1>7. WhilePacking' <=> WhilePacking
  BY <1>1, <1>2, <1>3, <1>4 DEF WhilePacking, Estimated
<1>8. WhileFitting' <=> WhileFitting
  BY <1>1, <1>2, <1>3, <1>4, <1>5 DEF WhileFitting, Left, Honest, NothingLost
<1> QED BY <1>1, <1>5, <1>6, <1>7, <1>8 DEF PackerInv

(* A bundle with a section is within its budget; no two of its sections are*)
(* near-duplicates; nothing is lost when estimates are honest; and a chunk *)
(* is left out only for better ones or after all worse ones                *)
(* (bundle.go:148-154, 180-200).                                           *)
THEOREM SectionsAreBest == PackerSpec => []SectionsAreTheBestThatFit
<1>1. PackerInv /\ [PackerNext]_packerVars => PackerInv'
  <2> SUFFICES ASSUME PackerInv, [PackerNext]_packerVars PROVE PackerInv'
    OBVIOUS
  <2>1. CASE \E r \in Rankings, b \in Budgets, sizes \in Renderings : PackChunks(r, b, sizes)
    BY <2>1, PackStep
  <2>2. CASE Consider
    BY <2>2, ConsiderStep
  <2>3. CASE Packed
    BY <2>3, PackedStep
  <2>4. CASE DropLowest
    BY <2>4, DropStep
  <2>5. CASE RenderBundle
    BY <2>5, RenderStep
  <2>6. CASE UNCHANGED packerVars
    BY <2>6, PackerStutter
  <2> QED BY <2>1, <2>2, <2>3, <2>4, <2>5, <2>6 DEF PackerNext
<1>2. PackerInv => SectionsAreTheBestThatFit
  <2> SUFFICES ASSUME PackerInv, packPc = "done" PROVE SectionsAreTheBestThatFit
    BY DEF SectionsAreTheBestThatFit
  <2>1. /\ WhileFitting /\ NoneAlike /\ PackerTyped /\ (selected = <<>> \/ Count(selected) <= budget)
    BY DEF PackerInv
  <2>2. \A c \in ToSet(ranked) : /\ HeaderCost \in Nat /\ Estimate[c] \in Nat
                                 /\ SumOver(Estimate, Better(c, Kept)) \in Nat
    <3>1. \A c \in PackedChunks : Estimate[c] \in Nat
      BY PackerAssumption
    <3>2. IsFiniteSet(Kept) /\ Kept \subseteq PackedChunks /\ ToSet(ranked) \subseteq PackedChunks
      BY <2>1, SeqSet DEF PackerTyped, Kept
    <3>3. ASSUME NEW c \in ToSet(ranked) PROVE SumOver(Estimate, Better(c, Kept)) \in Nat
      <4>1. Better(c, Kept) \in SUBSET Kept
        BY DEF Better
      <4>2. IsFiniteSet(Better(c, Kept))
        BY <3>2, <4>1, FS_Subset
      <4>3. \A d \in Better(c, Kept) : Estimate[d] \in Nat
        BY <3>1, <3>2, <4>1
      <4> QED BY <4>2, <4>3, SumFinite
    <3> QED BY <3>1, <3>2, <3>3, PackerAssumption
  <2>3. \A c \in ToSet(ranked) :
           Crowded(c) => HeaderCost + Estimate[c] + SumOver(Estimate, Better(c, Kept)) > budget
    <3> SUFFICES ASSUME NEW c \in ToSet(ranked), Crowded(c)
                 PROVE  HeaderCost + Estimate[c] + SumOver(Estimate, Better(c, Kept)) > budget
      OBVIOUS
    <3>1. Estimate[c] + (HeaderCost + SumOver(Estimate, Better(c, Kept))) > budget
      BY DEF Crowded, Estimated
    <3>2. budget \in Nat
      BY <2>1 DEF PackerTyped
    <3> QED BY <2>2, <3>1, <3>2
  <2>4. Honest /\ selected = <<>> => /\ \A c \in ToSet(ranked) : HeaderCost + Estimate[c] > budget
                                     /\ ranked # <<>> => Room < MinTruncated
    BY <2>1 DEF WhileFitting, NothingLost
  <2>5. \A c \in Kept, d \in Kept : <<c, d>> \notin Alike \/ c = d
    BY <2>1 DEF NoneAlike
  <2>6. \A c \in ToSet(ranked) \ Kept :
           \/ \E d \in ToSet(ranked) : Rank(d) < Rank(c) /\ <<c, d>> \in Alike
           \/ HeaderCost + Estimate[c] + SumOver(Estimate, Better(c, Kept)) > budget
           \/ \A d \in Kept : Rank(d) < Rank(c)
    BY <2>1, <2>3 DEF WhileFitting, Left, LikeBetter
  <2> QED BY <2>1, <2>4, <2>5, <2>6 DEF SectionsAreTheBestThatFit, Kept, Honest
<1> QED BY <1>1, <1>2, PackerStart, PTL DEF PackerSpec

-----------------------------------------------------------------------------
(* Lists.                                                                  *)
LEMMA PositionOf ==
    ASSUME NEW X, NEW s \in Seq(X)
    PROVE  /\ \A k : Contains(s, k) <=> k \in ToSet(s)
           /\ \A k \in ToSet(s) : Position(s, k) \in 1 .. Len(s) /\ s[Position(s, k)] = k
           /\ IsInjective(s) => \A i \in 1 .. Len(s) : Position(s, s[i]) = i /\ s[i] \in ToSet(s)
<1>1. Len(s) \in Nat /\ DOMAIN s = 1 .. Len(s)
  OBVIOUS
<1>2. \A k : Contains(s, k) <=> k \in ToSet(s)
  BY <1>1 DEF Contains, ToSet
<1>3. ASSUME NEW k \in ToSet(s) PROVE Position(s, k) \in 1 .. Len(s) /\ s[Position(s, k)] = k
  <2>1. \E i \in DOMAIN s : s[i] = k
    BY DEF ToSet
  <2> QED BY <1>1, <2>1 DEF Position
<1>4. ASSUME IsInjective(s), NEW i \in 1 .. Len(s) PROVE Position(s, s[i]) = i /\ s[i] \in ToSet(s)
  <2>1. s[i] \in ToSet(s)
    BY <1>1 DEF ToSet
  <2>2. Position(s, s[i]) \in DOMAIN s /\ s[Position(s, s[i])] = s[i]
    BY <1>1, <1>3, <2>1
  <2> QED BY <1>1, <1>4, <2>1, <2>2 DEF IsInjective
<1> QED BY <1>2, <1>3, <1>4

LEMMA InFront ==
    ASSUME NEW X, NEW s \in Seq(X), IsInjective(s), NEW j \in ToSet(s), NEW k \in ToSet(s)
    PROVE  Before(s, j, k) <=> Position(s, j) < Position(s, k)
<1>1. /\ Position(s, j) \in DOMAIN s /\ s[Position(s, j)] = j
      /\ Position(s, k) \in DOMAIN s /\ s[Position(s, k)] = k
      /\ \A i \in DOMAIN s : Position(s, s[i]) = i
  BY PositionOf
<1> QED BY <1>1 DEF Before

LEMMA LimitIs ==
    ASSUME NEW X, NEW s \in Seq(X), NEW n \in Nat
    PROVE  /\ Limit(s, n) \in Seq(X) /\ Len(Limit(s, n)) = (IF Len(s) < n THEN Len(s) ELSE n)
           /\ \A i \in 1 .. Len(Limit(s, n)) : i \in 1 .. Len(s) /\ Limit(s, n)[i] = s[i]
           /\ ToSet(Limit(s, n)) \subseteq ToSet(s)
           /\ IsInjective(s) => IsInjective(Limit(s, n))
<1> DEFINE m == IF Len(s) < n THEN Len(s) ELSE n
           t == SubSeq(s, 1, m)
<1>1. Len(s) \in Nat /\ DOMAIN s = 1 .. Len(s) /\ m \in Nat /\ m <= Len(s)
  OBVIOUS
<1> HIDE DEF m
<1>2. t = [i \in 1 .. m |-> s[i]]
  BY <1>1
<1>3. t \in Seq(X) /\ Len(t) = m /\ DOMAIN t = 1 .. m
  BY <1>1, <1>2
<1>4. \A i \in 1 .. m : i \in 1 .. Len(s) /\ t[i] = s[i]
  BY <1>1, <1>2
<1> HIDE DEF t
<1>5. ToSet(t) \subseteq ToSet(s)
  BY <1>1, <1>3, <1>4 DEF ToSet
<1>6. IsInjective(s) => IsInjective(t)
  BY <1>1, <1>3, <1>4 DEF IsInjective
<1>7. Limit(s, n) = t
  BY DEF Limit, t, m
<1> QED BY <1>3, <1>4, <1>5, <1>6, <1>7 DEF m

LEMMA SortedList ==
    ASSUME NEW S, IsFiniteSet(S), NEW R, StrictOrder(S, R)
    PROVE  /\ SortBy(S, R) \in Seq(S) /\ Len(SortBy(S, R)) = Cardinality(S)
           /\ ToSet(SortBy(S, R)) = S /\ IsInjective(SortBy(S, R))
           /\ \A x, y \in S : <<x, y>> \in R <=> Position(SortBy(S, R), x) < Position(SortBy(S, R), y)
<1> DEFINE s == SortBy(S, R)
           n == Cardinality(S)
<1>1. /\ s \in [1 .. n -> S] /\ n \in Nat
      /\ \A x \in S : \E i \in 1 .. n : s[i] = x
      /\ \A i, j \in 1 .. n : i < j <=> <<s[i], s[j]>> \in R
  BY Sorted
<1> HIDE DEF s, n
<1>2. s \in Seq(S) /\ Len(s) = n /\ DOMAIN s = 1 .. n
  BY <1>1
<1>3. ToSet(s) = S
  BY <1>1, <1>2 DEF ToSet
<1>4. IsInjective(s)
  <2> SUFFICES ASSUME NEW i \in 1 .. n, NEW j \in 1 .. n, s[i] = s[j] PROVE i = j
    BY <1>2 DEF IsInjective
  <2>1. s[i] \in S /\ <<s[i], s[i]>> \notin R
    BY <1>1 DEF StrictOrder
  <2>2. ~(i < j) /\ ~(j < i)
    BY <1>1, <2>1
  <2> QED BY <1>1, <2>2
<1>5. ASSUME NEW x \in S, NEW y \in S PROVE <<x, y>> \in R <=> Position(s, x) < Position(s, y)
  <2>1. /\ Position(s, x) \in 1 .. n /\ s[Position(s, x)] = x
        /\ Position(s, y) \in 1 .. n /\ s[Position(s, y)] = y
    BY <1>2, <1>3, PositionOf
  <2> QED BY <1>1, <2>1
<1> QED BY <1>2, <1>3, <1>4, <1>5 DEF s, n

-----------------------------------------------------------------------------
(* Reciprocal ranks.                                                       *)
LEMMA Quotient ==
    ASSUME NEW W \in Nat, NEW x \in Nat, x > 0
    PROVE  W \div x \in Nat /\ x * (W \div x) <= W /\ W < x * ((W \div x) + 1)
BY SMT

(* How deep a list may be for fusion to tell its ranks apart.              *)
Deepest == 1000

LEMMA Farther ==
    ASSUME NEW W \in Nat, W >= Scale, NEW x \in Nat, x > 0, NEW y \in Nat, x < y, y <= Deepest
    PROVE  W \div y < W \div x
<1>1. y > 0 /\ y <= 1000
  BY SMT DEF Deepest
<1> DEFINE u == W \div x
           v == W \div y
<1>2. u \in Nat /\ W < x * (u + 1)
  BY Quotient, SMT
<1>3. v \in Nat /\ y * v <= W /\ W < y * (v + 1)
  BY <1>1, Quotient, SMT
<1> HIDE DEF u, v
<1>4. v >= 1000
  <2>1. y * (v + 1) <= 1000 * (v + 1)
    BY <1>1, <1>3, SMT
  <2>2. 10000000 < 1000 * (v + 1)
    BY <1>3, <2>1, SMT DEF Scale
  <2> QED BY <1>3, <2>2, SMT
<1>5. SUFFICES ASSUME u <= v PROVE FALSE
  BY <1>2, <1>3, SMT DEF u, v
<1>6. x * (u + 1) <= x * (v + 1)
  BY <1>2, <1>3, <1>5, SMT
<1>7. (x + 1) * v <= y * v
  BY <1>3, SMT
<1>8. (x + 1) * v = x * v + v /\ x * (v + 1) = x * v + x
  BY <1>3, SMT
<1>9. x * v \in Nat
  BY <1>3, SMT
<1>10. W < x * v + x
  BY <1>2, <1>6, <1>8, <1>9, SMT
<1>11. x * v + v <= W
  <2> DEFINE p == (x + 1) * v
             q == y * v
             r == x * v
  <2>1. p \in Nat /\ q \in Nat /\ r \in Nat
    BY <1>3, SMT
  <2>2. p <= q /\ q <= W /\ p = r + v
    BY <1>3, <1>7, <1>8
  <2> HIDE DEF p, q, r
  <2>3. r + v <= W
    BY <1>3, <2>1, <2>2, SMT
  <2> QED BY <2>3 DEF r
<1>12. v < x
  <2> DEFINE r == x * v
  <2>1. r \in Nat /\ W < r + x /\ r + v <= W
    BY <1>9, <1>10, <1>11
  <2> HIDE DEF r
  <2> QED BY ONLY <1>3, <2>1, SMT
<1> QED BY <1>1, <1>3, <1>4, <1>12, SMT

LEMMA Heavier ==
    ASSUME NEW V \in Nat, NEW W \in Nat, V <= W, NEW x \in Nat, x > 0
    PROVE  V \div x <= W \div x
<1> DEFINE u == V \div x
           v == W \div x
<1>1. u \in Nat /\ x * u <= V
  BY Quotient, SMT
<1>2. v \in Nat /\ W < x * (v + 1)
  BY Quotient, SMT
<1> HIDE DEF u, v
<1>3. SUFFICES ASSUME v + 1 <= u PROVE FALSE
  BY <1>1, <1>2, SMT DEF u, v
<1>4. x * (v + 1) <= x * u
  BY <1>1, <1>2, <1>3, SMT
<1> QED BY <1>1, <1>2, <1>4, SMT

(* The first elements of a list are where they were.                       *)
LEMMA LimitMembers ==
    ASSUME NEW X, NEW s \in Seq(X), IsInjective(s), NEW n \in Nat
    PROVE  /\ ToSet(Limit(s, n)) = {k \in ToSet(s) : Position(s, k) <= n}
           /\ \A k \in ToSet(Limit(s, n)) : Position(Limit(s, n), k) = Position(s, k)
<1> DEFINE t == Limit(s, n)
<1>1. /\ t \in Seq(X) /\ Len(t) = (IF Len(s) < n THEN Len(s) ELSE n) /\ IsInjective(t)
      /\ \A i \in 1 .. Len(t) : i \in 1 .. Len(s) /\ t[i] = s[i]
      /\ ToSet(t) \subseteq ToSet(s)
  BY LimitIs
<1> HIDE DEF t
<1>2. Len(s) \in Nat /\ Len(t) \in Nat
  BY <1>1
<1>3. ASSUME NEW k \in ToSet(t) PROVE Position(t, k) = Position(s, k) /\ Position(s, k) <= n
  <2>1. Position(t, k) \in 1 .. Len(t) /\ t[Position(t, k)] = k
    BY <1>1, PositionOf
  <2>2. Position(t, k) \in 1 .. Len(s) /\ s[Position(t, k)] = k
    BY <1>1, <2>1
  <2>3. Position(s, s[Position(t, k)]) = Position(t, k)
    BY <2>2, PositionOf
  <2>4. Position(s, k) = Position(t, k)
    BY <2>2, <2>3
  <2> QED BY ONLY <1>1, <1>2, <2>1, <2>4, n \in Nat
<1>4. ASSUME NEW k \in ToSet(s), Position(s, k) <= n PROVE k \in ToSet(t)
  <2>1. Position(s, k) \in 1 .. Len(s) /\ s[Position(s, k)] = k
    BY PositionOf
  <2>2. Position(s, k) \in 1 .. Len(t)
    BY ONLY <1>1, <1>2, <1>4, <2>1, n \in Nat
  <2>3. t[Position(s, k)] = k /\ Position(s, k) \in DOMAIN t
    BY <1>1, <2>1, <2>2
  <2> QED BY <2>3 DEF ToSet
<1>5. \A k \in ToSet(t) : k \in ToSet(s)
  BY <1>1
<1>6. ToSet(t) = {k \in ToSet(s) : Position(s, k) <= n}
  BY <1>3, <1>4, <1>5
<1> QED BY <1>3, <1>6 DEF t

-----------------------------------------------------------------------------
(* Fusion.                                                                 *)
LEMMA Fused ==
    ASSUME NEW lists, NEW ids \in SUBSET Nat, IsFiniteSet(ids),
           ids = ToSet(lists[1].ids) \union ToSet(lists[2].ids) \union ToSet(lists[3].ids),
           \A k \in ids : Score(lists, k) \in Nat
    PROVE  /\ RRFWeighted(lists) \in Seq(ids) /\ IsInjective(RRFWeighted(lists))
           /\ ToSet(RRFWeighted(lists)) = ids /\ Len(RRFWeighted(lists)) = Cardinality(ids)
           /\ \A j, k \in ids : Score(lists, j) > Score(lists, k) =>
                Position(RRFWeighted(lists), j) < Position(RRFWeighted(lists), k)
<1> DEFINE R == {x \in ids \X ids :
                    \/ Score(lists, x[1]) > Score(lists, x[2])
                    \/ Score(lists, x[1]) = Score(lists, x[2]) /\ x[1] < x[2]}
<1>1. RRFWeighted(lists) = SortBy(ids, R)
  BY DEF RRFWeighted
<1>2. \A j, k \in ids : <<j, k>> \in R <=>
        (Score(lists, j) > Score(lists, k) \/ (Score(lists, j) = Score(lists, k) /\ j < k))
  OBVIOUS
<1> HIDE DEF R
<1>3. StrictOrder(ids, R)
  <2>1. \A x \in ids : <<x, x>> \notin R
    BY <1>2
  <2>2. \A x, y, z \in ids : <<x, y>> \in R /\ <<y, z>> \in R => <<x, z>> \in R
    <3> SUFFICES ASSUME NEW x \in ids, NEW y \in ids, NEW z \in ids, <<x, y>> \in R, <<y, z>> \in R
                 PROVE  <<x, z>> \in R
      OBVIOUS
    <3>1. x \in Nat /\ y \in Nat /\ z \in Nat
      OBVIOUS
    <3>2. Score(lists, x) \in Nat /\ Score(lists, y) \in Nat /\ Score(lists, z) \in Nat
      OBVIOUS
    <3>3. /\ (Score(lists, x) > Score(lists, y) \/ (Score(lists, x) = Score(lists, y) /\ x < y))
          /\ (Score(lists, y) > Score(lists, z) \/ (Score(lists, y) = Score(lists, z) /\ y < z))
      BY <1>2
    <3>4. Score(lists, x) > Score(lists, z) \/ (Score(lists, x) = Score(lists, z) /\ x < z)
      BY ONLY <3>1, <3>2, <3>3
    <3> QED BY <1>2, <3>4
  <2>3. \A x, y \in ids : x = y \/ <<x, y>> \in R \/ <<y, x>> \in R
    <3> SUFFICES ASSUME NEW x \in ids, NEW y \in ids PROVE x = y \/ <<x, y>> \in R \/ <<y, x>> \in R
      OBVIOUS
    <3>1. x \in Nat /\ y \in Nat /\ Score(lists, x) \in Nat /\ Score(lists, y) \in Nat
      OBVIOUS
    <3>2. \/ x = y
          \/ Score(lists, x) > Score(lists, y) \/ (Score(lists, x) = Score(lists, y) /\ x < y)
          \/ Score(lists, y) > Score(lists, x) \/ (Score(lists, y) = Score(lists, x) /\ y < x)
      BY ONLY <3>1
    <3> QED BY <1>2, <3>2
  <2> QED BY <2>1, <2>2, <2>3 DEF StrictOrder
<1> DEFINE s == SortBy(ids, R)
<1>4. /\ s \in Seq(ids) /\ IsInjective(s) /\ ToSet(s) = ids /\ Len(s) = Cardinality(ids)
      /\ \A x, y \in ids : <<x, y>> \in R <=> Position(s, x) < Position(s, y)
  BY <1>3, SortedList
<1> HIDE DEF s
<1>5. \A j, k \in ids : Score(lists, j) > Score(lists, k) => Position(s, j) < Position(s, k)
  BY <1>2, <1>4
<1>6. RRFWeighted(lists) = s
  BY <1>1 DEF s
<1> QED BY <1>4, <1>5, <1>6

(* A list fusion can score: its ranks stay below a thousand.               *)
Scored(l) ==
    /\ l.ids \in Seq(RankedChunks) /\ IsInjective(l.ids) /\ l.weight \in Nat /\ l.offset \in Nat
    /\ RRFK + l.offset + Len(l.ids) < Deepest

PlaceIn(l, k) == RRFK + l.offset + Position(l.ids, k)

LEMMA ScoreInIs ==
    ASSUME NEW l, Scored(l), NEW k
    PROVE  /\ ScoreIn(l, k) \in Nat
           /\ k \notin ToSet(l.ids) => ScoreIn(l, k) = 0
           /\ k \in ToSet(l.ids) =>
                /\ Position(l.ids, k) \in 1 .. Len(l.ids)
                /\ PlaceIn(l, k) \in Nat /\ PlaceIn(l, k) > 0 /\ PlaceIn(l, k) < Deepest
                /\ ScoreIn(l, k) = l.weight \div PlaceIn(l, k)
<1> DEFINE ids == l.ids
           W == l.weight
           o == l.offset
           n == Len(ids)
           p == Position(ids, k)
           x == PlaceIn(l, k)
<1>1. ids \in Seq(RankedChunks) /\ W \in Nat /\ o \in Nat /\ RRFK + o + n < Deepest /\ n \in Nat
  BY DEF Scored
<1>2. Contains(ids, k) <=> k \in ToSet(ids)
  <2> HIDE DEF ids
  <2> QED BY <1>1, PositionOf
<1>3. CASE k \notin ToSet(ids)
  BY <1>2, <1>3 DEF ScoreIn
<1>4. CASE k \in ToSet(ids)
  <2>1. p \in 1 .. n
    <3> HIDE DEF ids
    <3> QED BY <1>1, <1>4, PositionOf
  <2>2. ScoreIn(l, k) = W \div x
    BY <1>2, <1>4 DEF ScoreIn, PlaceIn
  <2>3. x = RRFK + o + p
    BY DEF PlaceIn
  <2> HIDE DEF o, n, p, x, W, ids
  <2>4. x \in Nat /\ x > 0 /\ x < Deepest
    BY ONLY <1>1, <2>1, <2>3, SMT DEF RRFK, Deepest
  <2>5. W \div x \in Nat
    BY ONLY <1>1, <2>4, Quotient
  <2> USE DEF n, p, x, W, ids
  <2> QED BY ONLY <1>4, <2>1, <2>2, <2>4, <2>5
<1> QED BY <1>3, <1>4

(* In a list of weight a quarter or more, ranks tell scores apart.         *)
LEMMA RankTells ==
    ASSUME NEW l, Scored(l), l.weight >= Scale, NEW j \in ToSet(l.ids), NEW k \in ToSet(l.ids),
           Position(l.ids, j) < Position(l.ids, k)
    PROVE  ScoreIn(l, j) > ScoreIn(l, k)
<1> DEFINE W == l.weight
           x == PlaceIn(l, j)
           y == PlaceIn(l, k)
<1>1. Position(l.ids, j) \in 1 .. Len(l.ids) /\ Position(l.ids, k) \in 1 .. Len(l.ids)
  BY ScoreInIs
<1>2. x \in Nat /\ x > 0 /\ ScoreIn(l, j) = W \div x
  BY ScoreInIs
<1>3. y \in Nat /\ y > 0 /\ y < Deepest /\ ScoreIn(l, k) = W \div y
  BY ScoreInIs
<1>4. W \in Nat /\ W >= Scale /\ l.offset \in Nat /\ RRFK \in Nat
  BY DEF Scored, RRFK
<1>5. x < y
  <2> DEFINE o == l.offset
             a == Position(l.ids, j)
             b == Position(l.ids, k)
  <2>1. a \in Nat /\ b \in Nat /\ o \in Nat /\ RRFK \in Nat /\ a < b
    BY <1>1, <1>4
  <2>2. x = RRFK + o + a /\ y = RRFK + o + b
    BY DEF PlaceIn
  <2> HIDE DEF o, a, b, x, y
  <2> QED BY ONLY <2>1, <2>2
<1> HIDE DEF W, x, y
<1>6. y <= Deepest
  BY ONLY <1>3, SMT DEF Deepest
<1>7. W \div y < W \div x
  BY ONLY <1>2, <1>3, <1>4, <1>5, <1>6, Farther
<1>8. W \div x \in Nat /\ W \div y \in Nat
  BY ONLY <1>2, <1>3, <1>4, Quotient
<1> QED BY ONLY <1>2, <1>3, <1>7, <1>8

LEMMA RanksScore ==
    ASSUME NEW l, Scored(l), l.weight >= Scale
    PROVE  /\ \A k \in ToSet(l.ids) : ScoreIn(l, k) > 0
           /\ \A j, k \in ToSet(l.ids) :
                Position(l.ids, j) < Position(l.ids, k) => ScoreIn(l, j) > ScoreIn(l, k)
<1>1. ASSUME NEW k \in ToSet(l.ids) PROVE ScoreIn(l, k) > 0
  <2> DEFINE W == l.weight
             x == PlaceIn(l, k)
  <2>1. x \in Nat /\ x > 0 /\ x < Deepest /\ ScoreIn(l, k) = W \div x
    BY ScoreInIs
  <2>2. W \in Nat /\ W >= Scale
    BY DEF Scored
  <2> HIDE DEF W, x
  <2>3. Deepest \in Nat /\ Deepest > 0 /\ Deepest <= Deepest
    BY ONLY SMT DEF Deepest
  <2>4. W \div Deepest < W \div x
    BY ONLY <2>1, <2>2, <2>3, Farther
  <2>5. W \div x \in Nat /\ W \div Deepest \in Nat
    BY ONLY <2>1, <2>2, <2>3, Quotient
  <2> QED BY ONLY <2>1, <2>4, <2>5
<1> QED BY <1>1, RankTells

-----------------------------------------------------------------------------
(* Both passes over the full-text index.                                   *)
QueryOk(q) ==
    /\ q.mode \in {"hybrid", "unembedded", "bm25", "vector"}
    /\ q.matchAll \in Seq(RankedChunks) /\ IsInjective(q.matchAll)
    /\ q.matchAny \in Seq(RankedChunks) /\ IsInjective(q.matchAny)
    /\ ToSet(q.matchAll) \subseteq ToSet(q.matchAny)
    /\ q.vectors \in Seq([id : RankedChunks, score : Int])
    /\ \A i, j \in DOMAIN q.vectors : q.vectors[i].id = q.vectors[j].id => i = j
    /\ q.governing \in Seq(Nat) /\ q.topK \in 1 .. 150 /\ q.budget \in Nat

LEMMA QueriesOk == \A q \in Queries : QueryOk(q)
BY RankingAssumption DEF QueryOk

More(q, n) == ToSet(Limit(q.matchAny, n)) \ ToSet(AllTerms(q, n))
InOrder(q, n) == {x \in More(q, n) \X More(q, n) :
                     Position(Limit(q.matchAny, n), x[1]) < Position(Limit(q.matchAny, n), x[2])}
MoreInOrder(q, n) == SortBy(More(q, n), InOrder(q, n))

LEMMA AllTermsAre ==
    ASSUME NEW q, QueryOk(q), NEW n \in Nat
    PROVE  /\ AllTerms(q, n) \in Seq(RankedChunks) /\ IsInjective(AllTerms(q, n))
           /\ Len(AllTerms(q, n)) = (IF Len(q.matchAll) < n THEN Len(q.matchAll) ELSE n)
           /\ ToSet(AllTerms(q, n)) = {k \in ToSet(q.matchAll) : Position(q.matchAll, k) <= n}
           /\ \A k \in ToSet(AllTerms(q, n)) : Position(AllTerms(q, n), k) = Position(q.matchAll, k)
<1>1. q.matchAll \in Seq(RankedChunks) /\ IsInjective(q.matchAll)
  BY DEF QueryOk
<1>2. /\ Limit(q.matchAll, n) \in Seq(RankedChunks) /\ IsInjective(Limit(q.matchAll, n))
      /\ Len(Limit(q.matchAll, n)) = (IF Len(q.matchAll) < n THEN Len(q.matchAll) ELSE n)
  BY <1>1, LimitIs
<1>3. /\ ToSet(Limit(q.matchAll, n)) = {k \in ToSet(q.matchAll) : Position(q.matchAll, k) <= n}
      /\ \A k \in ToSet(Limit(q.matchAll, n)) : Position(Limit(q.matchAll, n), k) = Position(q.matchAll, k)
  BY <1>1, LimitMembers
<1> QED BY <1>2, <1>3 DEF AllTerms

LEMMA MoreIs ==
    ASSUME NEW q, QueryOk(q), NEW n \in Nat
    PROVE  /\ IsFiniteSet(More(q, n)) /\ More(q, n) \subseteq RankedChunks
           /\ \A k \in More(q, n) : /\ k \in ToSet(q.matchAny) /\ k \notin ToSet(AllTerms(q, n))
                                    /\ Position(q.matchAny, k) <= n
           /\ \A k \in ToSet(q.matchAny) :
                Position(q.matchAny, k) <= n /\ k \notin ToSet(AllTerms(q, n)) => k \in More(q, n)
           /\ MoreInOrder(q, n) \in Seq(RankedChunks) /\ IsInjective(MoreInOrder(q, n))
           /\ ToSet(MoreInOrder(q, n)) = More(q, n)
           /\ \A j, k \in More(q, n) : Position(q.matchAny, j) < Position(q.matchAny, k) <=>
                Position(MoreInOrder(q, n), j) < Position(MoreInOrder(q, n), k)
<1> DEFINE any == Limit(q.matchAny, n)
           S == More(q, n)
           R == InOrder(q, n)
           s == SortBy(S, R)
<1>1. q.matchAny \in Seq(RankedChunks) /\ IsInjective(q.matchAny)
  BY DEF QueryOk
<1>2. any \in Seq(RankedChunks) /\ IsInjective(any)
  BY <1>1, LimitIs
<1>3. /\ ToSet(any) = {k \in ToSet(q.matchAny) : Position(q.matchAny, k) <= n}
      /\ \A k \in ToSet(any) : Position(any, k) = Position(q.matchAny, k)
  BY <1>1, LimitMembers
<1>4. IsFiniteSet(ToSet(any)) /\ ToSet(any) \subseteq RankedChunks
  BY <1>2, SeqSet
<1>5. S = ToSet(any) \ ToSet(AllTerms(q, n))
  BY DEF More
<1>6. IsFiniteSet(S) /\ S \subseteq RankedChunks
  BY <1>4, <1>5, FS_Subset
<1>7. \A k \in S : Position(any, k) \in Nat /\ any[Position(any, k)] = k /\ Position(any, k) = Position(q.matchAny, k)
  <2> SUFFICES ASSUME NEW k \in S
               PROVE  Position(any, k) \in Nat /\ any[Position(any, k)] = k /\ Position(any, k) = Position(q.matchAny, k)
    OBVIOUS
  <2>1. k \in ToSet(any)
    BY <1>5
  <2>2. Position(any, k) \in 1 .. Len(any) /\ any[Position(any, k)] = k
    BY <1>2, <2>1, PositionOf
  <2> QED BY <1>2, <1>3, <2>1, <2>2
<1>8. \A j, k \in S : <<j, k>> \in R <=> Position(any, j) < Position(any, k)
  BY DEF InOrder
<1>9. StrictOrder(S, R)
  <2> HIDE DEF any, S, R
  <2>1. \A x \in S : <<x, x>> \notin R
    BY <1>7, <1>8
  <2>2. \A x, y, z \in S : <<x, y>> \in R /\ <<y, z>> \in R => <<x, z>> \in R
    BY <1>7, <1>8
  <2>3. ASSUME NEW x \in S, NEW y \in S PROVE x = y \/ <<x, y>> \in R \/ <<y, x>> \in R
    <3>1. Position(any, x) \in Nat /\ Position(any, y) \in Nat
      BY <1>7
    <3>2. Position(any, x) = Position(any, y) => x = y
      BY <1>7
    <3>3. \/ Position(any, x) = Position(any, y)
          \/ Position(any, x) < Position(any, y) \/ Position(any, y) < Position(any, x)
      BY ONLY <3>1
    <3> QED BY <1>8, <3>2, <3>3
  <2> QED BY <2>1, <2>2, <2>3 DEF StrictOrder
<1>10. /\ s \in Seq(S) /\ ToSet(s) = S /\ IsInjective(s)
       /\ \A x, y \in S : <<x, y>> \in R <=> Position(s, x) < Position(s, y)
  BY <1>6, <1>9, SortedList
<1>11. MoreInOrder(q, n) = s
  BY DEF MoreInOrder
<1> HIDE DEF any, S, R, s
<1>12. s \in Seq(RankedChunks)
  BY <1>6, <1>10
<1>13. \A j, k \in S : Position(q.matchAny, j) < Position(q.matchAny, k) <=> Position(s, j) < Position(s, k)
  BY <1>7, <1>8, <1>10
<1>14. \A k \in S : /\ k \in ToSet(q.matchAny) /\ k \notin ToSet(AllTerms(q, n))
                    /\ Position(q.matchAny, k) <= n
  BY <1>3, <1>5
<1>15. \A k \in ToSet(q.matchAny) :
         Position(q.matchAny, k) <= n /\ k \notin ToSet(AllTerms(q, n)) => k \in S
  BY <1>3, <1>5
<1> QED BY <1>6, <1>10, <1>11, <1>12, <1>13, <1>14, <1>15 DEF S

LEMMA AnyTermIs ==
    ASSUME NEW q, QueryOk(q), NEW n \in Nat
    PROVE  /\ AnyTerm(q, n) \in Seq(RankedChunks) /\ IsInjective(AnyTerm(q, n))
           /\ Len(AllTerms(q, n)) + Len(AnyTerm(q, n)) <= n
           /\ \A k \in ToSet(AnyTerm(q, n)) :
                k \in ToSet(q.matchAny) /\ k \notin ToSet(AllTerms(q, n)) /\ Position(q.matchAny, k) <= n
           /\ \A j, k \in ToSet(AnyTerm(q, n)) : Position(q.matchAny, j) < Position(q.matchAny, k) =>
                Position(AnyTerm(q, n), j) < Position(AnyTerm(q, n), k)
           /\ \A j \in ToSet(q.matchAny), k \in ToSet(AnyTerm(q, n)) :
                Position(q.matchAny, j) < Position(q.matchAny, k) =>
                  j \in ToSet(AllTerms(q, n)) \/ j \in ToSet(AnyTerm(q, n))
<1> DEFINE s == MoreInOrder(q, n)
           m == n - Len(AllTerms(q, n))
           t == Limit(s, m)
           S == More(q, n)
<1>1. /\ IsFiniteSet(S) /\ S \subseteq RankedChunks
      /\ \A k \in S : /\ k \in ToSet(q.matchAny) /\ k \notin ToSet(AllTerms(q, n))
                      /\ Position(q.matchAny, k) <= n
      /\ \A k \in ToSet(q.matchAny) :
           Position(q.matchAny, k) <= n /\ k \notin ToSet(AllTerms(q, n)) => k \in S
      /\ s \in Seq(RankedChunks) /\ IsInjective(s)
      /\ ToSet(s) = S
      /\ \A j, k \in S : Position(q.matchAny, j) < Position(q.matchAny, k) <=>
           Position(s, j) < Position(s, k)
  BY MoreIs
<1>2. Len(AllTerms(q, n)) \in Nat /\ Len(AllTerms(q, n)) <= n
  <2>1. q.matchAll \in Seq(RankedChunks)
    BY DEF QueryOk
  <2>2. Len(q.matchAll) \in Nat
    BY <2>1
  <2>3. Len(AllTerms(q, n)) = (IF Len(q.matchAll) < n THEN Len(q.matchAll) ELSE n)
    BY AllTermsAre
  <2> QED BY <2>2, <2>3
<1>3. AnyTerm(q, n) = t
  BY DEF AnyTerm, MoreInOrder, More, InOrder
<1>4. m \in Nat
  BY <1>2
<1> HIDE DEF s, m, S
<1>5. t \in Seq(RankedChunks) /\ Len(t) = (IF Len(s) < m THEN Len(s) ELSE m) /\ IsInjective(t)
  BY <1>1, <1>4, LimitIs
<1>6. /\ ToSet(t) = {k \in ToSet(s) : Position(s, k) <= m}
      /\ \A k \in ToSet(t) : Position(t, k) = Position(s, k)
  BY <1>1, <1>4, LimitMembers
<1> HIDE DEF t
<1>7. Len(AllTerms(q, n)) + Len(t) <= n
  <2>1. Len(s) \in Nat
    BY <1>1
  <2> QED BY ONLY <1>2, <1>4, <1>5, <2>1, n \in Nat DEF m
<1>8. \A j, k \in ToSet(t) : Position(q.matchAny, j) < Position(q.matchAny, k) => Position(t, j) < Position(t, k)
  BY <1>1, <1>6
<1>9. ASSUME NEW j \in ToSet(q.matchAny), NEW k \in ToSet(t), Position(q.matchAny, j) < Position(q.matchAny, k)
      PROVE  j \in ToSet(AllTerms(q, n)) \/ j \in ToSet(t)
  <2>1. k \in S /\ Position(q.matchAny, k) <= n /\ Position(s, k) <= m /\ k \in ToSet(q.matchAny)
    BY <1>1, <1>6
  <2>2. Position(q.matchAny, j) \in Nat /\ Position(q.matchAny, k) \in Nat
    <3>1. q.matchAny \in Seq(RankedChunks) /\ Len(q.matchAny) \in Nat
      BY DEF QueryOk
    <3>2. Position(q.matchAny, j) \in 1 .. Len(q.matchAny) /\ Position(q.matchAny, k) \in 1 .. Len(q.matchAny)
      BY <2>1, <3>1, PositionOf
    <3> QED BY <3>1, <3>2
  <2>3. CASE j \notin ToSet(AllTerms(q, n))
    <3>1. j \in S
      BY <1>1, <1>9, <2>1, <2>2, <2>3
    <3>2. Position(s, j) < Position(s, k)
      BY <1>1, <1>9, <2>1, <3>1
    <3>3. Position(s, j) \in 1 .. Len(s) /\ Position(s, k) \in 1 .. Len(s) /\ Len(s) \in Nat
      BY <1>1, <2>1, <3>1, PositionOf
    <3>4. Position(s, j) <= m
      BY ONLY <1>4, <2>1, <3>2, <3>3
    <3> QED BY <1>1, <1>6, <3>1, <3>4
  <2> QED BY <2>3
<1>10. \A k \in ToSet(t) :
         k \in ToSet(q.matchAny) /\ k \notin ToSet(AllTerms(q, n)) /\ Position(q.matchAny, k) <= n
  BY <1>1, <1>6
<1> QED BY <1>3, <1>5, <1>7, <1>8, <1>9, <1>10

LEMMA BM25Is ==
    ASSUME NEW q, QueryOk(q), NEW n \in Nat
    PROVE  /\ BM25Split(q, n) \in Seq(RankedChunks) /\ IsInjective(BM25Split(q, n))
           /\ Len(BM25Split(q, n)) <= n
<1> DEFINE a == AllTerms(q, n)
           b == AnyTerm(q, n)
           c == a \o b
<1>1. a \in Seq(RankedChunks) /\ IsInjective(a)
  BY AllTermsAre
<1>2. b \in Seq(RankedChunks) /\ IsInjective(b) /\ Len(a) + Len(b) <= n /\ \A k \in ToSet(b) : k \notin ToSet(a)
  BY AnyTermIs
<1> HIDE DEF a, b
<1>3. /\ c \in Seq(RankedChunks) /\ Len(c) = Len(a) + Len(b) /\ Len(a) \in Nat /\ Len(b) \in Nat
      /\ \A i \in 1 .. Len(c) : c[i] = IF i <= Len(a) THEN a[i] ELSE b[i - Len(a)]
  BY <1>1, <1>2
<1> HIDE DEF c
<1>4. IsInjective(c)
  <2> SUFFICES ASSUME NEW i \in 1 .. Len(c), NEW j \in 1 .. Len(c), c[i] = c[j] PROVE i = j
    <3>1. DOMAIN c = 1 .. Len(c)
      BY <1>3
    <3> QED BY <3>1 DEF IsInjective
  <2>1. \A x \in 1 .. Len(a) : a[x] \in ToSet(a)
    BY <1>1, PositionOf
  <2>2. \A x \in 1 .. Len(b) : b[x] \in ToSet(b)
    BY <1>2, PositionOf
  <2>3. CASE i <= Len(a) /\ j <= Len(a)
    <3>1. i \in DOMAIN a /\ j \in DOMAIN a /\ a[i] = a[j]
      BY <1>1, <1>3, <2>3
    <3> QED BY <1>1, <3>1 DEF IsInjective
  <2>4. CASE i > Len(a) /\ j > Len(a)
    <3>1. i - Len(a) \in DOMAIN b /\ j - Len(a) \in DOMAIN b /\ b[i - Len(a)] = b[j - Len(a)]
      BY <1>2, <1>3, <2>4
    <3>2. i - Len(a) = j - Len(a)
      BY <1>2, <3>1 DEF IsInjective
    <3> QED BY <1>3, <3>2
  <2>5. CASE i <= Len(a) /\ j > Len(a)
    <3>1. i \in 1 .. Len(a) /\ j - Len(a) \in 1 .. Len(b) /\ a[i] = b[j - Len(a)]
      BY <1>3, <2>5
    <3> QED BY <1>2, <2>1, <2>2, <3>1
  <2>6. CASE i > Len(a) /\ j <= Len(a)
    <3>1. j \in 1 .. Len(a) /\ i - Len(a) \in 1 .. Len(b) /\ a[j] = b[i - Len(a)]
      BY <1>3, <2>6
    <3> QED BY <1>2, <2>1, <2>2, <3>1
  <2> QED BY <1>3, <2>3, <2>4, <2>5, <2>6
<1>5. BM25Split(q, n) = c
  BY DEF BM25Split, a, b, c
<1> QED BY <1>2, <1>3, <1>4, <1>5

-----------------------------------------------------------------------------
(* What the words of a query score.                                        *)
AllList == Ranked(AllTerms(query, FusionDepth), 4, 0)
AnyList == Ranked(AnyTerm(query, FusionDepth), 1, Len(AllTerms(query, FusionDepth)))
Lexical(k) == ScoreIn(AllList, k) + ScoreIn(AnyList, k)

LEMMA ListsAreScored ==
    ASSUME QueryOk(query)
    PROVE  /\ Scored(AllList) /\ AllList.ids = AllTerms(query, FusionDepth)
           /\ AllList.offset = 0 /\ AllList.weight = 4 * Scale
           /\ Scored(AnyList) /\ AnyList.ids = AnyTerm(query, FusionDepth)
           /\ AnyList.offset = Len(AllTerms(query, FusionDepth)) /\ AnyList.weight = Scale
           /\ Scale \in Nat /\ AllList.weight >= Scale
<1> DEFINE a == AllTerms(query, FusionDepth)
           b == AnyTerm(query, FusionDepth)
<1>1. FusionDepth \in Nat /\ FusionDepth <= 200
  BY RankingAssumption
<1>2. a \in Seq(RankedChunks) /\ IsInjective(a)
  BY <1>1, AllTermsAre
<1>3. b \in Seq(RankedChunks) /\ IsInjective(b) /\ Len(a) + Len(b) <= FusionDepth
  BY <1>1, AnyTermIs
<1> HIDE DEF a, b
<1>4. Scale \in Nat
  BY SMT DEF Scale
<1>5. /\ AllList.ids = a /\ AllList.offset = 0 /\ AllList.weight = 4 * Scale
      /\ AnyList.ids = b /\ AnyList.offset = Len(a) /\ AnyList.weight = 1 * Scale
  BY DEF AllList, AnyList, Ranked, a, b
<1>6. Len(a) \in Nat /\ Len(b) \in Nat
  BY <1>2, <1>3
<1>7. 4 * Scale \in Nat /\ 4 * Scale >= Scale /\ 1 * Scale = Scale
  BY <1>4
<1>8. RRFK + 0 + Len(a) < Deepest /\ RRFK + Len(a) + Len(b) < Deepest
  <2> DEFINE m == Len(a)
             n == Len(b)
             d == FusionDepth
  <2>1. m \in Nat /\ n \in Nat /\ m + n <= d /\ d \in Nat /\ d <= 200
    BY <1>1, <1>3, <1>6
  <2> HIDE DEF m, n, d
  <2>2. RRFK + 0 + m < Deepest /\ RRFK + m + n < Deepest
    BY ONLY <2>1, SMT DEF RRFK, Deepest
  <2> QED BY <2>2 DEF m, n
<1> QED BY <1>2, <1>3, <1>4, <1>5, <1>6, <1>7, <1>8 DEF Scored, a, b

(* Any match of all terms scores above any match of some.                  *)
LEMMA HeavyListLeads ==
    ASSUME NEW l, Scored(l), NEW m, Scored(m), m.weight >= Scale, l.weight >= m.weight,
           l.offset = 0, m.offset = Len(l.ids),
           NEW j \in ToSet(l.ids), NEW k \in ToSet(m.ids)
    PROVE  ScoreIn(l, j) > ScoreIn(m, k)
<1> DEFINE x == PlaceIn(l, j)
           y == PlaceIn(m, k)
           V == m.weight
           W == l.weight
           p == Position(l.ids, j)
           r == Position(m.ids, k)
           a == Len(l.ids)
<1>1. p \in 1 .. a /\ x \in Nat /\ x > 0 /\ ScoreIn(l, j) = W \div x
  BY ScoreInIs
<1>2. r \in 1 .. Len(m.ids) /\ y \in Nat /\ y > 0 /\ y < Deepest /\ ScoreIn(m, k) = V \div y
  BY ScoreInIs
<1>3. a \in Nat /\ RRFK \in Nat /\ V \in Nat /\ W \in Nat /\ V >= Scale /\ V <= W
  BY DEF Scored, RRFK
<1>4. r \in Nat /\ r >= 1
  <2>1. Len(m.ids) \in Nat
    BY DEF Scored
  <2> QED BY <1>2, <2>1
<1>5. x = RRFK + 0 + p /\ y = RRFK + a + r
  BY DEF PlaceIn
<1> HIDE DEF x, y, V, W, p, r, a
<1>6. x < y
  BY ONLY <1>1, <1>3, <1>4, <1>5
<1>7. y <= Deepest
  BY ONLY <1>2, SMT DEF Deepest
<1>8. V \div y < V \div x
  BY ONLY <1>1, <1>2, <1>3, <1>6, <1>7, Farther
<1>9. V \div x <= W \div x
  BY ONLY <1>1, <1>3, Heavier
<1>10. V \div y \in Nat /\ V \div x \in Nat /\ W \div x \in Nat
  BY ONLY <1>1, <1>2, <1>3, Quotient
<1> QED BY ONLY <1>1, <1>2, <1>8, <1>9, <1>10

LEMMA LexicalScores ==
    ASSUME QueryOk(query)
    PROVE  /\ \A k : Lexical(k) \in Nat
           /\ \A k : k \notin ToSet(AllList.ids) /\ k \notin ToSet(AnyList.ids) => Lexical(k) = 0
           /\ \A j, k : j # k /\ Lexically(query, j, k) =>
                /\ Lexical(j) >= Lexical(k)
                /\ (k \in ToSet(AllList.ids) \/ k \in ToSet(AnyList.ids)) => Lexical(j) > Lexical(k)
<1> DEFINE A == ToSet(AllList.ids)
           B == ToSet(AnyList.ids)
           all == query.matchAll
           any == query.matchAny
           n == FusionDepth
<1>1. n \in Nat
  BY RankingAssumption
<1>2. /\ Scored(AllList) /\ AllList.ids = AllTerms(query, n) /\ AllList.weight >= Scale
      /\ Scored(AnyList) /\ AnyList.ids = AnyTerm(query, n) /\ AnyList.weight >= Scale
  BY ListsAreScored
<1>3. /\ \A k : ScoreIn(AllList, k) \in Nat /\ ScoreIn(AnyList, k) \in Nat
      /\ \A k : (k \notin A => ScoreIn(AllList, k) = 0) /\ (k \notin B => ScoreIn(AnyList, k) = 0)
  BY <1>2, ScoreInIs
<1>4. /\ \A j, k \in A : Position(AllList.ids, j) < Position(AllList.ids, k) =>
                           ScoreIn(AllList, j) > ScoreIn(AllList, k)
      /\ \A j, k \in B : Position(AnyList.ids, j) < Position(AnyList.ids, k) =>
                           ScoreIn(AnyList, j) > ScoreIn(AnyList, k)
  BY <1>2, RanksScore
<1>5. /\ all \in Seq(RankedChunks) /\ IsInjective(all) /\ Len(all) \in Nat
      /\ any \in Seq(RankedChunks) /\ IsInjective(any) /\ ToSet(all) \subseteq ToSet(any)
  BY DEF QueryOk
<1>6. /\ Len(AllTerms(query, n)) = (IF Len(all) < n THEN Len(all) ELSE n)
      /\ A = {k \in ToSet(all) : Position(all, k) <= n}
      /\ \A k \in A : Position(AllList.ids, k) = Position(all, k)
  BY <1>1, <1>2, AllTermsAre
<1>7. /\ AnyList.ids \in Seq(RankedChunks) /\ Len(AllTerms(query, n)) + Len(AnyList.ids) <= n
      /\ \A k \in B : k \in ToSet(any) /\ k \notin A
      /\ \A j, k \in B : Position(any, j) < Position(any, k) =>
           Position(AnyList.ids, j) < Position(AnyList.ids, k)
      /\ \A j \in ToSet(any), k \in B : Position(any, j) < Position(any, k) => j \in A \/ j \in B
  BY <1>1, <1>2, AnyTermIs
<1>8. /\ \A k : Contains(all, k) <=> k \in ToSet(all)
      /\ \A k : Contains(any, k) <=> k \in ToSet(any)
  BY <1>5, PositionOf
<1>9. /\ \A j, k : Before(all, j, k) =>
                     j \in ToSet(all) /\ k \in ToSet(all) /\ Position(all, j) < Position(all, k)
      /\ \A j, k : Before(any, j, k) =>
                     j \in ToSet(any) /\ k \in ToSet(any) /\ Position(any, j) < Position(any, k)
  <2>1. \A j, k : (Before(all, j, k) => j \in ToSet(all) /\ k \in ToSet(all))
               /\ (Before(any, j, k) => j \in ToSet(any) /\ k \in ToSet(any))
    BY DEF Before, ToSet
  <2> HIDE DEF all, any
  <2> QED BY <1>5, <2>1, InFront
<1>10. \A k \in ToSet(all) : Position(all, k) \in 1 .. Len(all)
  BY <1>5, PositionOf
<1>11. \A j \in A, k \in B : ScoreIn(AllList, j) > ScoreIn(AnyList, k)
  <2>1. AllList.offset = 0 /\ AllList.weight >= AnyList.weight /\ AnyList.offset = Len(AllList.ids)
    BY ListsAreScored
  <2> QED BY <1>2, <2>1, HeavyListLeads
<1>12. B # {} => A = ToSet(all)
  <2> SUFFICES ASSUME NEW k \in B PROVE A = ToSet(all)
    OBVIOUS
  <2>1. Len(AnyList.ids) \in Nat /\ Len(AnyList.ids) >= 1
    <3>1. Position(AnyList.ids, k) \in 1 .. Len(AnyList.ids)
      BY <1>7, PositionOf
    <3> QED BY <1>7, <3>1
  <2>2. Len(all) <= n
    <3> DEFINE a == Len(AllTerms(query, n))
               b == Len(AnyList.ids)
               m == Len(all)
    <3>1. n \in Nat /\ m \in Nat /\ b \in Nat /\ b >= 1 /\ a = (IF m < n THEN m ELSE n) /\ a + b <= n
      BY <1>1, <1>5, <1>6, <1>7, <2>1
    <3> HIDE DEF a, b, m, n
    <3>2. m <= n
      BY ONLY <3>1
    <3> QED BY <3>2 DEF m
  <2>3. \A i \in ToSet(all) : Position(all, i) <= n
    BY <1>1, <1>5, <1>10, <2>2
  <2> QED BY <1>6, <2>3
<1> HIDE DEF A, B, all, any, n
<1>13. ASSUME NEW k PROVE Lexical(k) \in Nat
  BY <1>3 DEF Lexical
<1>14. ASSUME NEW k, k \notin A, k \notin B PROVE Lexical(k) = 0
  <2>1. ScoreIn(AllList, k) = 0 /\ ScoreIn(AnyList, k) = 0
    BY <1>3, <1>14
  <2> QED BY <2>1 DEF Lexical
<1>15. ASSUME NEW j, NEW k, j # k, Lexically(query, j, k)
       PROVE  Lexical(j) >= Lexical(k) /\ (k \in A \/ k \in B => Lexical(j) > Lexical(k))
  <2>1. \/ k \notin ToSet(any)
        \/ j \in ToSet(all) /\ k \notin ToSet(all)
        \/ j \in ToSet(all) /\ k \in ToSet(all) /\ Position(all, j) < Position(all, k)
        \/ k \notin ToSet(all) /\ j \in ToSet(any) /\ k \in ToSet(any) /\ Position(any, j) < Position(any, k)
    BY <1>8, <1>9, <1>15 DEF Lexically, all, any
  <2>2. CASE k \in A
    <3>1. j \in ToSet(all) /\ k \in ToSet(all) /\ Position(all, j) < Position(all, k)
      BY <1>5, <1>6, <2>1, <2>2
    <3>2. Position(all, j) \in Nat /\ Position(all, k) \in Nat /\ Position(all, k) <= n
      BY <1>5, <1>6, <1>10, <2>2, <3>1
    <3>3. j \in A
      BY <1>1, <1>6, <3>1, <3>2
    <3>4. ScoreIn(AllList, j) > ScoreIn(AllList, k)
      BY <1>4, <1>6, <2>2, <3>1, <3>3
    <3>5. ScoreIn(AnyList, k) = 0
      BY <1>3, <1>7, <2>2
    <3> QED BY <1>3, <3>4, <3>5 DEF Lexical
  <2>3. CASE k \in B
    <3>1. ScoreIn(AllList, k) = 0 /\ k \in ToSet(any) /\ k \notin ToSet(all)
      BY <1>3, <1>7, <1>12, <2>3
    <3>2. CASE j \in A
      <4>1. ScoreIn(AllList, j) > ScoreIn(AnyList, k)
        BY <1>11, <2>3, <3>2
      <4> QED BY <1>3, <3>1, <4>1 DEF Lexical
    <3>3. CASE j \in B
      <4>1. j \notin ToSet(all)
        BY <1>7, <1>12, <2>3, <3>3
      <4>2. Position(any, j) < Position(any, k)
        BY <2>1, <3>1, <4>1
      <4>3. ScoreIn(AnyList, j) > ScoreIn(AnyList, k)
        BY <1>4, <1>7, <2>3, <3>3, <4>2
      <4> QED BY <1>3, <3>1, <4>3 DEF Lexical
    <3>4. j \in A \/ j \in B
      BY <1>7, <1>12, <2>1, <2>3, <3>1
    <3> QED BY <3>2, <3>3, <3>4
  <2>4. CASE k \notin A /\ k \notin B
    <3>1. Lexical(k) = 0
      BY <1>14, <2>4
    <3> QED BY <1>13, <2>4, <3>1
  <2> QED BY <2>2, <2>3, <2>4
<1> QED BY <1>13, <1>14, <1>15 DEF A, B

-----------------------------------------------------------------------------
(* The heap of the nearest vectors.                                        *)
Vectors(n) == {query.vectors[i] : i \in 1 .. n}

(* Records that are told apart by their ids.                               *)
Scores(hs) ==
    /\ IsFiniteSet(hs) /\ \A h \in hs : h.id \in RankedChunks /\ h.score \in Int
    /\ \A g, h \in hs : g.id = h.id => g = h

LEMMA ByScore ==
    ASSUME NEW hs, Scores(hs), NEW R,
           \A g, h \in hs : <<g, h>> \in R <=> (g.score > h.score \/ (g.score = h.score /\ g.id < h.id))
    PROVE  StrictOrder(hs, R)
<1>1. \A h \in hs : h.id \in Nat /\ h.score \in Int
  BY RankingAssumption DEF Scores
<1>2. \A x \in hs : <<x, x>> \notin R
  BY <1>1
<1>3. ASSUME NEW x \in hs, NEW y \in hs, NEW z \in hs, <<x, y>> \in R, <<y, z>> \in R
      PROVE  <<x, z>> \in R
  <2>1. /\ x.id \in Nat /\ y.id \in Nat /\ z.id \in Nat /\ x.score \in Int /\ y.score \in Int /\ z.score \in Int
    BY <1>1
  <2>2. /\ (x.score > y.score \/ (x.score = y.score /\ x.id < y.id))
        /\ (y.score > z.score \/ (y.score = z.score /\ y.id < z.id))
    BY <1>3
  <2>3. x.score > z.score \/ (x.score = z.score /\ x.id < z.id)
    BY ONLY <2>1, <2>2
  <2> QED BY <2>3
<1>4. ASSUME NEW x \in hs, NEW y \in hs PROVE x = y \/ <<x, y>> \in R \/ <<y, x>> \in R
  <2>1. x.id \in Nat /\ y.id \in Nat /\ x.score \in Int /\ y.score \in Int /\ (x.id = y.id => x = y)
    BY <1>1 DEF Scores
  <2>2. \/ x.id = y.id
        \/ (x.score > y.score \/ (x.score = y.score /\ x.id < y.id))
        \/ (y.score > x.score \/ (y.score = x.score /\ y.id < x.id))
    BY ONLY <2>1
  <2> QED BY <2>1, <2>2
<1> QED BY <1>2, <1>3, <1>4 DEF StrictOrder

LEMMA WorstIs ==
    ASSUME NEW hs, Scores(hs), hs # {}
    PROVE  Worst(hs) \in hs /\ \A g \in hs : Worst(hs).score <= g.score
<1> DEFINE R == {x \in hs \X hs : \/ x[1].score > x[2].score
                                  \/ x[1].score = x[2].score /\ x[1].id < x[2].id}
           s == SortBy(hs, R)
           n == Cardinality(hs)
<1>1. StrictOrder(hs, R)
  <2>1. \A g, h \in hs : <<g, h>> \in R <=> (g.score > h.score \/ (g.score = h.score /\ g.id < h.id))
    OBVIOUS
  <2> HIDE DEF R
  <2> QED BY <2>1, ByScore
<1>2. \A g, h \in hs : <<g, h>> \in R => (g.score > h.score \/ (g.score = h.score /\ g.id < h.id))
  OBVIOUS
<1>3. IsFiniteSet(hs)
  BY DEF Scores
<1> HIDE DEF R
<1>4. /\ s \in [1 .. n -> hs] /\ n \in Nat /\ \A x \in hs : \E i \in 1 .. n : s[i] = x
      /\ \A i, j \in 1 .. n : i < j <=> <<s[i], s[j]>> \in R
  BY <1>1, <1>3, Sorted
<1> HIDE DEF s, n
<1>5. n \in 1 .. n /\ s[n] \in hs
  <2>1. PICK i \in 1 .. n : TRUE
    BY <1>4
  <2> QED BY <1>4, <2>1
<1>6. ASSUME NEW g \in hs
      PROVE  s[n].score < g.score \/ (s[n].score = g.score /\ s[n].id >= g.id)
  <2>1. PICK i \in 1 .. n : s[i] = g
    BY <1>4
  <2>2. /\ g.id \in Nat /\ s[n].id \in Nat /\ g.score \in Int /\ s[n].score \in Int
    BY <1>5, RankingAssumption DEF Scores
  <2>3. CASE i = n
    BY <2>1, <2>2, <2>3
  <2>4. CASE i < n
    <3>1. g.score > s[n].score \/ (g.score = s[n].score /\ g.id < s[n].id)
      BY <1>2, <1>4, <1>5, <2>1, <2>4
    <3> QED BY ONLY <2>2, <3>1
  <2> QED BY <1>4, <2>1, <2>3, <2>4
<1>7. \E h \in hs : \A g \in hs : h.score < g.score \/ (h.score = g.score /\ h.id >= g.id)
  BY <1>5, <1>6
<1>8. /\ Worst(hs) \in hs
      /\ \A g \in hs : Worst(hs).score < g.score \/ (Worst(hs).score = g.score /\ Worst(hs).id >= g.id)
  BY <1>7 DEF Worst
<1>9. \A g \in hs : g.score \in Int
  BY DEF Scores
<1> QED BY <1>8, <1>9

LEMMA NearestIs ==
    ASSUME Scores(near)
    PROVE  /\ Nearest \in Seq(RankedChunks) /\ IsInjective(Nearest)
           /\ Len(Nearest) = Cardinality(near) /\ ToSet(Nearest) = {h.id : h \in near}
           /\ \A g, h \in near : g.score > h.score =>
                Position(Nearest, g.id) < Position(Nearest, h.id)
<1> DEFINE R == {x \in near \X near : \/ x[1].score > x[2].score
                                      \/ x[1].score = x[2].score /\ x[1].id < x[2].id}
           s == SortBy(near, R)
           t == [i \in DOMAIN s |-> s[i].id]
<1>1. \A g, h \in near : <<g, h>> \in R <=> (g.score > h.score \/ (g.score = h.score /\ g.id < h.id))
  OBVIOUS
<1>2. Nearest = t
  BY DEF Nearest
<1> HIDE DEF R
<1>3. /\ s \in Seq(near) /\ Len(s) = Cardinality(near) /\ ToSet(s) = near /\ IsInjective(s)
      /\ \A g, h \in near : <<g, h>> \in R <=> Position(s, g) < Position(s, h)
  <2>1. StrictOrder(near, R)
    BY <1>1, ByScore
  <2>2. IsFiniteSet(near)
    BY DEF Scores
  <2> QED BY <2>1, <2>2, SortedList
<1> HIDE DEF s
<1>4. DOMAIN s = 1 .. Len(s) /\ Len(s) \in Nat /\ \A i \in 1 .. Len(s) : s[i] \in near /\ s[i].id \in RankedChunks
  BY <1>3 DEF Scores
<1>5. t = [i \in 1 .. Len(s) |-> s[i].id]
  BY <1>4
<1>6. t \in Seq(RankedChunks) /\ Len(t) = Len(s) /\ DOMAIN t = 1 .. Len(s) /\ \A i \in 1 .. Len(s) : t[i] = s[i].id
  BY <1>4, <1>5
<1> HIDE DEF t
<1>7. IsInjective(t)
  <2> SUFFICES ASSUME NEW i \in 1 .. Len(s), NEW j \in 1 .. Len(s), t[i] = t[j] PROVE i = j
    BY <1>6 DEF IsInjective
  <2>1. s[i] \in near /\ s[j] \in near /\ s[i].id = s[j].id
    BY <1>4, <1>6
  <2>2. s[i] = s[j]
    BY <2>1 DEF Scores
  <2> QED BY <1>3, <1>4, <2>2 DEF IsInjective
<1>8. \A h \in near : Position(s, h) \in 1 .. Len(s) /\ s[Position(s, h)] = h
  BY <1>3, PositionOf
<1>9. ToSet(t) = {h.id : h \in near}
  <2>1. \A i \in 1 .. Len(s) : t[i] \in {h.id : h \in near}
    BY <1>4, <1>6
  <2>2. \A h \in near : \E i \in 1 .. Len(s) : t[i] = h.id
    BY <1>6, <1>8
  <2> QED BY <1>6, <2>1, <2>2 DEF ToSet
<1>10. ASSUME NEW h \in near PROVE Position(t, h.id) = Position(s, h)
  <2>1. Position(s, h) \in 1 .. Len(t) /\ t[Position(s, h)] = h.id
    BY <1>6, <1>8
  <2>2. \A i \in 1 .. Len(t) : Position(t, t[i]) = i
    BY <1>6, <1>7, PositionOf
  <2> QED BY <2>1, <2>2
<1>11. \A g, h \in near : g.score > h.score => Position(t, g.id) < Position(t, h.id)
  BY <1>1, <1>3, <1>10
<1> QED BY <1>2, <1>3, <1>6, <1>7, <1>9, <1>11

(* Once n vectors were scanned the heap holds the best: what it has left   *)
(* out is not more similar than anything it holds, and it is full.         *)
HeapOf(n) ==
    /\ near \subseteq Vectors(n) /\ Cardinality(near) <= Depth
    /\ \A h \in Vectors(n) \ near :
          Cardinality(near) = Depth /\ \A g \in near : h.score <= g.score

LEMMA VectorsAre ==
    ASSUME QueryOk(query), NEW n \in 0 .. Len(query.vectors)
    PROVE  Scores(Vectors(n)) /\ \A hs \in SUBSET Vectors(n) : Scores(hs) /\ Cardinality(hs) \in Nat
<1> DEFINE vs == query.vectors
<1>1. /\ vs \in Seq([id : RankedChunks, score : Int])
      /\ \A i, j \in DOMAIN vs : vs[i].id = vs[j].id => i = j
  BY DEF QueryOk
<1> HIDE DEF vs
<1>2. /\ Len(vs) \in Nat /\ n \in Nat /\ n <= Len(vs)
      /\ \A i \in 1 .. n : i \in DOMAIN vs /\ vs[i].id \in RankedChunks /\ vs[i].score \in Int
  <2> DEFINE X == [id : RankedChunks, score : Int]
  <2>1. vs \in Seq(X)
    BY <1>1
  <2>2. \A x \in X : x.id \in RankedChunks /\ x.score \in Int
    OBVIOUS
  <2> HIDE DEF X
  <2>3. Len(vs) \in Nat /\ DOMAIN vs = 1 .. Len(vs) /\ \A i \in 1 .. Len(vs) : vs[i] \in X
    BY <2>1
  <2>4. n \in Nat /\ n <= Len(vs)
    BY <2>3 DEF vs
  <2>5. \A i \in 1 .. n : i \in 1 .. Len(vs)
    BY <2>3, <2>4
  <2> QED BY <2>2, <2>3, <2>4, <2>5
<1>3. Vectors(n) = {vs[i] : i \in 1 .. n}
  BY DEF Vectors, vs
<1>4. IsFiniteSet(Vectors(n))
  <2> DEFINE f == [i \in 1 .. n |-> vs[i]]
  <2>1. f \in Surjection(1 .. n, Vectors(n))
    BY <1>3 DEF Surjection
  <2>2. IsFiniteSet(1 .. n)
    <3>1. 1 \in Int /\ n \in Int
      BY <1>2
    <3> QED BY ONLY <3>1, FS_Interval
  <2> HIDE DEF f
  <2> QED BY <2>1, <2>2, FS_Surjection
<1>5. Scores(Vectors(n))
  BY <1>1, <1>2, <1>3, <1>4 DEF Scores
<1>6. ASSUME NEW hs \in SUBSET Vectors(n) PROVE Scores(hs) /\ Cardinality(hs) \in Nat
  <2>1. IsFiniteSet(hs) /\ Cardinality(hs) \in Nat
    BY <1>4, FS_Subset, FS_CardinalityType
  <2> QED BY <1>5, <2>1 DEF Scores
<1> QED BY <1>5, <1>6

LEMMA HeapGrows ==
    ASSUME QueryOk(query), seen \in 0 .. Len(query.vectors), HeapOf(seen), VectorSearch
    PROVE  HeapOf(seen)' /\ seen' \in 0 .. Len(query.vectors) /\ query' = query
<1> DEFINE n == Len(query.vectors)
           h == query.vectors[seen + 1]
           w == Worst(near)
<1>1. /\ seen < n /\ seen' = seen + 1 /\ query' = query
      /\ near' = IF Cardinality(near) < Depth THEN near \union {h}
                 ELSE IF h.score > w.score THEN (near \ {w}) \union {h} ELSE near
  BY DEF VectorSearch
<1>2. n \in Nat /\ seen \in Nat /\ seen + 1 \in 0 .. n /\ seen + 1 \in 1 .. n
  <2>1. query.vectors \in Seq([id : RankedChunks, score : Int])
    BY DEF QueryOk
  <2>2. n \in Nat
    BY <2>1
  <2> QED BY <1>1, <2>2
<1>3. Depth' = Depth /\ Depth \in Nat /\ Depth >= 1
  <2>1. Depth' = Depth
    BY <1>1 DEF Depth
  <2>2. query.topK \in 1 .. 150 /\ FusionDepth \in 1 .. 200
    BY RankingAssumption DEF QueryOk
  <2> DEFINE k == query.topK
  <2>3. k \in 1 .. 150
    BY <2>2
  <2> HIDE DEF k
  <2>4. 3 * k \in Nat /\ 3 * k >= 1 /\ FusionDepth \in Nat /\ FusionDepth >= 1
    BY ONLY <2>2, <2>3
  <2> QED BY <2>1, <2>4 DEF Depth, k
<1>4. Vectors(seen)' = Vectors(seen) \union {h} /\ h \notin Vectors(seen)
  <2>1. Vectors(seen)' = {query.vectors[i] : i \in 1 .. seen + 1}
    BY <1>1 DEF Vectors
  <2>2. \A i \in 1 .. seen + 1 : i \in 1 .. seen \/ i = seen + 1
    BY <1>2
  <2>3. \A i \in 1 .. seen : i \in 1 .. seen + 1 /\ i # seen + 1 /\ i \in 1 .. n
    BY <1>2
  <2>4. seen + 1 \in 1 .. seen + 1
    BY <1>2
  <2>5. Vectors(seen)' = Vectors(seen) \union {h}
    BY <2>1, <2>2, <2>3, <2>4 DEF Vectors
  <2>6. ASSUME NEW i \in 1 .. seen PROVE query.vectors[i] # h
    <3>1. i \in DOMAIN query.vectors /\ seen + 1 \in DOMAIN query.vectors
      <4>1. query.vectors \in Seq([id : RankedChunks, score : Int])
        BY DEF QueryOk
      <4> QED BY <1>2, <2>3, <4>1
    <3>2. query.vectors[i].id # query.vectors[seen + 1].id
      BY <2>3, <3>1 DEF QueryOk
    <3> QED BY <3>2
  <2> QED BY <2>5, <2>6 DEF Vectors
<1>5. /\ Scores(Vectors(seen)) /\ Scores(near) /\ Cardinality(near) \in Nat
      /\ near \subseteq Vectors(seen) /\ IsFiniteSet(near) /\ h \notin near
  BY <1>4, VectorsAre DEF HeapOf, Scores
<1>6. h.score \in Int
  <2>1. Scores(Vectors(seen + 1))
    BY <1>2, VectorsAre
  <2>2. h \in Vectors(seen + 1)
    BY <1>2 DEF Vectors
  <2> QED BY <2>1, <2>2 DEF Scores
<1> HIDE DEF n, h, w
<1>7. \A g \in Vectors(seen) : g.score \in Int
  BY <1>5 DEF Scores
<1>8. CASE Cardinality(near) < Depth
  <2>1. near = Vectors(seen)
    <3>1. Cardinality(near) # Depth
      BY ONLY <1>3, <1>5, <1>8
    <3>2. Vectors(seen) \ near = {}
      BY <3>1 DEF HeapOf
    <3> QED BY <1>5, <3>2
  <2>2. near' = near \union {h}
    BY <1>1, <1>8
  <2>3. Cardinality(near') = Cardinality(near) + 1
    BY <1>5, <2>2, FS_AddElement
  <2>4. Cardinality(near') <= Depth
    BY <1>3, <1>5, <1>8, <2>3
  <2>5. Vectors(seen)' = near'
    BY <1>4, <2>1, <2>2
  <2>6. HeapOf(seen)'
    BY <1>3, <2>4, <2>5 DEF HeapOf
  <2> QED BY <1>1, <1>2, <2>6 DEF n
<1>9. CASE ~(Cardinality(near) < Depth)
  <2>1. Cardinality(near) = Depth
    BY <1>3, <1>5, <1>9 DEF HeapOf
  <2>2. near # {}
    <3>1. Cardinality({}) = 0
      BY FS_EmptySet
    <3>2. Cardinality(near) # 0
      BY ONLY <1>3, <2>1
    <3> QED BY <3>1, <3>2
  <2>3. w \in near /\ \A g \in near : w.score <= g.score
    BY <1>5, <2>2, WorstIs DEF w
  <2>4. w.score \in Int
    BY <1>5, <1>7, <2>3
  <2>5. CASE h.score > w.score
    <3>1. near' = (near \ {w}) \union {h}
      BY <1>1, <1>9, <2>5
    <3>2. IsFiniteSet(near \ {w}) /\ Cardinality(near \ {w}) = Cardinality(near) - 1
      BY <1>5, <2>3, FS_RemoveElement
    <3>3. Cardinality(near') = Cardinality(near \ {w}) + 1
      BY <1>5, <3>1, <3>2, FS_AddElement
    <3>4. Cardinality(near') = Depth
      BY ONLY <1>3, <2>1, <3>2, <3>3
    <3>5. near' \subseteq Vectors(seen)'
      BY <1>4, <1>5, <3>1
    <3>6. ASSUME NEW x \in Vectors(seen)' \ near', NEW g \in near' PROVE x.score <= g.score
      <4>1. x \in Vectors(seen) /\ (x = w \/ x \notin near) /\ (g = h \/ g \in near)
        BY <1>4, <3>1
      <4>2. x.score \in Int /\ (g \in near => g.score \in Int)
        BY <1>5, <1>7, <4>1
      <4>3. x.score <= w.score
        BY <2>3, <2>4, <4>1 DEF HeapOf
      <4> QED BY <1>6, <2>3, <2>4, <2>5, <4>1, <4>2, <4>3
    <3>7. HeapOf(seen)'
      BY <1>3, <3>4, <3>5, <3>6 DEF HeapOf
    <3> QED BY <1>1, <1>2, <3>7 DEF n
  <2>6. CASE ~(h.score > w.score)
    <3>1. near' = near
      BY <1>1, <1>9, <2>6
    <3>2. \A g \in near : h.score <= g.score
      BY <1>5, <1>6, <1>7, <2>3, <2>4, <2>6
    <3>3. \A x \in Vectors(seen) \ near : \A g \in near : x.score <= g.score
      BY DEF HeapOf
    <3>4. \A x \in Vectors(seen)' \ near' : \A g \in near' : x.score <= g.score
      BY <1>4, <3>1, <3>2, <3>3
    <3>5. HeapOf(seen)'
      BY <1>3, <1>4, <1>5, <2>1, <3>1, <3>4 DEF HeapOf
    <3> QED BY <1>1, <1>2, <3>5 DEF n
  <2> QED BY <2>5, <2>6
<1> QED BY <1>8, <1>9

-----------------------------------------------------------------------------
(* A hybrid search.                                                        *)
NearList == Ranked(Nearest, 4, 0)
Lists    == <<AllList, AnyList, NearList>>

LEMMA UnionAtMost ==
    ASSUME NEW S, IsFiniteSet(S), NEW T, IsFiniteSet(T)
    PROVE  /\ IsFiniteSet(S \union T) /\ Cardinality(S \union T) \in Nat
           /\ Cardinality(S) \in Nat /\ Cardinality(T) \in Nat
           /\ Cardinality(S \union T) <= Cardinality(S) + Cardinality(T)
<1>1. IsFiniteSet(S \union T) /\ IsFiniteSet(S \intersect T)
  BY FS_Union, FS_Intersection
<1>2. /\ Cardinality(S) \in Nat /\ Cardinality(T) \in Nat
      /\ Cardinality(S \union T) \in Nat /\ Cardinality(S \intersect T) \in Nat
  BY <1>1, FS_CardinalityType
<1>3. Cardinality(S \union T) = Cardinality(S) + Cardinality(T) - Cardinality(S \intersect T)
  BY FS_Union
<1> QED BY ONLY <1>1, <1>2, <1>3

LEMMA AllVectors ==
    ASSUME QueryOk(query)
    PROVE  Len(query.vectors) \in Nat /\ Vectors(Len(query.vectors)) = ToSet(query.vectors)
<1>1. query.vectors \in Seq([id : RankedChunks, score : Int])
  BY DEF QueryOk
<1>2. DOMAIN query.vectors = 1 .. Len(query.vectors) /\ Len(query.vectors) \in Nat
  BY <1>1
<1> QED BY <1>2 DEF Vectors, ToSet

LEMMA NearListIsScored ==
    ASSUME QueryOk(query), query.mode = "hybrid", HeapOf(Len(query.vectors))
    PROVE  /\ Scored(NearList) /\ NearList.weight >= Scale /\ NearList.ids = Nearest
           /\ Scores(near) /\ near \subseteq ToSet(query.vectors) /\ Scores(ToSet(query.vectors))
           /\ Cardinality(near) \in Nat /\ Cardinality(near) <= FusionDepth
           /\ \A h \in ToSet(query.vectors) \ near : \A g \in near : h.score <= g.score
<1>1. Len(query.vectors) \in Nat /\ Vectors(Len(query.vectors)) = ToSet(query.vectors)
  BY AllVectors
<1>2. Len(query.vectors) \in 0 .. Len(query.vectors)
  BY <1>1
<1>3. Scores(ToSet(query.vectors)) /\ \A hs \in SUBSET ToSet(query.vectors) : Scores(hs) /\ Cardinality(hs) \in Nat
  BY <1>1, <1>2, VectorsAre
<1>4. /\ near \subseteq ToSet(query.vectors) /\ Cardinality(near) <= FusionDepth
      /\ \A h \in ToSet(query.vectors) \ near : \A g \in near : h.score <= g.score
  BY <1>1 DEF HeapOf, Depth
<1>5. Scores(near) /\ Cardinality(near) \in Nat
  BY <1>3, <1>4
<1>6. Nearest \in Seq(RankedChunks) /\ IsInjective(Nearest) /\ Len(Nearest) = Cardinality(near)
  BY <1>5, NearestIs
<1>7. NearList.ids = Nearest /\ NearList.weight = 4 * Scale /\ NearList.offset = 0
  BY DEF NearList, Ranked
<1>8. Scale \in Nat
  BY SMT DEF Scale
<1>9. 4 * Scale \in Nat /\ 4 * Scale >= Scale
  BY ONLY <1>8
<1>10. RRFK + 0 + Len(Nearest) < Deepest
  <2>1. FusionDepth \in 1 .. 200
    BY RankingAssumption
  <2> DEFINE n == Len(Nearest)
             d == FusionDepth
  <2>2. n \in Nat /\ n <= d /\ d \in 1 .. 200
    BY <1>4, <1>5, <1>6, <2>1
  <2> HIDE DEF n, d
  <2>3. RRFK + 0 + n < Deepest
    BY ONLY <2>2, SMT DEF RRFK, Deepest
  <2> QED BY <2>3 DEF n
<1> QED BY <1>3, <1>4, <1>5, <1>6, <1>7, <1>9, <1>10 DEF Scored

(* The words and the vector each rank j no lower, and one of them higher.  *)
LEMMA VectorScores ==
    ASSUME QueryOk(query), query.mode = "hybrid", HeapOf(Len(query.vectors)),
           NEW j, NEW k, Nearer(query, j, k)
    PROVE  /\ ScoreIn(NearList, j) >= ScoreIn(NearList, k)
           /\ k \in ToSet(NearList.ids) => ScoreIn(NearList, j) > ScoreIn(NearList, k)
<1>1. PICK g \in ToSet(query.vectors), h \in ToSet(query.vectors) :
         g.id = j /\ h.id = k /\ g.score > h.score
  BY DEF Nearer
<1>2. /\ Scored(NearList) /\ NearList.weight >= Scale /\ NearList.ids = Nearest
      /\ Scores(near) /\ near \subseteq ToSet(query.vectors) /\ Scores(ToSet(query.vectors))
      /\ \A x \in ToSet(query.vectors) \ near : \A y \in near : x.score <= y.score
  BY NearListIsScored
<1>3. /\ ToSet(Nearest) = {x.id : x \in near}
      /\ \A x, y \in near : x.score > y.score => Position(Nearest, x.id) < Position(Nearest, y.id)
  BY <1>2, NearestIs
<1>4. ScoreIn(NearList, j) \in Nat /\ ScoreIn(NearList, k) \in Nat
  BY <1>2, ScoreInIs
<1>5. CASE h \in near
  <2>1. g.score \in Int /\ h.score \in Int
    BY <1>2 DEF Scores
  <2>2. g \in near
    BY <1>1, <1>2, <1>5, <2>1
  <2>3. Position(NearList.ids, j) < Position(NearList.ids, k)
    BY <1>1, <1>2, <1>3, <1>5, <2>2
  <2>4. j \in ToSet(NearList.ids) /\ k \in ToSet(NearList.ids)
    BY <1>1, <1>2, <1>3, <1>5, <2>2
  <2>5. ScoreIn(NearList, j) > ScoreIn(NearList, k)
    BY <1>2, <2>3, <2>4, RanksScore
  <2> QED BY <1>4, <2>5
<1>6. CASE h \notin near
  <2>1. k \notin ToSet(NearList.ids)
    <3>1. \A x \in near : x.id # h.id
      BY <1>2, <1>6 DEF Scores
    <3> QED BY <1>1, <1>2, <1>3, <3>1
  <2>2. ScoreIn(NearList, k) = 0
    BY <1>2, <2>1, ScoreInIs
  <2> QED BY <1>4, <2>1, <2>2
<1> QED BY <1>5, <1>6

LEMMA HybridIs ==
    ASSUME QueryOk(query), query.mode = "hybrid", HeapOf(Len(query.vectors))
    PROVE  /\ Hybrid \in Seq(RankedChunks) /\ IsInjective(Hybrid) /\ Len(Hybrid) <= 400
           /\ \A j, k \in ToSet(Hybrid) :
                j # k /\ Lexically(query, j, k) /\ Nearer(query, j, k) => Before(Hybrid, j, k)
<1> DEFINE A == ToSet(AllList.ids)
           B == ToSet(AnyList.ids)
           C == ToSet(NearList.ids)
           ids == A \union B \union C
           V(k) == ScoreIn(NearList, k)
<1>1. Hybrid = RRFWeighted(Lists)
  BY DEF Hybrid, Lists, AllList, AnyList, NearList
<1>2. Lists[1] = AllList /\ Lists[2] = AnyList /\ Lists[3] = NearList
  BY DEF Lists
<1>3. /\ Scored(AllList) /\ AllList.ids = AllTerms(query, FusionDepth)
      /\ Scored(AnyList) /\ AnyList.ids = AnyTerm(query, FusionDepth)
  BY ListsAreScored
<1>4. /\ Scored(NearList) /\ NearList.ids = Nearest /\ Scores(near)
      /\ Cardinality(near) \in Nat /\ Cardinality(near) <= FusionDepth
  BY NearListIsScored
<1>5. ASSUME NEW k PROVE Lexical(k) \in Nat /\ V(k) \in Nat
  <2>1. Lexical(k) \in Nat
    BY LexicalScores
  <2>2. V(k) \in Nat
    BY <1>4, ScoreInIs
  <2> QED BY <2>1, <2>2
<1>6. \A k : Score(Lists, k) = Lexical(k) + V(k)
  BY <1>2 DEF Score, Lexical
<1>7. /\ IsFiniteSet(A) /\ A \subseteq RankedChunks /\ Cardinality(A) = Len(AllList.ids)
      /\ IsFiniteSet(B) /\ B \subseteq RankedChunks /\ Cardinality(B) = Len(AnyList.ids)
      /\ IsFiniteSet(C) /\ C \subseteq RankedChunks /\ Cardinality(C) = Cardinality(near)
  <2>1. IsFiniteSet(A) /\ A \subseteq RankedChunks /\ Cardinality(A) = Len(AllList.ids)
    BY <1>3, SeqSet DEF Scored
  <2>2. IsFiniteSet(B) /\ B \subseteq RankedChunks /\ Cardinality(B) = Len(AnyList.ids)
    BY <1>3, SeqSet DEF Scored
  <2>3. IsFiniteSet(C) /\ C \subseteq RankedChunks /\ Cardinality(C) = Len(NearList.ids)
    BY <1>4, SeqSet DEF Scored
  <2>4. Len(Nearest) = Cardinality(near)
    BY <1>4, NearestIs
  <2> QED BY <1>4, <2>1, <2>2, <2>3, <2>4
<1>8. FusionDepth \in 1 .. 200 /\ FusionDepth \in Nat
  BY RankingAssumption
<1>9. Len(AllList.ids) + Len(AnyList.ids) <= FusionDepth /\ Len(AllList.ids) \in Nat /\ Len(AnyList.ids) \in Nat
  <2>1. Len(AllList.ids) + Len(AnyList.ids) <= FusionDepth
    BY <1>3, <1>8, AnyTermIs
  <2>2. AllList.ids \in Seq(RankedChunks) /\ AnyList.ids \in Seq(RankedChunks)
    BY <1>3 DEF Scored
  <2> DEFINE a == AllList.ids
             b == AnyList.ids
  <2> HIDE DEF a, b
  <2>3. Len(a) \in Nat /\ Len(b) \in Nat
    BY <2>2 DEF a, b
  <2> QED BY ONLY <2>1, <2>3 DEF a, b
<1>10. ids = ToSet(Lists[1].ids) \union ToSet(Lists[2].ids) \union ToSet(Lists[3].ids)
  BY <1>2
<1> HIDE DEF A, B, C
<1>11. IsFiniteSet(ids) /\ ids \subseteq RankedChunks /\ Cardinality(ids) <= 400 /\ Cardinality(ids) \in Nat
  <2>1. /\ IsFiniteSet(A \union B) /\ Cardinality(A \union B) \in Nat
        /\ Cardinality(A \union B) <= Cardinality(A) + Cardinality(B)
    BY <1>7, UnionAtMost
  <2>2. /\ IsFiniteSet(ids) /\ Cardinality(ids) \in Nat
        /\ Cardinality(ids) <= Cardinality(A \union B) + Cardinality(C)
    BY <1>7, <2>1, UnionAtMost
  <2> HIDE DEF ids
  <2> DEFINE a == Len(AllList.ids)
             b == Len(AnyList.ids)
             n == Cardinality(near)
             ab == Cardinality(A \union B)
             all == Cardinality(ids)
  <2>3. /\ a \in Nat /\ b \in Nat /\ n \in Nat /\ ab \in Nat /\ all \in Nat
        /\ a + b <= FusionDepth /\ n <= FusionDepth /\ ab <= a + b /\ all <= ab + n
    BY <1>4, <1>7, <1>9, <2>1, <2>2
  <2> HIDE DEF a, b, n, ab, all
  <2>4. all <= 400
    BY ONLY <1>8, <2>3
  <2> USE DEF all
  <2> QED BY <1>7, <2>2, <2>4 DEF ids
<1> HIDE DEF ids
<1>12. ids \subseteq Nat /\ \A k \in ids : Score(Lists, k) \in Nat
  <2> HIDE DEF V
  <2> QED BY <1>5, <1>6, <1>11, RankingAssumption
<1>13. /\ RRFWeighted(Lists) \in Seq(ids) /\ IsInjective(RRFWeighted(Lists))
       /\ ToSet(RRFWeighted(Lists)) = ids /\ Len(RRFWeighted(Lists)) = Cardinality(ids)
       /\ \A j, k \in ids : Score(Lists, j) > Score(Lists, k) =>
            Position(RRFWeighted(Lists), j) < Position(RRFWeighted(Lists), k)
  BY <1>10, <1>11, <1>12, Fused
<1>14. ASSUME NEW j \in ids, NEW k \in ids, j # k, Lexically(query, j, k), Nearer(query, j, k)
       PROVE  Before(RRFWeighted(Lists), j, k)
  <2>1. /\ Lexical(j) >= Lexical(k)
        /\ k \in A \/ k \in B => Lexical(j) > Lexical(k)
    BY <1>14, LexicalScores DEF A, B
  <2>2. V(j) >= V(k) /\ (k \in C => V(j) > V(k))
    BY <1>14, VectorScores DEF C
  <2>3. k \in A \/ k \in B \/ k \in C
    BY DEF ids
  <2> HIDE DEF V
  <2>4. Lexical(j) + V(j) > Lexical(k) + V(k)
    <3>1. Lexical(j) \in Nat /\ Lexical(k) \in Nat /\ V(j) \in Nat /\ V(k) \in Nat
      BY <1>5
    <3>2. Lexical(j) > Lexical(k) \/ V(j) > V(k)
      BY <2>1, <2>2, <2>3
    <3> QED BY ONLY <2>1, <2>2, <3>1, <3>2
  <2>5. Score(Lists, j) > Score(Lists, k)
    BY <1>6, <2>4
  <2>6. Position(RRFWeighted(Lists), j) < Position(RRFWeighted(Lists), k)
    BY <1>13, <2>5
  <2> QED BY <1>13, <2>6, InFront
<1>15. RRFWeighted(Lists) \in Seq(RankedChunks)
  BY <1>11, <1>13
<1> QED BY <1>1, <1>11, <1>13, <1>14, <1>15

-----------------------------------------------------------------------------
(* The rules of the paths being edited.                                    *)
LEMMA SoonerIs ==
    ASSUME NEW hs \in Seq(RankedChunks)
    PROVE  /\ \A j \in RankedChunks : ~Sooner(hs, j, j)
           /\ \A i, j, k \in RankedChunks : Sooner(hs, i, j) /\ Sooner(hs, j, k) => Sooner(hs, i, k)
           /\ \A j, k \in RankedChunks : j = k \/ Sooner(hs, j, k) \/ Sooner(hs, k, j)
<1> DEFINE in(k) == Contains(hs, k)
           at(k) == Position(hs, k)
<1>1. \A k : in(k) => at(k) \in Nat /\ hs[at(k)] = k
  BY PositionOf
<1>2. \A k \in RankedChunks : k \in Nat
  BY RankingAssumption
<1>3. \A j, k : Sooner(hs, j, k) <=>
        IF in(j) /\ in(k) THEN at(j) < at(k) ELSE in(j) \/ (~in(k) /\ j < k)
  BY DEF Sooner
<1> HIDE DEF in, at
<1>4. \A j \in RankedChunks : ~Sooner(hs, j, j)
  BY <1>1, <1>2, <1>3
<1>5. ASSUME NEW i \in RankedChunks, NEW j \in RankedChunks, NEW k \in RankedChunks,
             Sooner(hs, i, j), Sooner(hs, j, k)
      PROVE  Sooner(hs, i, k)
  <2>1. i \in Nat /\ j \in Nat /\ k \in Nat
    BY <1>2
  <2>2. (in(i) => at(i) \in Nat) /\ (in(j) => at(j) \in Nat) /\ (in(k) => at(k) \in Nat)
    BY <1>1
  <2>3. /\ IF in(i) /\ in(j) THEN at(i) < at(j) ELSE in(i) \/ (~in(j) /\ i < j)
        /\ IF in(j) /\ in(k) THEN at(j) < at(k) ELSE in(j) \/ (~in(k) /\ j < k)
    BY <1>3, <1>5
  <2>4. IF in(i) /\ in(k) THEN at(i) < at(k) ELSE in(i) \/ (~in(k) /\ i < k)
    <3> DEFINE A == in(i)
               B == in(j)
               C == in(k)
    <3>1. CASE A /\ B /\ C
      BY <2>2, <2>3, <3>1
    <3>2. CASE ~(A /\ B /\ C)
      BY <2>1, <2>3, <3>2
    <3> QED BY <3>1, <3>2
  <2> QED BY <1>3, <2>4
<1>6. ASSUME NEW j \in RankedChunks, NEW k \in RankedChunks
      PROVE  j = k \/ Sooner(hs, j, k) \/ Sooner(hs, k, j)
  <2>1. j \in Nat /\ k \in Nat
    BY <1>2
  <2>2. CASE in(j) /\ in(k)
    <3>1. at(j) \in Nat /\ at(k) \in Nat /\ (at(j) = at(k) => j = k)
      BY <1>1, <2>2
    <3> QED BY <1>3, <2>2, <3>1
  <2>3. CASE ~(in(j) /\ in(k))
    BY <1>3, <2>1, <2>3
  <2> QED BY <2>2, <2>3
<1> QED BY <1>4, <1>5, <1>6

LEMMA GoverningIs ==
    ASSUME NEW docs \in Seq(Nat), NEW hs \in Seq(RankedChunks)
    PROVE  /\ Governing(docs, hs) \in Seq(RankedChunks) /\ IsInjective(Governing(docs, hs))
           /\ Len(Governing(docs, hs)) <= 6
           /\ docs = <<>> => ToSet(Governing(docs, hs)) = {}
<1> DEFINE place(k)  == Position(docs, DocOf[k])
           sooner(k) == {j \in RankedChunks : DocOf[j] = DocOf[k] /\ Sooner(hs, j, k)}
           first == {k \in RankedChunks : Contains(docs, DocOf[k]) /\ Cardinality(sooner(k)) < PerDoc}
           R == {x \in first \X first : \/ place(x[1]) < place(x[2])
                                        \/ place(x[1]) = place(x[2]) /\ Sooner(hs, x[1], x[2])}
           s == SortBy(first, R)
<1>1. Governing(docs, hs) = Limit(s, Total)
  BY DEF Governing
<1>2. IsFiniteSet(first) /\ first \subseteq RankedChunks
  BY RankingAssumption, FS_Subset
<1>3. \A k \in first : place(k) \in Nat
  <2>1. \A k \in first : Contains(docs, DocOf[k])
    OBVIOUS
  <2> HIDE DEF first
  <2> QED BY <2>1, PositionOf
<1>4. docs = <<>> => first = {}
  BY DEF Contains
<1>5. \A x, y \in first : <<x, y>> \in R <=>
        (place(x) < place(y) \/ (place(x) = place(y) /\ Sooner(hs, x, y)))
  <2> HIDE DEF first, place
  <2> QED OBVIOUS
<1> HIDE DEF first, place, R
<1>6. StrictOrder(first, R)
  <2>1. \A x \in first : <<x, x>> \notin R
    BY <1>2, <1>3, <1>5, SoonerIs
  <2>2. ASSUME NEW x \in first, NEW y \in first, NEW z \in first, <<x, y>> \in R, <<y, z>> \in R
        PROVE  <<x, z>> \in R
    <3>1. place(x) \in Nat /\ place(y) \in Nat /\ place(z) \in Nat
      BY <1>3
    <3>2. Sooner(hs, x, y) /\ Sooner(hs, y, z) => Sooner(hs, x, z)
      BY <1>2, SoonerIs
    <3>3. /\ place(x) < place(y) \/ (place(x) = place(y) /\ Sooner(hs, x, y))
          /\ place(y) < place(z) \/ (place(y) = place(z) /\ Sooner(hs, y, z))
      BY <1>5, <2>2
    <3>4. place(x) < place(z) \/ (place(x) = place(z) /\ Sooner(hs, x, z))
      BY ONLY <3>1, <3>2, <3>3
    <3> QED BY <1>5, <3>4
  <2>3. ASSUME NEW x \in first, NEW y \in first PROVE x = y \/ <<x, y>> \in R \/ <<y, x>> \in R
    <3>1. place(x) \in Nat /\ place(y) \in Nat
      BY <1>3
    <3>2. x = y \/ Sooner(hs, x, y) \/ Sooner(hs, y, x)
      BY <1>2, SoonerIs
    <3>3. \/ x = y
          \/ place(x) < place(y) \/ (place(x) = place(y) /\ Sooner(hs, x, y))
          \/ place(y) < place(x) \/ (place(y) = place(x) /\ Sooner(hs, y, x))
      BY ONLY <3>1, <3>2
    <3> QED BY <1>5, <3>3
  <2> QED BY <2>1, <2>2, <2>3 DEF StrictOrder
<1>7. s \in Seq(first) /\ ToSet(s) = first /\ IsInjective(s)
  BY <1>2, <1>6, SortedList
<1> HIDE DEF s
<1>8. s \in Seq(RankedChunks)
  BY <1>2, <1>7
<1>9. Total \in Nat /\ Total <= 6
  BY RankingAssumption
<1> DEFINE g == Limit(s, Total)
<1>10. /\ g \in Seq(RankedChunks) /\ Len(g) = (IF Len(s) < Total THEN Len(s) ELSE Total)
       /\ ToSet(g) \subseteq ToSet(s) /\ IsInjective(g)
  BY <1>7, <1>8, <1>9, LimitIs
<1> HIDE DEF g
<1>11. Len(g) <= 6
  <2>1. Len(s) \in Nat
    BY <1>8
  <2> QED BY ONLY <1>9, <1>10, <2>1
<1>12. Governing(docs, hs) = g
  BY <1>1 DEF g
<1> QED BY <1>4, <1>7, <1>10, <1>11, <1>12

(* What a rank among the found, and among the rules, can score.            *)
LEMMA Between ==
    ASSUME NEW W \in Nat, NEW lo \in Nat, NEW hi \in Nat, NEW a \in Nat, NEW b \in Nat, a > 0,
           NEW x \in Nat, a <= x, x <= b, b * lo <= W, W < a * (hi + 1)
    PROVE  W \div x \in Nat /\ lo <= W \div x /\ W \div x <= hi
<1> DEFINE q == W \div x
<1>1. q \in Nat /\ x * q <= W /\ W < x * (q + 1)
  BY Quotient, SMT
<1> HIDE DEF q
<1>2. q >= lo
  <2> SUFFICES ASSUME q + 1 <= lo PROVE FALSE
    BY <1>1, SMT
  <2>1. x * (q + 1) <= x * lo
    BY <1>1, SMT
  <2>2. x * lo <= b * lo
    BY SMT
  <2> QED BY <1>1, <2>1, <2>2, SMT
<1>3. q <= hi
  <2> SUFFICES ASSUME hi + 1 <= q PROVE FALSE
    BY <1>1, SMT
  <2>1. x * (hi + 1) <= x * q
    BY <1>1, SMT
  <2>2. a * (hi + 1) <= x * (hi + 1)
    BY SMT
  <2> QED BY <1>1, <2>1, <2>2, SMT
<1> QED BY <1>1, <1>2, <1>3, SMT DEF q

LEMMA FoundScore ==
    ASSUME NEW x \in Nat, 61 <= x, x <= 510
    PROVE  /\ (4 * Scale) \div x \in Nat
           /\ 78431 <= (4 * Scale) \div x /\ (4 * Scale) \div x <= 655737
<1> DEFINE W == 4 * Scale
<1>1. W \in Nat /\ 510 * 78431 <= W /\ W < 61 * (655737 + 1)
  BY SMT DEF Scale
<1> HIDE DEF W
<1>2. W \div x \in Nat /\ 78431 <= W \div x /\ W \div x <= 655737
  BY ONLY <1>1, 61 <= x, x <= 510, Between, SMT
<1> QED BY ONLY <1>2, SMT DEF W

LEMMA RuleScore ==
    ASSUME NEW x \in Nat, 61 <= x, x <= 66
    PROVE  /\ (6 * Scale) \div x \in Nat
           /\ 909090 <= (6 * Scale) \div x /\ (6 * Scale) \div x <= 983606
<1> DEFINE W == 6 * Scale
<1>1. W \in Nat /\ 66 * 909090 <= W /\ W < 61 * (983606 + 1)
  BY SMT DEF Scale
<1> HIDE DEF W
<1>2. W \div x \in Nat /\ 909090 <= W \div x /\ W \div x <= 983606
  BY ONLY <1>1, 61 <= x, x <= 66, Between, SMT
<1> QED BY ONLY <1>2, SMT DEF W

LEMMA RankedScore ==
    ASSUME NEW s \in Seq(RankedChunks), NEW w, NEW k
    PROVE  /\ k \notin ToSet(s) => ScoreIn(Ranked(s, w, 0), k) = 0
           /\ k \in ToSet(s) =>
                /\ Position(s, k) \in 1 .. Len(s)
                /\ ScoreIn(Ranked(s, w, 0), k) = (w * Scale) \div (RRFK + Position(s, k))
<1>1. Contains(s, k) <=> k \in ToSet(s)
  BY PositionOf
<1>2. k \in ToSet(s) => Position(s, k) \in 1 .. Len(s)
  BY PositionOf
<1> DEFINE l == Ranked(s, w, 0)
<1>3. l.ids = s /\ l.weight = w * Scale /\ l.offset = 0
  BY DEF Ranked
<1>4. k \notin ToSet(s) => ScoreIn(l, k) = 0
  BY <1>1, <1>3 DEF ScoreIn
<1>5. k \in ToSet(s) => ScoreIn(l, k) = (w * Scale) \div (RRFK + 0 + Position(s, k))
  BY <1>1, <1>3 DEF ScoreIn
<1>6. k \in ToSet(s) => RRFK + 0 + Position(s, k) = RRFK + Position(s, k)
  BY <1>2, SMT DEF RRFK
<1> QED BY <1>2, <1>4, <1>5, <1>6

(* Rules score above everything else, and those that were found above      *)
(* those that were not.                                                    *)
LEMMA RulesBefore ==
    ASSUME NEW f \in Seq(RankedChunks), IsInjective(f), Len(f) <= 450,
           NEW g \in Seq(RankedChunks), IsInjective(g), Len(g) <= 6
    PROVE  LET h == RRFWeighted(<<Ranked(f, 4, 0), Ranked(g, 6, 0), NoRanked>>)
           IN  /\ h \in Seq(RankedChunks) /\ IsInjective(h) /\ ToSet(h) = ToSet(f) \union ToSet(g)
               /\ \A j \in ToSet(g), k \in ToSet(f) \ ToSet(g) : Position(h, j) < Position(h, k)
               /\ \A j \in ToSet(g) \intersect ToSet(f), k \in ToSet(g) \ ToSet(f) :
                     Position(h, j) < Position(h, k)
<1> DEFINE lists == <<Ranked(f, 4, 0), Ranked(g, 6, 0), NoRanked>>
           F == ToSet(f)
           G == ToSet(g)
           a(k) == ScoreIn(Ranked(f, 4, 0), k)
           b(k) == ScoreIn(Ranked(g, 6, 0), k)
           h == RRFWeighted(lists)
<1>1. Len(f) \in Nat /\ Len(g) \in Nat
  OBVIOUS
<1>2. ASSUME NEW k
      PROVE  /\ k \notin F => a(k) = 0
             /\ k \in F => a(k) \in Nat /\ 78431 <= a(k) /\ a(k) <= 655737
  <2>1. /\ k \notin F => a(k) = 0
        /\ k \in F => Position(f, k) \in 1 .. Len(f) /\ a(k) = (4 * Scale) \div (RRFK + Position(f, k))
    BY RankedScore, Zenon
  <2>2. ASSUME k \in F PROVE a(k) \in Nat /\ 78431 <= a(k) /\ a(k) <= 655737
    <3> DEFINE x == RRFK + Position(f, k)
    <3>1. x \in Nat /\ 61 <= x /\ x <= 510
      BY <1>1, <2>1, <2>2, SMT DEF RRFK
    <3> HIDE DEF x
    <3>2. (4 * Scale) \div x \in Nat /\ 78431 <= (4 * Scale) \div x /\ (4 * Scale) \div x <= 655737
      BY <3>1, FoundScore, SMT
    <3>3. a(k) = (4 * Scale) \div x
      BY <2>1, <2>2, SMT DEF x
    <3> HIDE DEF a
    <3> QED BY ONLY <3>2, <3>3, SMT
  <2> HIDE DEF a, F
  <2> QED BY ONLY <2>1, <2>2, SMT
<1>3. ASSUME NEW k
      PROVE  /\ k \notin G => b(k) = 0
             /\ k \in G => b(k) \in Nat /\ 909090 <= b(k) /\ b(k) <= 983606
  <2>1. /\ k \notin G => b(k) = 0
        /\ k \in G => Position(g, k) \in 1 .. Len(g) /\ b(k) = (6 * Scale) \div (RRFK + Position(g, k))
    BY RankedScore, Zenon
  <2>2. ASSUME k \in G PROVE b(k) \in Nat /\ 909090 <= b(k) /\ b(k) <= 983606
    <3> DEFINE x == RRFK + Position(g, k)
    <3>1. x \in Nat /\ 61 <= x /\ x <= 66
      BY <1>1, <2>1, <2>2, SMT DEF RRFK
    <3> HIDE DEF x
    <3>2. (6 * Scale) \div x \in Nat /\ 909090 <= (6 * Scale) \div x /\ (6 * Scale) \div x <= 983606
      BY <3>1, RuleScore, SMT
    <3>3. b(k) = (6 * Scale) \div x
      BY <2>1, <2>2, SMT DEF x
    <3> HIDE DEF b
    <3> QED BY ONLY <3>2, <3>3, SMT
  <2> HIDE DEF b, G
  <2> QED BY ONLY <2>1, <2>2, SMT
<1>4. ASSUME NEW k PROVE Score(lists, k) = a(k) + b(k)
  <2>1. Score(lists, k) = a(k) + b(k) + ScoreIn(NoRanked, k)
    BY DEF Score
  <2>2. ScoreIn(NoRanked, k) = 0
    <3>1. NoRanked.ids = <<>>
      BY DEF NoRanked, Ranked
    <3>2. ~Contains(NoRanked.ids, k)
      BY <3>1 DEF Contains
    <3> QED BY <3>2 DEF ScoreIn
  <2>3. a(k) \in Nat /\ b(k) \in Nat
    <3> HIDE DEF a, b, F, G
    <3> QED BY <1>2, <1>3, SMT
  <2> HIDE DEF a, b
  <2> QED BY <2>1, <2>2, <2>3
<1>5. /\ IsFiniteSet(F \union G) /\ F \union G \subseteq RankedChunks /\ F \union G \in SUBSET Nat
  <2>1. IsFiniteSet(F) /\ F \subseteq RankedChunks /\ IsFiniteSet(G) /\ G \subseteq RankedChunks
    BY SeqSet
  <2>2. IsFiniteSet(F \union G)
    BY ONLY <2>1, UnionAtMost
  <2> QED BY <2>1, <2>2, RankingAssumption
<1>6. F \union G = ToSet(lists[1].ids) \union ToSet(lists[2].ids) \union ToSet(lists[3].ids)
  <2>1. lists[1].ids = f /\ lists[2].ids = g /\ lists[3].ids = <<>>
    BY DEF NoRanked, Ranked
  <2>2. ToSet(<<>>) = {}
    BY DEF ToSet
  <2> QED BY <2>1, <2>2
<1>7. \A k \in F \union G : Score(lists, k) \in Nat
  <2> SUFFICES ASSUME NEW k PROVE Score(lists, k) \in Nat
    OBVIOUS
  <2> HIDE DEF a, b, F, G, lists
  <2> QED BY <1>2, <1>3, <1>4, SMT
<1> HIDE DEF lists
<1>8. /\ h \in Seq(F \union G) /\ IsInjective(h) /\ ToSet(h) = F \union G
      /\ \A j, k \in F \union G : Score(lists, j) > Score(lists, k) => Position(h, j) < Position(h, k)
  BY <1>5, <1>6, <1>7, Fused
<1> HIDE DEF F, G, a, b
<1>9. ASSUME NEW j \in G, NEW k \in F \ G PROVE Position(h, j) < Position(h, k)
  <2>1. Score(lists, j) > Score(lists, k)
    <3>1. a(j) \in Nat /\ b(j) \in Nat /\ b(j) >= 909090
      BY <1>2, <1>3, SMT
    <3>2. a(k) \in Nat /\ a(k) <= 655737 /\ b(k) = 0
      BY <1>2, <1>3, SMT
    <3> QED BY <1>4, <3>1, <3>2, SMT
  <2> QED BY <1>8, <2>1
<1>10. ASSUME NEW j \in G \intersect F, NEW k \in G \ F PROVE Position(h, j) < Position(h, k)
  <2>1. Score(lists, j) > Score(lists, k)
    <3>1. a(j) \in Nat /\ b(j) \in Nat /\ b(j) >= 909090 /\ a(j) >= 78431
      BY <1>2, <1>3, SMT
    <3>2. a(k) = 0 /\ b(k) \in Nat /\ b(k) <= 983606
      BY <1>2, <1>3, SMT
    <3> QED BY <1>4, <3>1, <3>2, SMT
  <2> QED BY <1>8, <2>1
<1>11. h \in Seq(RankedChunks)
  BY <1>5, <1>8
<1> QED BY <1>8, <1>9, <1>10, <1>11 DEF F, G, lists

-----------------------------------------------------------------------------
(* The states of a search.                                                 *)
List(s) == s \in Seq(RankedChunks) /\ IsInjective(s)

Nothing == taken = <<>> /\ totalTokens = 0

(* What was found, the vectors last scanned forgotten.                     *)
FoundIs ==
    /\ List(found) /\ Len(found) <= 450
    /\ query.mode = "hybrid" =>
          \A j, k \in ToSet(found) :
             j # k /\ Lexically(query, j, k) /\ Nearer(query, j, k) => Before(found, j, k)

(* In what is offered to the agent the rules come first.                   *)
Rules == ToSet(Governing(query.governing, found))
Offered ==
    /\ List(found) /\ List(hits) /\ Rules \subseteq ToSet(hits)
    /\ \A j \in Rules, k \in ToSet(hits) \ Rules : Position(hits, j) < Position(hits, k)
    /\ \A j \in Rules \intersect ToSet(found), k \in Rules \ ToSet(found) :
          Position(hits, j) < Position(hits, k)

(* The hits taken are some of those looked at, in order, and any other of  *)
(* them did not fit beside the taken ones before it.                       *)
Ahead(i) == {k \in ToSet(taken) : Position(hits, k) < i}
Picked ==
    /\ taken \in Seq(RankedChunks) /\ Len(taken) <= query.topK /\ seen \in 0 .. Len(hits)
    /\ \A k \in ToSet(taken) : k \in ToSet(hits) /\ Position(hits, k) <= seen
    /\ \A a, b \in 1 .. Len(taken) : a < b => Position(hits, taken[a]) < Position(hits, taken[b])
    /\ totalTokens = SumOver(Tokens, ToSet(taken))
    /\ \A i \in 1 .. seen :
          \/ hits[i] \in ToSet(taken)
          \/ SumOver(Tokens, Ahead(i)) + Tokens[hits[i]] > query.budget

RankInv ==
    /\ searchPc \in {"idle", "rank", "govern", "take", "done"}
    /\ searchPc # "idle" => QueryOk(query)
    /\ searchPc = "idle" => near = {} /\ seen = 0 /\ Nothing
    /\ searchPc = "rank" => seen \in 0 .. Len(query.vectors) /\ HeapOf(seen) /\ Nothing
    /\ searchPc = "govern" => seen = 0 /\ Nothing /\ FoundIs
    /\ searchPc \in {"take", "done"} => Offered /\ Picked
    /\ searchPc = "done" => seen = Len(hits) \/ Len(taken) = query.topK

LEMMA RankStart == RankingInit => RankInv
<1> SUFFICES ASSUME RankingInit PROVE RankInv
  OBVIOUS
<1> QED BY DEF RankingInit, RankInv, Nothing

LEMMA QueryStep == ASSUME RankInv, NEW q \in Queries, Query(q) PROVE RankInv'
<1>1. /\ searchPc = "idle" /\ searchPc' = "rank" /\ query' = q
      /\ near' = near /\ seen' = seen /\ taken' = taken /\ totalTokens' = totalTokens
  BY DEF Query, resultVars
<1>2. near = {} /\ seen = 0 /\ Nothing
  BY <1>1 DEF RankInv
<1>3. QueryOk(query')
  BY <1>1, QueriesOk
<1>4. Len(query'.vectors) \in Nat
  <2>1. query'.vectors \in Seq([id : RankedChunks, score : Int])
    BY <1>3 DEF QueryOk
  <2> QED BY <2>1
<1>5. HeapOf(seen)'
  <2>1. Depth' \in Nat
    <3>1. query'.topK \in 1 .. 150
      BY <1>3 DEF QueryOk
    <3>2. FusionDepth \in Nat
      BY RankingAssumption
    <3> DEFINE m == query'.topK
    <3>3. m \in Nat
      BY <3>1
    <3> HIDE DEF m
    <3>4. 3 * m \in Nat
      BY <3>3
    <3> QED BY <3>2, <3>4 DEF Depth, m
  <2>2. Vectors(seen)' = {}
    BY <1>1, <1>2 DEF Vectors
  <2>3. near' = {} /\ Cardinality(near') = 0
    BY <1>1, <1>2, FS_EmptySet
  <2>4. 0 <= Depth'
    BY <2>1
  <2> QED BY <2>2, <2>3, <2>4 DEF HeapOf
<1>6. Nothing'
  BY <1>1, <1>2 DEF Nothing
<1>7. seen' \in 0 .. Len(query'.vectors)
  BY <1>1, <1>2, <1>4
<1> QED BY <1>1, <1>3, <1>5, <1>6, <1>7 DEF RankInv

LEMMA VectorStep == ASSUME RankInv, VectorSearch PROVE RankInv'
<1>1. searchPc = "rank" /\ searchPc' = "rank" /\ taken' = taken /\ totalTokens' = totalTokens
  BY DEF VectorSearch, resultVars
<1>2. QueryOk(query) /\ seen \in 0 .. Len(query.vectors) /\ HeapOf(seen) /\ Nothing
  BY <1>1 DEF RankInv
<1>3. HeapOf(seen)' /\ seen' \in 0 .. Len(query.vectors) /\ query' = query
  BY <1>2, HeapGrows
<1>4. QueryOk(query') /\ Nothing' /\ seen' \in 0 .. Len(query'.vectors)
  BY <1>1, <1>2, <1>3 DEF Nothing
<1> QED BY <1>1, <1>3, <1>4 DEF RankInv

(* Whatever retrieves, it finds each chunk once, and not too many.         *)
LEMMA RetrievedIs ==
    ASSUME QueryOk(query), query.mode # "hybrid", Embedded => HeapOf(Len(query.vectors)), Search
    PROVE  List(found') /\ Len(found') <= 450
<1>1. query.topK \in 1 .. 150 /\ query.mode \in {"unembedded", "bm25", "vector"}
  BY DEF QueryOk
<1> DEFINE m == query.topK
<1>2. FusionDepth \in 1 .. 200 /\ m \in 1 .. 150
  BY <1>1, RankingAssumption
<1> HIDE DEF m
<1>3. 3 * m \in Nat /\ 3 * m <= 450 /\ FusionDepth \in Nat /\ FusionDepth <= 450
  BY ONLY <1>2
<1>4. CASE query.mode = "unembedded"
  <2>1. found' = BM25Split(query, FusionDepth)
    BY <1>4 DEF Search
  <2> DEFINE s == BM25Split(query, FusionDepth)
  <2>2. s \in Seq(RankedChunks) /\ IsInjective(s) /\ Len(s) <= FusionDepth
    BY <1>3, BM25Is
  <2> HIDE DEF s
  <2>3. Len(s) <= 450
    BY <1>3, <2>2
  <2> QED BY <2>1, <2>2, <2>3 DEF List, s
<1>5. CASE query.mode = "bm25"
  <2>1. found' = BM25Split(query, 3 * m)
    BY <1>5 DEF Search, m
  <2> DEFINE s == BM25Split(query, 3 * m)
  <2>2. s \in Seq(RankedChunks) /\ IsInjective(s) /\ Len(s) <= 3 * m
    BY <1>3, BM25Is
  <2> HIDE DEF s
  <2>3. Len(s) <= 450
    BY <1>3, <2>2
  <2> QED BY <2>1, <2>2, <2>3 DEF List, s
<1>6. CASE query.mode = "vector"
  <2>1. found' = Nearest
    BY <1>6 DEF Search
  <2>2. HeapOf(Len(query.vectors))
    BY <1>6 DEF Embedded
  <2>3. Len(query.vectors) \in 0 .. Len(query.vectors)
    <3>1. Len(query.vectors) \in Nat
      BY AllVectors
    <3> QED BY <3>1
  <2>4. near \subseteq Vectors(Len(query.vectors)) /\ Cardinality(near) <= 3 * m
    BY <1>6, <2>2 DEF HeapOf, Depth, m
  <2>5. Scores(near) /\ Cardinality(near) \in Nat
    BY <2>3, <2>4, VectorsAre
  <2>6. Nearest \in Seq(RankedChunks) /\ IsInjective(Nearest) /\ Len(Nearest) = Cardinality(near)
    BY <2>5, NearestIs
  <2>7. Len(Nearest) <= 450
    BY <1>3, <2>4, <2>5, <2>6
  <2> QED BY <2>1, <2>6, <2>7 DEF List
<1> QED BY <1>1, <1>4, <1>5, <1>6

LEMMA SearchStep == ASSUME RankInv, Search PROVE RankInv'
<1>1. /\ searchPc = "rank" /\ searchPc' = "govern" /\ seen' = 0 /\ query' = query
      /\ taken' = taken /\ totalTokens' = totalTokens /\ (Embedded => seen = Len(query.vectors))
  BY DEF Search, resultVars
<1>2. QueryOk(query) /\ HeapOf(seen) /\ Nothing
  BY <1>1 DEF RankInv
<1>3. Embedded => HeapOf(Len(query.vectors))
  BY <1>1, <1>2
<1>4. FoundIs'
  <2>1. CASE query.mode = "hybrid"
    <3>1. found' = Hybrid
      BY <2>1 DEF Search
    <3>2. HeapOf(Len(query.vectors))
      BY <1>3, <2>1 DEF Embedded
    <3> DEFINE h == Hybrid
    <3>3. /\ h \in Seq(RankedChunks) /\ IsInjective(h) /\ Len(h) <= 400
          /\ \A j, k \in ToSet(h) :
               j # k /\ Lexically(query, j, k) /\ Nearer(query, j, k) => Before(h, j, k)
      BY <1>2, <2>1, <3>2, HybridIs
    <3> HIDE DEF h
    <3>4. Len(h) \in Nat /\ Len(h) <= 450
      BY <3>3
    <3>5. found' = h
      BY <3>1 DEF h
    <3> QED BY <1>1, <3>3, <3>4, <3>5 DEF FoundIs, List
  <2>2. CASE query.mode # "hybrid"
    <3>1. List(found') /\ Len(found') <= 450
      BY <1>2, <1>3, <2>2, RetrievedIs
    <3> QED BY <1>1, <2>2, <3>1 DEF FoundIs, List
  <2> QED BY <2>1, <2>2
<1>5. QueryOk(query') /\ Nothing'
  BY <1>1, <1>2 DEF Nothing
<1> QED BY <1>1, <1>4, <1>5 DEF RankInv

LEMMA GovernStep == ASSUME RankInv, Governed PROVE RankInv'
<1>1. /\ searchPc = "govern" /\ searchPc' = "take" /\ seen' = seen /\ query' = query /\ found' = found
      /\ taken' = taken /\ totalTokens' = totalTokens
      /\ hits' = IF query.governing = <<>> THEN found
                 ELSE RRFWeighted(<<Ranked(found, 4, 0),
                                    Ranked(Governing(query.governing, found), 6, 0), NoRanked>>)
  BY DEF Governed, resultVars
<1>2. QueryOk(query) /\ seen = 0 /\ Nothing /\ List(found) /\ Len(found) <= 450
  BY <1>1 DEF RankInv, FoundIs
<1>3. query.governing \in Seq(Nat) /\ query.topK \in 1 .. 150
  BY <1>2 DEF QueryOk
<1> DEFINE g == Governing(query.governing, found)
<1>4. /\ g \in Seq(RankedChunks) /\ IsInjective(g) /\ Len(g) <= 6
      /\ query.governing = <<>> => ToSet(g) = {}
  BY <1>2, <1>3, GoverningIs DEF List
<1> HIDE DEF g
<1>5. Rules' = ToSet(g) /\ Rules = ToSet(g)
  BY <1>1 DEF Rules, g
<1>6. Offered'
  <2>1. CASE query.governing = <<>>
    <3>1. hits' = found /\ ToSet(g) = {}
      BY <1>1, <1>4, <2>1
    <3> QED BY <1>1, <1>2, <1>5, <3>1 DEF Offered, List
  <2>2. CASE query.governing # <<>>
    <3> DEFINE h == RRFWeighted(<<Ranked(found, 4, 0), Ranked(g, 6, 0), NoRanked>>)
    <3>1. hits' = h
      BY <1>1, <2>2 DEF g
    <3>2. /\ h \in Seq(RankedChunks) /\ IsInjective(h) /\ ToSet(h) = ToSet(found) \union ToSet(g)
          /\ \A j \in ToSet(g), k \in ToSet(found) \ ToSet(g) : Position(h, j) < Position(h, k)
          /\ \A j \in ToSet(g) \intersect ToSet(found), k \in ToSet(g) \ ToSet(found) :
                Position(h, j) < Position(h, k)
      BY <1>2, <1>4, RulesBefore DEF List
    <3> HIDE DEF h
    <3>3. \A j \in ToSet(g), k \in ToSet(h) \ ToSet(g) : Position(h, j) < Position(h, k)
      BY <3>2
    <3> QED BY <1>1, <1>2, <1>5, <3>1, <3>2, <3>3 DEF Offered, List
  <2> QED BY <2>1, <2>2
<1>7. Picked'
  <2>1. taken' = <<>> /\ totalTokens' = 0 /\ seen' = 0
    BY <1>1, <1>2 DEF Nothing
  <2>5. query'.topK \in Nat
    <3>1. query'.topK \in 1 .. 150
      BY <1>1, <1>3
    <3> QED BY <3>1
  <2>2. ToSet(taken') = {} /\ taken' \in Seq(RankedChunks) /\ Len(taken') = 0
    BY <2>1 DEF ToSet
  <2>3. SumOver(Tokens, ToSet(taken')) = 0
    BY <2>2, SumNothing
  <2>4. Len(hits') \in Nat
    BY <1>6 DEF Offered, List
  <2> QED BY <2>1, <2>2, <2>3, <2>4, <2>5 DEF Picked
<1> QED BY <1>1, <1>2, <1>6, <1>7 DEF RankInv

LEMMA SkipStep ==
    ASSUME RankInv, Take, totalTokens + Tokens[hits[seen']] > query.budget
    PROVE  Picked'
<1>1. /\ searchPc = "take" /\ seen < Len(hits) /\ seen' = seen + 1
      /\ query' = query /\ hits' = hits /\ taken' = taken /\ totalTokens' = totalTokens
  BY DEF Take
<1>2. Offered /\ Picked
  BY <1>1 DEF RankInv
<1>3. Len(hits) \in Nat /\ seen \in Nat
  BY <1>2 DEF Offered, Picked, List
<1>4. seen + 1 \in 0 .. Len(hits)
  BY ONLY <1>1, <1>3
<1>5. ASSUME NEW k \in ToSet(taken) PROVE k \in ToSet(hits) /\ Position(hits, k) \in Nat /\ Position(hits, k) <= seen
  <2>1. k \in ToSet(hits) /\ Position(hits, k) <= seen /\ hits \in Seq(RankedChunks)
    BY <1>2 DEF Picked, Offered, List
  <2>2. Position(hits, k) \in 1 .. Len(hits)
    BY <2>1, PositionOf
  <2> QED BY <1>3, <2>1, <2>2
<1>6. Ahead(seen + 1) = ToSet(taken)
  BY <1>3, <1>5 DEF Ahead
<1>7. ASSUME NEW i \in 1 .. seen + 1
      PROVE  \/ hits[i] \in ToSet(taken)
             \/ SumOver(Tokens, Ahead(i)) + Tokens[hits[i]] > query.budget
  <2>1. i \in 1 .. seen \/ i = seen + 1
    BY <1>3
  <2>2. CASE i \in 1 .. seen
    BY <1>2, <2>2 DEF Picked
  <2>3. CASE i = seen + 1
    BY <1>1, <1>2, <1>6, <2>3 DEF Picked
  <2> QED BY <2>1, <2>2, <2>3
<1>8. \A k \in ToSet(taken) : k \in ToSet(hits) /\ Position(hits, k) <= seen + 1
  BY <1>3, <1>5
<1> QED BY <1>1, <1>2, <1>4, <1>7, <1>8 DEF Picked, Ahead

LEMMA KeepStep ==
    ASSUME RankInv, Take, ~(totalTokens + Tokens[hits[seen']] > query.budget)
    PROVE  Picked'
<1> DEFINE n == seen + 1
           c == hits[n]
           L == Len(taken)
<1>1. /\ searchPc = "take" /\ seen < Len(hits) /\ seen' = n /\ Len(taken) < query.topK
      /\ query' = query /\ hits' = hits /\ taken' = Append(taken, c)
      /\ totalTokens' = totalTokens + Tokens[c]
  BY DEF Take
<1>2. Offered /\ Picked /\ QueryOk(query)
  BY <1>1 DEF RankInv
<1>3. /\ Len(hits) \in Nat /\ seen \in Nat /\ L \in Nat
      /\ taken \in Seq(RankedChunks) /\ hits \in Seq(RankedChunks) /\ IsInjective(hits)
  BY <1>2 DEF Offered, Picked, List
<1>4. n \in 1 .. Len(hits) /\ n \in 0 .. Len(hits)
  BY ONLY <1>1, <1>3
<1>5. c \in RankedChunks /\ c \in ToSet(hits) /\ Position(hits, c) = n
  <2>1. c \in ToSet(hits) /\ Position(hits, c) = n
    BY <1>3, <1>4, PositionOf
  <2> QED BY <1>3, <1>4, <2>1
<1>6. ASSUME NEW k \in ToSet(taken)
      PROVE  k \in ToSet(hits) /\ Position(hits, k) \in Nat /\ Position(hits, k) <= seen
  <2>1. k \in ToSet(hits) /\ Position(hits, k) <= seen
    BY <1>2 DEF Picked
  <2>2. Position(hits, k) \in 1 .. Len(hits)
    BY <1>3, <2>1, PositionOf
  <2> QED BY <1>3, <2>1, <2>2
<1>7. /\ taken' \in Seq(RankedChunks) /\ Len(taken') = L + 1 /\ taken'[L + 1] = c
      /\ \A i \in 1 .. L : taken'[i] = taken[i] /\ taken[i] \in ToSet(taken)
      /\ ToSet(taken') = ToSet(taken) \union {c}
  <2>1. taken \in Seq(RankedChunks) /\ c \in RankedChunks /\ taken' = Append(taken, c)
    BY <1>1, <1>3, <1>5
  <2> HIDE DEF c
  <2>2. /\ L \in Nat /\ taken' \in Seq(RankedChunks) /\ Len(taken') = L + 1 /\ taken'[L + 1] = c
        /\ \A i \in 1 .. L : taken'[i] = taken[i]
        /\ DOMAIN taken = 1 .. L /\ DOMAIN taken' = 1 .. L + 1
    BY ONLY <2>1
  <2> HIDE DEF L
  <2>3. ToSet(taken) = {taken[i] : i \in 1 .. L} /\ ToSet(taken') = {taken'[i] : i \in 1 .. L + 1}
    BY ONLY <2>2 DEF ToSet
  <2>4. \A i : i \in 1 .. L + 1 <=> i \in 1 .. L \/ i = L + 1
    BY ONLY <2>2
  <2>5. ToSet(taken') = ToSet(taken) \union {c} /\ \A i \in 1 .. L : taken[i] \in ToSet(taken)
    BY ONLY <2>2, <2>3, <2>4
  <2> QED BY ONLY <2>2, <2>5
<1>8. ToSet(taken') = ToSet(taken) \union {c}
  BY <1>7
<1>9. c \notin ToSet(taken)
  BY <1>3, <1>5, <1>6
<1>10. \A k \in ToSet(taken') : k \in ToSet(hits) /\ Position(hits, k) <= n
  BY <1>3, <1>5, <1>6, <1>8
<1>11. ASSUME NEW a \in 1 .. L + 1, NEW b \in 1 .. L + 1, a < b
       PROVE  Position(hits, taken'[a]) < Position(hits, taken'[b])
  <2>1. a \in 1 .. L /\ (b \in 1 .. L \/ b = L + 1)
    BY <1>3, <1>11
  <2>2. CASE b \in 1 .. L
    BY <1>2, <1>7, <1>11, <2>1, <2>2 DEF Picked
  <2>3. CASE b = L + 1
    <3>1. Position(hits, taken'[b]) = n /\ taken'[a] \in ToSet(taken)
      BY <1>5, <1>7, <2>1, <2>3
    <3> QED BY <1>3, <1>6, <3>1
  <2> QED BY <2>1, <2>2, <2>3
<1>12. totalTokens' = SumOver(Tokens, ToSet(taken'))
  <2>1. totalTokens = SumOver(Tokens, ToSet(taken))
    BY <1>2 DEF Picked
  <2>2. IsFiniteSet(ToSet(taken)) /\ ToSet(taken) \subseteq RankedChunks
    BY <1>3, SeqSet
  <2>3. \A k \in RankedChunks : Tokens[k] \in Nat
    BY RankingAssumption
  <2> DEFINE S == ToSet(taken)
  <2>4. IsFiniteSet(S) /\ c \notin S /\ Tokens[c] \in Nat /\ \A x \in S : Tokens[x] \in Nat
    BY <1>5, <1>9, <2>2, <2>3
  <2> HIDE DEF S, c
  <2>5. SumOver(Tokens, S \union {c}) = SumOver(Tokens, S) + Tokens[c]
    BY ONLY <2>4, SumOneMore
  <2> QED BY <1>1, <1>8, <2>1, <2>5 DEF S
<1>13. ASSUME NEW i \in 1 .. n
       PROVE  \/ hits[i] \in ToSet(taken')
              \/ SumOver(Tokens, Ahead(i)') + Tokens[hits[i]] > query.budget
  <2>1. i \in 1 .. seen \/ i = n
    BY <1>3
  <2>2. CASE i \in 1 .. seen
    <3>1. Ahead(i)' = Ahead(i)
      <4>1. ~(n < i)
        BY <1>3, <2>2
      <4> QED BY <1>1, <1>5, <1>8, <4>1 DEF Ahead
    <3> QED BY <1>2, <1>8, <2>2, <3>1 DEF Picked
  <2>3. CASE i = n
    BY <1>8, <2>3
  <2> QED BY <2>1, <2>2, <2>3
<1>14. Len(taken') <= query.topK
  <2>1. query.topK \in 1 .. 150
    BY <1>2 DEF QueryOk
  <2> DEFINE m == query.topK
  <2>2. m \in Nat /\ L < m
    <3>1. m \in Nat
      BY <2>1
    <3> QED BY <1>1, <3>1
  <2> HIDE DEF m, L
  <2>3. L + 1 <= m
    BY <1>3, <2>2
  <2> QED BY <1>7, <2>3 DEF m
<1> HIDE DEF n, c, L
<1> QED BY <1>1, <1>4, <1>7, <1>10, <1>11, <1>12, <1>13, <1>14 DEF Picked, Ahead

LEMMA TakeStep == ASSUME RankInv, Take PROVE RankInv'
<1>1. /\ searchPc = "take" /\ searchPc' = "take" /\ query' = query /\ hits' = hits /\ found' = found
  BY DEF Take
<1>2. QueryOk(query) /\ Offered
  BY <1>1 DEF RankInv
<1>3. Offered' /\ QueryOk(query')
  BY <1>1, <1>2 DEF Offered, Rules
<1>4. Picked'
  BY SkipStep, KeepStep
<1> QED BY <1>1, <1>3, <1>4 DEF RankInv

LEMMA TakenAllStep == ASSUME RankInv, TakenAll PROVE RankInv'
<1>1. /\ searchPc = "take" /\ searchPc' = "done" /\ query' = query /\ hits' = hits /\ found' = found
      /\ seen' = seen /\ taken' = taken /\ totalTokens' = totalTokens
      /\ (seen = Len(hits) \/ Len(taken) = query.topK)
  BY DEF TakenAll, resultVars
<1>2. QueryOk(query) /\ Offered /\ Picked
  BY <1>1 DEF RankInv
<1>3. Offered' /\ QueryOk(query') /\ Picked'
  BY <1>1, <1>2 DEF Offered, Rules, Picked, Ahead
<1> QED BY <1>1, <1>3 DEF RankInv

LEMMA RankStutter == ASSUME RankInv, UNCHANGED rankingVars PROVE RankInv'
<1>1. /\ searchPc' = searchPc /\ query' = query /\ hits' = hits /\ found' = found
      /\ seen' = seen /\ taken' = taken /\ totalTokens' = totalTokens /\ near' = near
  BY DEF rankingVars, resultVars
<1>2. /\ QueryOk(query)' = QueryOk(query) /\ Nothing' = Nothing /\ HeapOf(seen)' = HeapOf(seen)
      /\ FoundIs' = FoundIs /\ Offered' = Offered /\ Picked' = Picked
  BY <1>1 DEF QueryOk, Nothing, HeapOf, Vectors, Depth, FoundIs, Offered, Rules, Picked, Ahead
<1> QED BY <1>1, <1>2 DEF RankInv

LEMMA RankInductive == RankingSpec => []RankInv
<1>1. RankInv /\ [RankingNext]_rankingVars => RankInv'
  BY QueryStep, VectorStep, SearchStep, GovernStep, TakeStep, TakenAllStep, RankStutter
     DEF RankingNext
<1> QED BY <1>1, RankStart, PTL DEF RankingSpec

(* Fusion never puts a chunk behind one that matches the words no better   *)
(* and is farther from the query, for any matches, vectors and depths.     *)
THEOREM FusionKeepsOrder == RankingSpec => []FusionRespectsBoth
<1>1. RankInv => FusionRespectsBoth
  BY DEF RankInv, FoundIs, FusionRespectsBoth
<1> QED BY <1>1, RankInductive, PTL

LEMMA RulesLeadAtTheEnd == RankInv => RulesLead
<1> SUFFICES ASSUME RankInv, searchPc = "done" PROVE RulesLead
  BY DEF RulesLead
<1>1. Offered /\ Picked /\ QueryOk(query) /\ (seen = Len(hits) \/ Len(taken) = query.topK)
  BY DEF RankInv
<1> DEFINE got == ToSet(taken)
<1>2. /\ List(found) /\ hits \in Seq(RankedChunks) /\ IsInjective(hits) /\ taken \in Seq(RankedChunks)
      /\ seen \in Nat /\ Len(hits) \in Nat /\ Len(taken) \in Nat
  BY <1>1 DEF Offered, Picked, List
<1>3. \A k : Contains(found, k) <=> k \in ToSet(found)
  BY <1>2, PositionOf DEF List
<1>4. \A k \in ToSet(hits) : Position(hits, k) \in 1 .. Len(hits) /\ hits[Position(hits, k)] = k
  BY <1>2, PositionOf
<1>5. got \subseteq ToSet(hits) /\ Rules \subseteq ToSet(hits)
  BY <1>1 DEF Picked, Offered
<1>6. ASSUME NEW j \in got, NEW k \in got, Position(hits, j) < Position(hits, k)
      PROVE  Before(taken, j, k)
  <2>1. PICK a \in 1 .. Len(taken) : taken[a] = j
    BY <1>2 DEF ToSet
  <2>2. PICK b \in 1 .. Len(taken) : taken[b] = k
    BY <1>2 DEF ToSet
  <2>3. Position(hits, j) \in Nat /\ Position(hits, k) \in Nat
    BY <1>4, <1>5
  <2>4. a # b
    BY <1>6, <2>1, <2>2, <2>3
  <2>5. ~(b < a)
    <3> SUFFICES ASSUME b < a PROVE FALSE
      OBVIOUS
    <3>1. Position(hits, taken[b]) < Position(hits, taken[a])
      BY <1>1 DEF Picked
    <3> QED BY <1>6, <2>1, <2>2, <2>3, <3>1
  <2>6. a < b
    BY ONLY <1>2, <2>4, <2>5
  <2> QED BY <1>2, <2>1, <2>2, <2>6 DEF Before
<1> HIDE DEF got
<1>7. \A j \in got \intersect Rules, k \in got \ Rules : Before(taken, j, k)
  <2> SUFFICES ASSUME NEW j \in got \intersect Rules, NEW k \in got \ Rules PROVE Before(taken, j, k)
    OBVIOUS
  <2>1. Position(hits, j) < Position(hits, k)
    BY <1>1, <1>5 DEF Offered
  <2> QED BY <1>6, <2>1
<1>8. \A j \in got \intersect Rules, k \in got \intersect Rules :
        Contains(found, j) /\ ~Contains(found, k) => Before(taken, j, k)
  <2> SUFFICES ASSUME NEW j \in got \intersect Rules, NEW k \in got \intersect Rules,
                      Contains(found, j), ~Contains(found, k)
               PROVE  Before(taken, j, k)
    OBVIOUS
  <2>1. Position(hits, j) < Position(hits, k)
    BY <1>1, <1>3 DEF Offered
  <2> QED BY <1>6, <2>1
<1>9. ASSUME NEW k \in Rules \ got, Len(taken) # query.topK
      PROVE  SumOver(Tokens, got \intersect Rules) + Tokens[k] > query.budget
  <2> DEFINE i == Position(hits, k)
  <2>1. k \in ToSet(hits) /\ i \in 1 .. Len(hits) /\ hits[i] = k /\ seen = Len(hits)
    BY <1>1, <1>4, <1>5, <1>9
  <2>2. SumOver(Tokens, Ahead(i)) + Tokens[k] > query.budget
    <3>1. i \in 1 .. seen /\ hits[i] \notin ToSet(taken)
      BY <1>9, <2>1 DEF got
    <3> QED BY <1>1, <2>1, <3>1 DEF Picked
  <2>3. Ahead(i) \subseteq got \intersect Rules
    <3> SUFFICES ASSUME NEW j \in got, Position(hits, j) < i PROVE j \in Rules
      BY DEF Ahead, got
    <3>1. j \in ToSet(hits) /\ Position(hits, j) \in Nat /\ i \in Nat
      BY <1>4, <1>5, <2>1
    <3>2. j \notin Rules => i < Position(hits, j)
      BY <1>1, <3>1 DEF Offered
    <3> QED BY <3>1, <3>2
  <2>4. IsFiniteSet(got) /\ got \subseteq RankedChunks
    BY <1>2, SeqSet DEF got
  <2>5. IsFiniteSet(got \intersect Rules)
    BY <2>4, FS_Subset
  <2>6. \A x \in RankedChunks : Tokens[x] \in Nat /\ Tokens[x] <= Tokens[x]
    BY RankingAssumption
  <2>7. SumOver(Tokens, Ahead(i)) <= SumOver(Tokens, got \intersect Rules)
    BY <2>3, <2>4, <2>5, <2>6, SumGrows
  <2>8. SumOver(Tokens, Ahead(i)) \in Nat /\ SumOver(Tokens, got \intersect Rules) \in Nat
    <3>1. IsFiniteSet(Ahead(i))
      BY <2>3, <2>5, FS_Subset
    <3> QED BY <2>3, <2>4, <2>5, <2>6, <3>1, SumFinite
  <2>9. Tokens[k] \in Nat /\ query.budget \in Nat
    <3>1. k \in RankedChunks
      BY <1>2, <2>1, SeqSet
    <3> QED BY <1>1, <2>6, <3>1 DEF QueryOk
  <2> DEFINE u == SumOver(Tokens, Ahead(i))
             v == SumOver(Tokens, got \intersect Rules)
             t == Tokens[k]
             m == query.budget
  <2>10. u \in Nat /\ v \in Nat /\ t \in Nat /\ m \in Nat /\ u <= v /\ u + t > m
    BY <2>2, <2>7, <2>8, <2>9
  <2> HIDE DEF u, v, t, m
  <2>11. v + t > m
    BY ONLY <2>10
  <2> QED BY <2>11 DEF v, t, m
<1> QED BY <1>7, <1>8, <1>9 DEF RulesLead, Rules, got

(* The sections that govern the paths being edited come first in what the  *)
(* agent gets, those that were found first among them, and one of them is  *)
(* left out only for the sake of others, whatever is found and governs.    *)
THEOREM RulesComeFirst == RankingSpec => []RulesLead
BY RankInductive, RulesLeadAtTheEnd, PTL
=============================================================================
