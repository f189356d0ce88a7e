-------------------------------- MODULE Packer --------------------------------
(***************************************************************************)
(* How ranked chunks become the sections of a bundle (internal/bundle      *)
(* compile, Pack, Order, isDuplicate, truncate): near-duplicates are left  *)
(* out, the others are taken in rank order while estimates say they fit,   *)
(* the top one is truncated if none does, and since the rendered whole may *)
(* be larger than its estimates, sections are dropped from the end.        *)
(***************************************************************************)
EXTENDS Naturals, FiniteSets, Sequences, SequencesExt, Collections

CONSTANTS
    Rankings,       \* what a search returns: sequences of chunks
    Budgets,        \* Budget(max_tokens)
    ScopeRank,      \* ScopeRank[c]: domain, conventions, then the others
    Estimate,       \* Estimate[c], its tokens and those of its source line
    Renderings,     \* what each chunk may add to the rendered whole
    Alike,          \* pairs of chunks that count as near-identical
    HeaderCost,     \* the estimate of the header
    Header,         \* Header[n], the rendered header of n sections
    SectionOverhead, Marker, MinTruncated,   \* tokens
    Slack           \* how far a rendered truncated section may exceed its estimate

PackedChunks == DOMAIN Estimate
ASSUME PackerAssumption ==
    /\ \A r \in Rankings : /\ r \in Seq(PackedChunks) /\ IsInjective(r)
                           /\ 0 .. Len(r) \subseteq DOMAIN Header
    /\ Estimate \in [PackedChunks -> Nat] /\ ScopeRank \in [PackedChunks -> 0 .. 2]
    /\ \A sizes \in Renderings : sizes \in [PackedChunks -> Nat]
    /\ \A x \in Alike : <<x[2], x[1]>> \in Alike
    /\ \A n \in DOMAIN Header : Header[n] \in Nat
    /\ Budgets \subseteq Nat /\ MinTruncated \in Nat \ {0}
    /\ HeaderCost \in Nat /\ SectionOverhead \in Nat /\ Marker \in Nat /\ Slack \in Nat

VARIABLES
    ranked,      \* what the search returned
    budget,
    rendered,    \* of Renderings, the one that applies
    considered,  \* how many of ranked Pack has looked at
    selected,    \* the sections, in rank order
    used,        \* the estimated size
    cutTo,       \* what the truncated top chunk adds when rendered, 0 if it is whole
    packPc       \* next step

packerVars == <<ranked, budget, rendered, considered, selected, used, cutTo, packPc>>

PackerInit ==
    /\ ranked = <<>> /\ budget = 0 /\ rendered = <<>> /\ considered = 0
    /\ selected = <<>> /\ used = 0 /\ cutTo = 0 /\ packPc = "idle"

Rank(c) == CHOOSE i \in DOMAIN ranked : ranked[i] = c

(* Order: by scope, in rank order within a scope.                          *)
Order(s) ==
    SortBy(ToSet(s), {x \in ToSet(s) \X ToSet(s) :
                          \/ ScopeRank[x[1]] < ScopeRank[x[2]]
                          \/ ScopeRank[x[1]] = ScopeRank[x[2]] /\ Rank(x[1]) < Rank(x[2])})

Adds(c)  == IF cutTo > 0 THEN cutTo ELSE rendered[c]
Count(s) == Header[Len(s)] + SumOver([c \in ToSet(s) |-> Adds(c)], ToSet(s))

PackChunks(r, b, sizes) ==
    /\ packPc = "idle" /\ packPc' = "pack"
    /\ ranked' = r /\ budget' = b /\ rendered' = sizes /\ used' = HeaderCost
    /\ UNCHANGED <<considered, selected, cutTo>>

(* isDuplicate, against the sections taken so far.                         *)
IsDuplicate(c) == \E s \in ToSet(selected) : <<c, s>> \in Alike

Consider ==
    /\ packPc = "pack" /\ considered < Len(ranked)
    /\ considered' = considered + 1
    /\ LET c == ranked[considered']
       IN  IF IsDuplicate(c) \/ used + Estimate[c] > budget
             THEN UNCHANGED <<selected, used>>
             ELSE selected' = Append(selected, c) /\ used' = used + Estimate[c]
    /\ UNCHANGED <<ranked, budget, rendered, cutTo, packPc>>

(* The room for the head of a chunk of which nothing else fits.            *)
Room == IF budget > HeaderCost + SectionOverhead + Marker
          THEN budget - HeaderCost - SectionOverhead - Marker ELSE 0

Packed ==
    /\ packPc = "pack" /\ considered = Len(ranked) /\ packPc' = "fit"
    /\ IF selected = <<>> /\ ranked # <<>> /\ Room >= MinTruncated
         THEN /\ selected' = <<ranked[1]>>
              /\ cutTo' \in 1 .. SectionOverhead + Room + Marker + Slack
         ELSE UNCHANGED <<selected, cutTo>>
    /\ UNCHANGED <<ranked, budget, rendered, considered, used>>

DropOnlyOne ==
    /\ packPc = "fit" /\ selected # <<>> /\ Count(selected) > budget
    /\ selected' = Front(selected) /\ packPc' = "done"
    /\ UNCHANGED <<ranked, budget, rendered, considered, used, cutTo>>
DropLowest ==
    /\ packPc = "fit" /\ selected # <<>> /\ Count(selected) > budget
    /\ selected' = Front(selected)
    /\ UNCHANGED <<ranked, budget, rendered, considered, used, cutTo, packPc>>

(* The sections of the bundle, ordered.                                    *)
RenderBundle ==
    /\ packPc = "fit" /\ (selected = <<>> \/ Count(selected) <= budget)
    /\ packPc' = "done" /\ selected' = Order(selected)
    /\ UNCHANGED <<ranked, budget, rendered, considered, used, cutTo>>

PackerNext ==
    \/ packPc = "idle" /\ \E r \in Rankings, b \in Budgets, sizes \in Renderings :
                            PackChunks(r, b, sizes)
    \/ Consider \/ Packed \/ DropLowest \/ RenderBundle

PackerSpec == PackerInit /\ [][PackerNext]_packerVars

-----------------------------------------------------------------------------
Better(c, s) == {d \in s : Rank(d) < Rank(c)}

(* "Never exceeded" (mcpserver/server.go:278) holds of every bundle with a *)
(* section; without one the header alone may exceed the budget.  When      *)
(* nothing is rendered larger than its estimate no section is lost again.  *)
(* A chunk is left out because it is nearly identical to a better one,     *)
(* because the better ones leave no room for it, or, when the rendered     *)
(* whole was too large, after every worse one (bundle.go:148-154, 180-200).*)
SectionsAreTheBestThatFit ==
    packPc = "done" =>
        LET kept == ToSet(selected)
            Crowded(c) == HeaderCost + Estimate[c] + SumOver(Estimate, Better(c, kept)) > budget
            honest == /\ \A c \in PackedChunks : rendered[c] <= Estimate[c]
                      /\ \A n \in DOMAIN Header : Header[n] <= HeaderCost
                      /\ cutTo <= SectionOverhead + Room + Marker
        IN  /\ selected = <<>> \/ Count(selected) <= budget
            /\ honest /\ selected = <<>> =>
                  /\ \A c \in ToSet(ranked) : HeaderCost + Estimate[c] > budget
                  /\ ranked # <<>> => Room < MinTruncated
            /\ \A c \in kept, d \in kept : <<c, d>> \notin Alike \/ c = d
            /\ \A c \in ToSet(ranked) \ kept :
                  \/ \E d \in ToSet(ranked) : Rank(d) < Rank(c) /\ <<c, d>> \in Alike
                  \/ Crowded(c)
                  \/ \A d \in kept : Rank(d) < Rank(c)
=============================================================================
