------------------------------ MODULE MCChunker ------------------------------
(* An instance of Chunker for TLC: up to four blocks, paragraphs that fit  *)
(* and that do not, and headings that repeat or are written like the number*)
(* of another.                                                             *)
EXTENDS Chunker, TLC

Piece(l, t, n) == [level |-> l, text |-> t, size |-> n]
Pieces == {Piece(0, "none", 2), Piece(0, "none", 5), Piece(1, "a", 1), Piece(2, "a", 1),
           Piece(2, "b", 1), Piece(2, "a (2)", 1), Piece(3, "a", 1), Piece(4, "b", 1)}
Before(s, i) == FoldLeft(LAMBDA n, k : n + s[k].size, 0, [k \in 1 .. i - 1 |-> k])
LaidOut(s) == [i \in DOMAIN s |-> [level |-> s[i].level, text |-> s[i].text,
                                   start |-> Before(s, i), end |-> Before(s, i) + s[i].size]]
FourPieces == {LaidOut(s) : s \in UNION {[1 .. k -> Pieces] : k \in 0 .. 4}}
FourTexts  == {"none", "a", "b", "a (2)", "doc"}
WithNumber == [x \in FourTexts \X (2 .. 6) |->
                 x[1] \o " (" \o ToString(x[2]) \o ")"]
=============================================================================
