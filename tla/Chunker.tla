------------------------------- MODULE Chunker -------------------------------
(***************************************************************************)
(* How a document becomes chunks (internal/ingest ChunkDocument and        *)
(* splitOversized): headings bound sections, a section has a breadcrumb,   *)
(* repeated breadcrumbs are numbered, and a section that is too large is   *)
(* split into parts.                                                       *)
(*                                                                         *)
(* A body is a sequence of blocks that follow each other: headings of a    *)
(* level with a text, and paragraphs, each with its first offset and the   *)
(* one after its last.  Offsets are counted in tokens, so the size of a    *)
(* slice is its length.  A chunk id, a hash of path, breadcrumb and part,  *)
(* is the breadcrumb and the part.                                         *)
(***************************************************************************)
EXTENDS Naturals, FiniteSets, Sequences, SequencesExt

CONSTANTS
    Bodies,      \* sequences of blocks [level, text, start, end]; level 0: a paragraph
    Texts,       \* what headings and titles say
    Titles,      \* titles in the front matter; NoTitle: none
    NoTitle,
    DocPath,     \* the title of a document without one
    Numbered,    \* Numbered[<<t, n>>], the text "t (n)"
    MaxTokens,   \* MaxChunkTokens
    TargetTokens \* TargetChunkTokens

ASSUME ChunkerAssumption ==
    /\ TargetTokens \in Nat /\ MaxTokens \in Nat /\ TargetTokens <= MaxTokens
    /\ Titles \subseteq Texts /\ DocPath \in Texts
    /\ \A b \in Bodies :
          /\ b \in Seq([level : Nat, text : Texts, start : Nat, end : Nat])
          /\ \A i \in DOMAIN b : /\ b[i].start < b[i].end
                                 /\ b[i].start = IF i = 1 THEN 0 ELSE b[i - 1].end
                                 /\ b[i].level # 0 => b[i].text # NoTitle
          /\ Texts \X (2 .. Len(b) + 1) \subseteq DOMAIN Numbered
    /\ IsInjective(Numbered)

VARIABLES
    chunkPc,     \* "idle", "headings", "sections", "split" or "done"
    body,        \* the document
    title,       \* resolvedTitle
    firstH1,     \* the block of the first H1, 0 without one
    nextBlock,   \* the next block
    current,     \* the section that is open: its breadcrumb and its start
    h2,          \* the text of the enclosing H2, or NoTitle
    sections,    \* the sections, with start and end
    nextSection, \* the next section, or the one being split
    bufStart,    \* buf, the part being filled, is the slice from bufStart to bufEnd
    bufEnd,
    parts,       \* how many parts of the section there are
    chunks       \* the chunks so far

chunkerVars == <<chunkPc, body, title, firstH1, nextBlock, current, h2, sections,
                 nextSection, bufStart, bufEnd, parts, chunks>>

ChunkerInit ==
    /\ chunkPc = "idle" /\ body = <<>> /\ title = NoTitle /\ firstH1 = 0 /\ nextBlock = 1
    /\ current = [path |-> <<>>, start |-> 0] /\ h2 = NoTitle
    /\ sections = <<>> /\ nextSection = 1
    /\ bufStart = 0 /\ bufEnd = 0 /\ parts = 0 /\ chunks = <<>>

(* Front matter, then the first H1, then the path.                         *)
Parse(b, fm) ==
    /\ chunkPc' = "headings"
    /\ body' = b
    /\ firstH1' = SelectInSeq(b, LAMBDA k : k.level = 1)
    /\ title' = IF fm # NoTitle THEN fm ELSE IF firstH1' # 0 THEN b[firstH1'].text ELSE DocPath
    /\ current' = [path |-> <<title'>>, start |-> 0]
    /\ UNCHANGED <<nextBlock, h2, sections, nextSection, bufStart, bufEnd, parts, chunks>>

-----------------------------------------------------------------------------
(* A paragraph, or a heading below H3, belongs to the section it is in.    *)
Block ==
    /\ chunkPc = "headings" /\ nextBlock \in DOMAIN body
    /\ body[nextBlock].level \notin 1 .. 3
    /\ nextBlock' = nextBlock + 1
    /\ UNCHANGED <<chunkPc, body, title, firstH1, current, h2, sections,
                   nextSection, bufStart, bufEnd, parts, chunks>>

(* A heading ends the section before it and is the first line of its own,  *)
(* but for the first H1, which is the title and no content.                *)
SectionsTo(end) == Append(sections, [path |-> current.path, start |-> current.start, end |-> end])

Opened(b) ==
    [path |-> CASE b.level = 1 -> <<title>>
                [] b.level = 2 -> <<title, b.text>>
                [] b.level = 3 -> <<title>> \o (IF h2 = NoTitle THEN <<>> ELSE <<h2>>) \o <<b.text>>,
     start |-> IF nextBlock = firstH1 THEN b.end ELSE b.start]

EnclosingH2Kept(b) == IF b.level = 2 THEN b.text ELSE h2
EnclosingH2(b)     == CASE b.level = 1 -> NoTitle [] b.level = 2 -> b.text [] b.level = 3 -> h2

Heading ==
    /\ chunkPc = "headings" /\ nextBlock \in DOMAIN body
    /\ body[nextBlock].level \in 1 .. 3
    /\ sections' = SectionsTo(body[nextBlock].start)
    /\ current' = Opened(body[nextBlock])
    /\ h2' = EnclosingH2(body[nextBlock])
    /\ nextBlock' = nextBlock + 1
    /\ UNCHANGED <<chunkPc, body, title, firstH1, nextSection, bufStart, bufEnd, parts, chunks>>

Length == IF body = <<>> THEN 0 ELSE body[Len(body)].end

EndOfBody ==
    /\ chunkPc = "headings" /\ nextBlock = Len(body) + 1
    /\ sections' = SectionsTo(Length)
    /\ chunkPc' = "sections"
    /\ UNCHANGED <<body, title, firstH1, nextBlock, current, h2, nextSection,
                   bufStart, bufEnd, parts, chunks>>

-----------------------------------------------------------------------------
HasContent(s) == sections[s].start < sections[s].end

(* seen: how many sections with content had this breadcrumb so far.        *)
Times(s) == Cardinality({r \in 1 .. s : HasContent(r) /\ sections[r].path = sections[s].path})

Unnumbered(s) == sections[s].path
HeadingPath(s) ==
    LET path == sections[s].path
    IN  IF Times(s) = 1 THEN path ELSE Front(path) \o <<Numbered[<<Last(path), Times(s)>>]>>

SkipSection ==
    /\ chunkPc = "sections" /\ nextSection \in DOMAIN sections /\ ~HasContent(nextSection)
    /\ nextSection' = nextSection + 1
    /\ UNCHANGED <<chunkPc, body, title, firstH1, nextBlock, current, h2, sections,
                   bufStart, bufEnd, parts, chunks>>

BeginSection ==
    /\ chunkPc = "sections" /\ nextSection \in DOMAIN sections /\ HasContent(nextSection)
    /\ chunkPc' = "split"
    /\ bufStart' = sections[nextSection].start /\ bufEnd' = sections[nextSection].start
    /\ parts' = 0
    /\ UNCHANGED <<body, title, firstH1, nextBlock, current, h2, sections, nextSection, chunks>>

(* splitUnits: a section that fits is one unit, else a block that fits is; *)
(* else lines are, or what splitByRunes makes of them: any pieces that fit.*)
UnitEnds(section, i) ==
    IF section.end - section.start <= MaxTokens THEN {section.end}
    ELSE IF body[i].end - body[i].start <= MaxTokens THEN {body[i].end}
    ELSE {n \in bufEnd + 1 .. body[i].end : n - bufEnd <= MaxTokens}

Flushed == Append(chunks, [heading |-> HeadingPath(nextSection), part |-> parts,
                           start |-> bufStart, end |-> bufEnd])

(* splitOversized: the next unit joins the part, or begins the next one.   *)
AddUnit(i, unitEnd) ==
    /\ chunkPc = "split" /\ bufEnd < sections[nextSection].end
    /\ body[i].start <= bufEnd /\ bufEnd < body[i].end
    /\ IF bufEnd > bufStart /\ unitEnd - bufStart > TargetTokens
         THEN bufStart' = bufEnd /\ parts' = parts + 1 /\ chunks' = Flushed
         ELSE UNCHANGED <<bufStart, parts, chunks>>
    /\ bufEnd' = unitEnd
    /\ UNCHANGED <<chunkPc, body, title, firstH1, nextBlock, current, h2, sections, nextSection>>

EndOfSection ==
    /\ chunkPc = "split" /\ bufEnd = sections[nextSection].end
    /\ chunks' = Flushed
    /\ chunkPc' = "sections" /\ nextSection' = nextSection + 1
    /\ UNCHANGED <<body, title, firstH1, nextBlock, current, h2, sections, bufStart, bufEnd, parts>>

EndOfSections ==
    /\ chunkPc = "sections" /\ nextSection = Len(sections) + 1
    /\ chunkPc' = "done"
    /\ UNCHANGED <<body, title, firstH1, nextBlock, current, h2, sections, nextSection,
                   bufStart, bufEnd, parts, chunks>>

ChunkerNext ==
    \/ chunkPc = "idle" /\ \E b \in Bodies, fm \in Titles : Parse(b, fm)
    \/ Block \/ Heading \/ EndOfBody
    \/ SkipSection \/ BeginSection
    \/ chunkPc = "split" /\ \E i \in DOMAIN body : \E n \in UnitEnds(sections[nextSection], i) : AddUnit(i, n)
    \/ EndOfSection \/ EndOfSections

ChunkerSpec == ChunkerInit /\ [][ChunkerNext]_chunkerVars

-----------------------------------------------------------------------------
(* The headings a block stands under: the last H2 since the last H1, and   *)
(* the last H3 since either.                                               *)
LastOf(i, levels) ==
    LET js == {j \in 1 .. i : body[j].level \in levels}
    IN  IF js = {} THEN 0 ELSE CHOOSE j \in js : \A k \in js : k <= j
EnclosingOf(i, level) ==
    LET j == LastOf(i, 1 .. level)
    IN  IF j # 0 /\ body[j].level = level THEN <<body[j].text>> ELSE <<>>
Under(i) == <<title>> \o EnclosingOf(i, 2) \o EnclosingOf(i, 3)

(* The first H1, and what of the body a chunk shows.                       *)
IsTitle(p)    == firstH1 # 0 /\ body[firstH1].start <= p /\ p < body[firstH1].end
Shows(c, p)   == c.start <= p /\ p < c.end
Overlaps(c, b) == c.start < b.end /\ b.start < c.end

(* Everything but the first H1 is in the chunks, once and in order; a chunk*)
(* has the breadcrumb of every block it shows something of, up to the      *)
(* number of a repeated one, and at most MaxTokens (chunker.go:45-46,      *)
(* 102-131, 163-167).                                                      *)
EveryBlockIsChunked ==
    chunkPc = "done" =>
        /\ \A p \in 0 .. Length - 1 : (\E k \in DOMAIN chunks : Shows(chunks[k], p)) <=> ~IsTitle(p)
        /\ \A j, k \in DOMAIN chunks : j < k => chunks[j].end <= chunks[k].start
        /\ \A k \in DOMAIN chunks :
              /\ chunks[k].start < chunks[k].end /\ chunks[k].end <= Length
              /\ chunks[k].end - chunks[k].start <= MaxTokens
              /\ \A i \in DOMAIN body : Overlaps(chunks[k], body[i]) =>
                    \/ chunks[k].heading = Under(i)
                    \/ \E n \in 2 .. Len(body) + 1 :
                          chunks[k].heading = Front(Under(i)) \o <<Numbered[<<Last(Under(i)), n>>]>>

(* Two chunks of a document share an id only when one comes from a heading *)
(* that is written like the number of another (chunker.go:142-160).        *)
HeadingTexts == {title} \union {body[i].text : i \in {i \in DOMAIN body : body[i].level # 0}}
SameId(i, j) == chunks[i].heading = chunks[j].heading /\ chunks[i].part = chunks[j].part
IdsAreUnique ==
    chunkPc = "done" =>
        \A i, j \in DOMAIN chunks :
            i # j /\ SameId(i, j)
            => \E s, t \in HeadingTexts, n \in 2 .. Len(body) + 1 : s = Numbered[<<t, n>>]

(* "Disambiguate repeated breadcrumbs so IDs stay unique" (chunker.go:142):*)
(* no two chunks share one.  UpsertDocument refuses a document of which two*)
(* do, and the index run ends there (documents.go:82-85).                  *)
RepeatedBreadcrumbsGetUniqueIds ==
    chunkPc = "done" => \A i, j \in DOMAIN chunks : SameId(i, j) => i = j
=============================================================================
