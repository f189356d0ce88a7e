-------------------------------- MODULE Globs --------------------------------
(***************************************************************************)
(* What a document governs (internal/staleness Match, globToRegexp,        *)
(* Governing, Coverage): its refs are globs over the paths of a code       *)
(* repository, translated to regular expressions item by item, which are   *)
(* then matched item by item.                                              *)
(*                                                                         *)
(* Here properties are about the translation, so globs and paths are       *)
(* sequences of characters.                                                *)
(***************************************************************************)
EXTENDS Naturals, FiniteSets, Sequences

CONSTANTS
    Characters,
    GlobSet,   \* refs, without surrounding blanks and leading "./" or "/"
    PathSet    \* paths, and for Coverage directories

(* Items of a regular expression: "segs" is any number of whole segments,  *)
(* "all" any characters, "some" and "one" any but "/", "beneath" the end or*)
(* "/" and anything, and characters are themselves.                        *)
Items == {"segs", "all", "some", "one", "beneath"}

ASSUME GlobsAssumption ==
    /\ Characters \intersect Items = {}
    /\ GlobSet \subseteq Seq(Characters) /\ PathSet \subseteq Seq(Characters)
    /\ \A p \in PathSet : p # <<>> /\ p[Len(p)] # "/"

VARIABLES
    globPc,    \* "idle", "write", "ask", "match" or "done"
    glob,
    at,        \* the next character of it
    re,        \* the regular expression, as far as it is written
    against,   \* the path
    item,      \* the next item of re
    reached    \* how much of the path the items before it can match

globVars == <<globPc, glob, at, re, against, item, reached>>

GlobsInit ==
    /\ globPc = "idle" /\ glob = <<>> /\ at = 1 /\ re = <<>>
    /\ against = <<>> /\ item = 1 /\ reached = {}

-----------------------------------------------------------------------------
(* globToRegexp                                                            *)
Wild(g) == \E i \in DOMAIN g : g[i] \in {"*", "?"}
TrimSlash(g) == IF g # <<>> /\ g[Len(g)] = "/" THEN SubSeq(g, 1, Len(g) - 1) ELSE g
Is(g, i, c) == i <= Len(g) /\ g[i] = c

GlobToRegexp ==
    /\ globPc = "idle"
    /\ glob' \in GlobSet
    /\ IF Wild(glob') THEN globPc' = "write" /\ UNCHANGED re
       ELSE /\ globPc' = "ask"
            /\ re' = IF glob' = <<>> THEN <<>> ELSE Append(TrimSlash(glob'), "beneath")
    /\ UNCHANGED <<at, against, item, reached>>

(* "**/" as ".*" followed by "/". *)
ItemAtNoRoot(g, i) ==
    CASE g[i] = "*" /\ Is(g, i + 1, "*") -> [re |-> "all", takes |-> 2]
      [] g[i] = "*" /\ ~Is(g, i + 1, "*") -> [re |-> "some", takes |-> 1]
      [] g[i] = "?" -> [re |-> "one", takes |-> 1]
      [] OTHER -> [re |-> g[i], takes |-> 1]
(* The item for g[i] on, and how many characters it stands for.            *)
ItemAt(g, i) ==
    CASE g[i] = "*" /\ Is(g, i + 1, "*") /\ Is(g, i + 2, "/") -> [re |-> "segs", takes |-> 3]
      [] g[i] = "*" /\ Is(g, i + 1, "*") /\ ~Is(g, i + 2, "/") -> [re |-> "all", takes |-> 2]
      [] g[i] = "*" /\ ~Is(g, i + 1, "*") -> [re |-> "some", takes |-> 1]
      [] g[i] = "?" -> [re |-> "one", takes |-> 1]
      [] OTHER -> [re |-> g[i], takes |-> 1]

WriteItem ==
    /\ globPc = "write" /\ at <= Len(glob)
    /\ re' = Append(re, ItemAt(glob, at).re)
    /\ at' = at + ItemAt(glob, at).takes
    /\ UNCHANGED <<globPc, glob, against, item, reached>>

Compiled ==
    /\ globPc = "write" /\ at > Len(glob)
    /\ globPc' = "ask"
    /\ UNCHANGED <<glob, at, re, against, item, reached>>

-----------------------------------------------------------------------------
(* firstMatch asks whether a path is covered.                              *)
AskGoverning ==
    /\ globPc = "ask"
    /\ globPc' = "match"
    /\ against' \in PathSet /\ reached' = {0}
    /\ UNCHANGED <<glob, at, re, item>>

(* The item can match what comes after the first j characters of p up to   *)
(* the k-th.                                                               *)
Spans(it, p, j, k) ==
    CASE it = "all"     -> j <= k
      [] it = "some"    -> j <= k /\ \A l \in j + 1 .. k : p[l] # "/"
      [] it = "segs"    -> j = k \/ (j < k /\ p[k] = "/")
      [] it = "one"     -> k = j + 1 /\ p[k] # "/"
      [] it = "beneath" -> j = k \/ (j < k /\ p[j + 1] = "/")
      [] OTHER          -> k = j + 1 /\ p[k] = it

MatchItem ==
    /\ globPc = "match" /\ item <= Len(re)
    /\ reached' = {k \in 0 .. Len(against) : \E j \in reached : Spans(re[item], against, j, k)}
    /\ item' = item + 1
    /\ UNCHANGED <<globPc, glob, at, re, against>>

Matched ==
    /\ globPc = "match" /\ item > Len(re)
    /\ globPc' = "done"
    /\ UNCHANGED <<glob, at, re, against, item, reached>>

Verdict == Len(against) \in reached

GlobsNext ==
    \/ GlobToRegexp
    \/ WriteItem \/ Compiled
    \/ AskGoverning
    \/ MatchItem \/ Matched
GlobsSpec == GlobsInit /\ [][GlobsNext]_globVars

-----------------------------------------------------------------------------
(* A segment is what lies between two neighbouring cuts.                   *)
Cuts(s) == {0, Len(s) + 1} \union {i \in DOMAIN s : s[i] = "/"}
Neighbours(s) == {ab \in Cuts(s) \X Cuts(s) :
                     ab[1] < ab[2] /\ \A c \in Cuts(s) : c <= ab[1] \/ ab[2] <= c}
IsDeep(g, a, b) == b = a + 3 /\ g[a + 1] = "*" /\ g[a + 2] = "*"

(* A segment matches one without "**" if its characters can be laid over   *)
(* the pattern's, in order, each "*" taking any number of them: h[i] is how*)
(* far the characters up to g[i] reach.                                    *)
SegmentMatches(g, a, b, p, c, d) ==
    \E h \in [a .. b - 1 -> c .. Len(p)] :
        /\ h[a] = c /\ h[b - 1] = d - 1
        /\ \A i \in a + 1 .. b - 1 :
              IF g[i] = "*" THEN h[i - 1] <= h[i]
              ELSE h[i] = h[i - 1] + 1 /\ g[i] \in {"?", p[h[i]]}

(* Likewise for segments: "**" takes any number of them, at the end one at *)
(* least.                                                                  *)
Takes(g, a, b, p, c, d) ==
    IF IsDeep(g, a, b) THEN c <= d /\ (b = Len(g) + 1 => c < d)
    ELSE <<c, d>> \in Neighbours(p) /\ SegmentMatches(g, a, b, p, c, d)

PathMatches(g, p) ==
    \E f \in [Cuts(g) -> Cuts(p)] :
        /\ f[0] = 0 /\ f[Len(g) + 1] = Len(p) + 1
        /\ \A ab \in Neighbours(g) : Takes(g, ab[1], ab[2], p, f[ab[1]], f[ab[2]])

(* "**" is a segment of its own, wherever it is.                           *)
WholeSegments(g) ==
    \A i \in 1 .. Len(g) - 1 :
        g[i] = "*" /\ g[i + 1] = "*" => i - 1 \in Cuts(g) /\ i + 2 \in Cuts(g)

(* "* and ? stay within one path segment; ** spans segments, and a leading *)
(* **/ also matches the root" (staleness.go:80-82), whatever the mix, where*)
(* ** is a segment of its own and the glob does not end in "/"; a glob     *)
(* without a wildcard matches what it names and what is beneath (82-83).   *)
MatchesBySegment ==
    globPc = "done" =>
        /\ glob = <<>> => ~Verdict
        /\ glob # <<>> /\ ~Wild(glob) =>
              (Verdict <=> \E c \in Cuts(against) \ {0} : SubSeq(against, 1, c - 1) = TrimSlash(glob))
        /\ Wild(glob) /\ WholeSegments(glob) /\ glob[Len(glob)] # "/" =>
              (Verdict <=> PathMatches(glob, against))

(* "A pattern that names a directory (no wildcard, or ending in /) matches *)
(* everything beneath it" (staleness.go:82-83): a glob with a wildcard and *)
(* a "/" at its end matches what is beneath the directories it names.      *)
DirectoryGlobsReachBeneath ==
    (globPc = "done" /\ Wild(glob) /\ WholeSegments(glob) /\ glob[Len(glob)] = "/") =>
        \A c \in Cuts(against) \ {0, Len(against) + 1} :
            PathMatches(TrimSlash(glob), SubSeq(against, 1, c - 1)) => Verdict
=============================================================================
