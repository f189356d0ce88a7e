------------------------------- MODULE MCGlobs -------------------------------
(* An instance of Globs for TLC: globs of up to four characters against    *)
(* paths of up to five, no segment of either empty.                        *)
EXTENDS Globs

UpToLength(S, n) == UNION {[1 .. k -> S] : k \in 0 .. n}

ManyGlobs == {g \in UpToLength({"*", "?", "/", "a"}, 4) :
                /\ g = <<>> \/ g[1] # "/"
                /\ \A i \in 1 .. Len(g) - 1 : g[i] # "/" \/ g[i + 1] # "/"}
ManyPaths == {p \in UpToLength({"/", "a", "b"}, 5) :
                /\ p # <<>> /\ p[1] # "/" /\ p[Len(p)] # "/"
                /\ \A i \in 1 .. Len(p) - 1 : p[i] # "/" \/ p[i + 1] # "/"}
=============================================================================
