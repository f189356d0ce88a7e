SPECIFICATION Spec
CONSTANTS
    d1 = d1
    d2 = d2
    NumRepos = 1
    Local = {1}
    Docs = {d1}
    MaxCommits = 2
    Touched <- Widening
    WalkCap = 2
    NoRow = NoRow
    MaxFaults = 0
INVARIANTS
    MovedHeadIsCounted
