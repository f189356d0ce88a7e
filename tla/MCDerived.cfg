SPECIFICATION MCSpec
CONSTANTS
    d1 = d1
    d2 = d2
    NumRepos = 2
    Local = {}
    Docs = {d1, d2}
    MaxCommits = 3
    Touched <- Widening
    WalkCap = 2
    NoRow = NoRow
    MaxFaults = 1
    Histories <- FourCommits
    Paths = {"p", "q"}
    Sinces = {1}
    Caps = {0, 2}
    NoCall = NoCall
    Characters = {"*", "?", "/", "a", "b"}
    GlobSet <- ManyGlobs
    PathSet <- ManyPaths
    Bodies <- FourPieces
    Texts <- FourTexts
    Titles = {"none", "a"}
    NoTitle = "none"
    DocPath = "doc"
    Numbered <- WithNumber
    MaxTokens = 4
    TargetTokens = 3
    Documents = {d1, d2}
    Targets = {"x", "y"}
    Candidates <- Either
    NoDoc = NoDoc
    MaxIndexRuns = 2
    MaxCuts = 1
INVARIANTS
    DriftTypeOK
    TableIsExact
    CachedDriftIsCurrent
    DatesAreTheNewest
    MissedOnlyBehindAnOldClock
    MatchesBySegment
    EveryBlockIsChunked
    IdsAreUnique
    GraphIsExact
CHECK_DEADLOCK FALSE
