SPECIFICATION GlobsSpec
CONSTANTS
    Characters = {"*", "?", "/", "a", "b"}
    GlobSet <- ManyGlobs
    PathSet <- ManyPaths
INVARIANT DirectoryGlobsReachBeneath
CHECK_DEADLOCK FALSE
