SPECIFICATION CheckoutSpec
CONSTANTS
    f1 = f1
    f2 = f2
    none = none
    FilePaths <- TwoFiles
    Commits = {1, 2, 3}
    FileContents <- TheirContents
    Tree <- ThreeCommits
    MaxPushes = 1
    MaxStops = 1
INVARIANTS
    CheckoutIsTheCommit
