SPECIFICATION MCSpec
CONSTANTS
    NumDocs = 2
    MaxRev = 2
    Gone <- Removed
    Malformed <- Broken
    LinksTo <- Mutual
    NoRow = NoRow
    MaxFaults = 2
    f1 = f1
    f2 = f2
    none = none
    FilePaths <- TwoFiles
    Commits = {1, 2, 3}
    FileContents <- TheirContents
    Tree <- ThreeCommits
    MaxPushes = 4
    MaxStops = 3
    p1 = p1
    p2 = p2
    Proposals = {p1, p2}
    Proposed <- SameText
    Base = "old"
    NoProposal = NoProposal
    NoAnswer = NoAnswer
    MaxEdits = 3
    MaxBreaks = 1
    new1 = new1
    Names = {"a", "a.md"}
    KeyRank <- InByteOrder
    old1 = old1
    Blobs = {old1, new1}
    New = new1
    Bases <- TheBases
    DocPaths <- ThePaths
INVARIANTS
    IndexTypeOK
    LinksExactAfterChange
    CheckoutTypeOK
    OnlyACutResetMislabels
    ProposalsTypeOK
    OneFileChanges
PROPERTIES
    PublishedIsOneCheckout
    Converges
    FollowsTheRemote
    ImplementsLifecycle
    PullRequestsAreSettled
    LandedIsSettled
CHECK_DEADLOCK FALSE
