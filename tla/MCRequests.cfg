SPECIFICATION MCSpec
CONSTANTS
    d1 = d1
    d2 = d2
    absent = absent
    Docs = {d1}
    Requests = {q1}
    q1 = q1
    Clients = {c1, c2}
    MaxRev = 0
    Text <- NoEdits
    Texts <- AllTexts
    Absent = absent
    DriftTables = {"none", "behind", "further"}
    NoDrift = "unset"
    NoBundle = NoBundle
    LruSize = 1
    RankedChunks <- ThreeChunks
    DocOf <- TwoDocuments
    Tokens <- TheirTokens
    Queries <- AllQueries
    FusionDepth = 2
    PerDoc = 1
    Total = 2
    NoQuery = NoQuery
    Rankings <- FiveRankings
    Budgets = {2, 4, 5, 6, 7, 8, 9, 10, 12}
    ScopeRank <- TheirScopes
    Estimate <- TheirEstimates
    Renderings <- ThreeRenderings
    Alike <- OneThree
    HeaderCost = 3
    Header <- TheHeaders
    SectionOverhead = 1
    Marker = 1
    MinTruncated = 2
    Slack = 1
    Calls = {a, b}
    Prints = {f, g}
    Chunks = {k}
    NoEntry = NoEntry
    MaxRuns = 2
    Readers = {r1, r2}
    Pairs = {"p", "q"}
    Contents = {"i0", "i1", "i2"}
    Unlinked <- PairsUnlinked
    Mentions <- PairsMentioned
    NoList = NoList
    NoPrint = NoPrint
    MaxRewrites = 3
    MaxDismissals = 2
    Documents = {d1, d2}
    Answer <- AnsweredWith
    ViaRest = {2, 4}
    RecentSize = 2
    SamplesSize = 2
    ServedMax = 1
    NoState = NoState
    MaxRequests = 4
    MaxResets = 1
    MaxStops = 1
INVARIANTS
    StaleDriftNeedsOverlap
    FusionRespectsBoth
    RulesLead
    SectionsAreTheBestThatFit
    FeedbackTypeOK
    GapsFollowReports
    RefusedNeedsAChange
    SuggestionsTypeOK
    DismissedIsGone
    KeptListIsFresh
    CountersTypeOK
    RingsHoldTheLatest
    ServedAreTheLatest
    ResetStaysReset
    CleanStopKeepsCounters
CHECK_DEADLOCK FALSE
