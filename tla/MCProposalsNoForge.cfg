SPECIFICATION ProposalsFairSpec
CONSTANTS
    p1 = p1
    p2 = p2
    Proposals = {p1}
    Proposed <- SameText
    Base = "old"
    NoProposal = NoProposal
    NoAnswer = NoAnswer
    MaxEdits = 1
    MaxBreaks = 0
PROPERTIES
    LandedWithoutForgeIsMerged
CHECK_DEADLOCK FALSE
