SPECIFICATION ChunkerSpec
CONSTANTS
    Bodies <- FourPieces
    Texts <- FourTexts
    Titles = {"none", "a"}
    NoTitle = "none"
    DocPath = "doc"
    Numbered <- WithNumber
    MaxTokens = 4
    TargetTokens = 3
INVARIANT RepeatedBreadcrumbsGetUniqueIds
CHECK_DEADLOCK FALSE
