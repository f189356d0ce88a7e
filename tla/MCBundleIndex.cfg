SPECIFICATION Spec
CONSTANTS
    d1 = d1
    absent = absent
    Docs = {d1}
    Requests = {q1}
    Clients = {c1, c2}
    MaxRev = 2
    Text <- EditThenDelete
    Texts <- AllTexts
    Absent = absent
    DriftTables = {"none", "behind"}
    NoDrift = "unset"
    NoBundle = NoBundle
    LruSize = 2
CONSTRAINT UntilInvalidated
SYMMETRY ClientSymmetry
INVARIANTS
    CompilerTypeOK
    LruWellFormed
    NothingOlderThanAsked
    UntornBundleMatchesItsKey
