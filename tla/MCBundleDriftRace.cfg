SPECIFICATION Spec
CONSTANTS
    d1 = d1
    absent = absent
    Docs = {d1}
    Requests = {q1}
    Clients = {c1, c2}
    MaxRev = 0
    Text <- NoEdits
    Texts <- AllTexts
    Absent = absent
    DriftTables = {"none", "behind", "further"}
    NoDrift = "unset"
    NoBundle = NoBundle
    LruSize = 1
SYMMETRY ClientSymmetry
INVARIANTS
    InvalidatedDriftIsGone
