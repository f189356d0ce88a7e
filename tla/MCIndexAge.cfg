SPECIFICATION Spec
CONSTANTS
    NumDocs = 2
    MaxRev = 2
    Gone <- Removed
    Malformed <- Broken
    LinksTo <- Mutual
    NoRow = NoRow
    MaxFaults = 0
INVARIANTS
    UpdatedAtIsWhenContentChanged
