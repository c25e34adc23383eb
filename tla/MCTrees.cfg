SPECIFICATION MCSpec
CONSTANTS
    TreeHeight = 3
    Trees = 2
    NoLeaf = 31
    None = None
    Depth = 2
    Height = 2
    LogW = 2
    Len1 = 4
    Len2 = 2
    Messages <- MCMessages
    Indices <- MCIndices
    MaxSignatures = 2
INVARIANTS
    RootsMeet
    AddressesUsedOnce
    OneMessagePerKey
PROPERTY AllVerified
CHECK_DEADLOCK FALSE
