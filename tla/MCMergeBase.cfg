SPECIFICATION FairSpec
CONSTANTS
    MaxSnapshots = 4
    MaxParents = 2
    Nil = Nil
    Snapshot <- MCSnapshot
    Histories <- MCHistories
    Archives <- MCArchives
INVARIANTS
    BaseIsCommonAncestor
    NilOnlyWhenUnrelated
    FastForwardIsRecognized
    MostRecentWithoutMerges
PROPERTIES
    KeepsContract
    Terminates
