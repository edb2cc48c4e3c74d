SPECIFICATION Spec
CONSTANTS
    MaxSnapshots = 8
    MaxParents = 2
    Nil = Nil
    Snapshot <- MCSnapshot
    Histories <- LateMergeHistory
    Archives <- CompleteArchive
INVARIANT
    BaseIsMostRecent
