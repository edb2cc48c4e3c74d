SPECIFICATION FairLogSpec
CONSTANTS
    MaxSnapshots = 4
    MaxParents = 2
    Snapshot <- MCSnapshot
    Histories <- MCHistories
    Archives <- MCArchives
    Depths <- MCDepths
INVARIANTS
    LogIsAncestry
    LogFailsOnlyWhenIncomplete
    DepthIsRespected
    ExplainedByEarlierEntry
PROPERTY
    LogTerminates
