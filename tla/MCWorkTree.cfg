SPECIFICATION Spec
\* The user and the commands end.
CHECK_DEADLOCK FALSE
CONSTANTS
    x1 = x1  x2 = x2  m1 = m1  m2 = m2
    None = None
    Failed = Failed
    Name <- Names
    Generations <- FewGenerations
    Path <- Paths
    Data = {x1, x2}
    Mode = {m1, m2}
    DefaultMode = m1
    Masked <- NoUmask
    ArchivePath = None
    Elsewhere <- AllElsewhere
    Sources <- SomeSources
    Starts <- SomeStarts
    Absences <- SomeAbsences
    MaxEdits = 1
    MaxCommands = 2
    MaxAborts = 1
INVARIANTS
    TypeOK
    PreviousVersionsAreRetrievable
    TreeIsRecorded
    MappingsAreTheTree
    MergeIsThreeWay
