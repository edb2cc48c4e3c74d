SPECIFICATION Spec
\* The user and the commands end.
CHECK_DEADLOCK FALSE
CONSTANTS
    x1 = x1  x2 = x2  m1 = m1  m2 = m2
    None = None
    Failed = Failed
    Name <- Names
    Generations <- FewGenerations
    Path <- PathsWithArchive
    Data = {x1, x2}
    Mode = {m1, m2}
    DefaultMode = m1
    Masked <- NoUmask
    ArchivePath <- ArchiveInside
    Elsewhere <- AllElsewhere
    Sources <- OneSource
    Starts <- OneStart
    Absences <- SomeAbsences
    MaxEdits = 1
    MaxCommands = 2
    MaxAborts = 0
INVARIANT
    PreviousVersionsAreRetrievable
