SPECIFICATION Spec
\* The user may stop working, and the clock stops at its bound.
CHECK_DEADLOCK FALSE
CONSTANTS
    Process = {p1}
    Data = {d1, d2}
    Mode = {m1, m2}
    Inode = {1, 2}
    None = None
    Blank = Blank
    FirstFiles <- NoFiles
    Missing = {}
    TicksPerSecond = 2
    Renames = FALSE
    MaxTime = 5
    MaxEdits = 3
    MaxFiles = 4
    MaxExtra = 0
    MaxAborts = 0
    d2 = d2
    m1 = m1
    gone1 = gone1
    gone2 = gone2
INVARIANTS
    CacheIsSound
    HistoryIsKept
PROPERTY
    LineOfVersions
