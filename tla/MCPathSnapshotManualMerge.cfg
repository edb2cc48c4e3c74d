SPECIFICATION Spec
\* The user may stop working, and the clock stops at its bound.
CHECK_DEADLOCK FALSE
CONSTANTS
    Process = {p1}
    Data = {d1, d2}
    Mode = {m1}
    Inode = {1}
    None = None
    Blank = Blank
    FirstFiles <- OtherFile
    Missing = {gone1}
    TicksPerSecond = 2
    Renames = FALSE
    MaxTime = 1
    MaxEdits = 2
    MaxFiles = 3
    MaxExtra = 1
    MaxAborts = 0
    d2 = d2
    m1 = m1
    gone1 = gone1
    gone2 = gone2
INVARIANTS
    HistoryIsKept
