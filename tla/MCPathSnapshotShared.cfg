SPECIFICATION Spec
\* The user may stop working, and the clock stops at its bound.
CHECK_DEADLOCK FALSE
CONSTANTS
    Process = {p1, p2}
    Data = {d1, d2}
    Mode = {m1}
    Inode = {1}
    None = None
    Blank = Blank
    FirstFiles <- OtherFile
    Missing = {gone1, gone2}
    TicksPerSecond = 2
    Renames = TRUE
    MaxTime = 0
    MaxEdits = 3
    MaxFiles = 3
    MaxExtra = 1
    MaxAborts = 1
    d2 = d2
    m1 = m1
    gone1 = gone1
    gone2 = gone2
INVARIANTS
    TypeOK
    HistoryIsComplete
    BlankOnlyAfterAbort
