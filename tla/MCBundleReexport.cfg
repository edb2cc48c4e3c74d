SPECIFICATION Spec
\* The commands end.
CHECK_DEADLOCK FALSE
CONSTANTS
    d1 = d1  d2 = d2  f1 = f1  f2 = f2  e = e
    t1 = t1  t2 = t2  c1 = c1  c2 = c2
    None = None
    Object <- Objects
    Snapshot <- Snapshots
    Contents <- ContentsOf
    Dir <- Directories
    Tree <- TreeOf
    Parents <- ParentsOf
    Orders <- FewOrders
    Repeats <- FewOrders
    MaxExports = 2
    MaxCrashes = 0
INVARIANT
    ExportIncludesSnapshots
