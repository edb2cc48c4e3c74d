SPECIFICATION Spec
CHECK_DEADLOCK FALSE
CONSTANTS
    Archive = {publisher}
    Publisher = {publisher}
    Editor = {publisher}
    Snapshot = {h1, h2}
    Mirror = {m1, m2}
    m1 = m1
    m2 = m2
    NoMirror = NoMirror
    Authority = m2
    FirstSettings <- AllOneMirror
    MaxSignatures = 2
    MaxEdits = 1
    MaxAborts = 0
INVARIANT
    EverySignatureHasPrevious
