SPECIFICATION Spec
\* The signatures are bounded: a publisher may have nothing left to sign.
CHECK_DEADLOCK FALSE
CONSTANTS
    Archive = {publisher, reader}
    Publisher = {publisher}
    Editor = {reader}
    Snapshot = {h1, h2}
    Mirror = {m1, m2}
    m1 = m1
    m2 = m2
    NoMirror = NoMirror
    Authority = m2
    FirstSettings <- PublisherAndReader
    MaxSignatures = 3
    MaxEdits = 1
    MaxAborts = 2
INVARIANTS
    TypeOK
    PublishedHistoryIsLinear
    AnswersAreFresh
    PublishedEverywhere
PROPERTY
    AuthorityAdvances
