SPECIFICATION Spec
CONSTANTS
    a = a
    Archive <- OneArchive
    NoBundle = NoBundle
    Torn = Torn
    Radix = 10
    MaxSignatures = 5
    MaxDeaths = 2
INVARIANTS
    TypeOK
    MirrorIsComplete
    PulledIsComplete
