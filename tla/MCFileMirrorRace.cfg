SPECIFICATION Spec
CONSTANTS
    a = a
    Archive <- OneArchive
    NoBundle = NoBundle
    Torn = Torn
    Radix = 10
    MaxSignatures = 2
    MaxDeaths = 0
INVARIANT
    OutputIsPulled
