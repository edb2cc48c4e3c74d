SPECIFICATION Spec
CONSTANTS
    a = a
    Archive <- NoArchive
    NoBundle = NoBundle
    Torn = Torn
    Radix = 10
    MaxSignatures = 12
    MaxDeaths = 0
INVARIANT
    SavedToNewLocation
