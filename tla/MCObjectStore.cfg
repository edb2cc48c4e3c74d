SPECIFICATION MCSpec
CONSTANTS
    Process = {p1, p2}
    Object = {o1, o2}
    Key = {k0, k1, k2}
    NoFile = NoFile
    Blank = Blank
    NoKey = NoKey
    NoWriter = NoWriter
    Dead = Dead
    FirstIdentity = k0
    MaxCrashes = 2
INVARIANTS
    TypeOK
    ReadableUntilCrash
    StoredObjectsAreFound
    ReturnedObjectsKept
    EncryptedToTheIdentity
PROPERTY
    IdentityIsKept
