SPECIFICATION Spec
CONSTANTS
    Process = {p1, p2}
    Object = {o1}
    Key = {k0, k1, k2}
    NoFile = NoFile
    Blank = Blank
    NoKey = NoKey
    NoWriter = NoWriter
    Dead = Dead
    FirstIdentity = NoFile
    MaxCrashes = 0
INVARIANT
    ReturnedObjectsReadable
