SPECIFICATION KeySpec
CONSTANTS
    Run = {r1, r2, r3}
    Absent = Absent
    Empty = Empty
    Garbled = Garbled
SYMMETRY Symmetric
INVARIANTS
    SoundIdentity
PROPERTIES
    IdentityKept
CHECK_DEADLOCK FALSE
