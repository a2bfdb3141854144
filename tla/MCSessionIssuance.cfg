CONSTANTS
    Subjects = {s1, s2}
    Refs = {r1, r2, r3}
    Grants = {}
    Mutations = {}
    Gates = {}
    None = None
    IdleTimeout = 1
    AbsoluteLifetime = 1
    GrantWindow = 1
    SerializationAttempts = 1
    MaxEpoch = 2
    MaxClock = 0
SYMMETRY MCSymmetry
SPECIFICATION Spec
INVARIANTS TypeOK ClosedSubjectHasNoLiveSession VersionsDistinct PriorEndedByItsHeir
CHECK_DEADLOCK FALSE
