CONSTANTS
    Subjects = {s1}
    Refs = {r1, r2}
    Grants = {g1}
    Mutations = {m1, m2}
    Gates = {q1}
    None = None
    IdleTimeout = 1
    AbsoluteLifetime = 2
    GrantWindow = 1
    SerializationAttempts = 2
    MaxEpoch = 2
    MaxClock = 1
SYMMETRY MCSymmetry
CONSTRAINT MCOneRival
SPECIFICATION Spec
PROPERTIES CommitOnlyLive ImplementsContract
CHECK_DEADLOCK FALSE
