CONSTANTS
    Subjects = {s1}
    Refs = {r1}
    Grants = {g1, g2}
    Mutations = {}
    Gates = {}
    None = None
    IdleTimeout = 4
    AbsoluteLifetime = 4
    GrantWindow = 1
    SerializationAttempts = 1
    MaxEpoch = 1
    MaxClock = 2
SPECIFICATION Spec
PROPERTIES RefusedOnlyByLiveGrant
CHECK_DEADLOCK FALSE
