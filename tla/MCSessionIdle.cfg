CONSTANTS
    Subjects = {s1}
    Refs = {r1}
    Grants = {}
    Mutations = {m1}
    Gates = {q1}
    None = None
    IdleTimeout = 2
    AbsoluteLifetime = 4
    GrantWindow = 1
    SerializationAttempts = 1
    MaxEpoch = 1
    MaxClock = 2
SPECIFICATION Spec
PROPERTIES IdleSlidesForward
CHECK_DEADLOCK FALSE
