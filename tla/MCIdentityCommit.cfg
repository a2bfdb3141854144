CONSTANTS
    Challenges = {c1}
    Callbacks = {q1, q2}
    Identities = {i1}
    None = None
    Capacity = 1
    ChallengeLifetime = 2
    HandoffLifetime = 2
    Grace = 1
    MappingAttempts = 1
    MaxRestarts = 0
    MaxClock = 1
SPECIFICATION Spec
INVARIANT SessionIffCommitted
CHECK_DEADLOCK FALSE
