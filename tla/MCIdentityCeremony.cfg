CONSTANTS
    Challenges = {c1, c2}
    Callbacks = {q1, q2}
    Identities = {i1}
    None = None
    Capacity = 1
    ChallengeLifetime = 1
    HandoffLifetime = 1
    Grace = 0
    MappingAttempts = 2
    MaxRestarts = 1
    MaxClock = 2
SPECIFICATION FairSpec
INVARIANTS TypeOK OneSubjectPerIdentity OneSessionPerHandoff NoOrphanSession
PROPERTY EveryCallbackAnswered
CHECK_DEADLOCK FALSE
