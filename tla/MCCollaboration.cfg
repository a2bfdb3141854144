CONSTANTS
    Members = {a, b, c, d}
    Subjects = {s1, s2, s3}
    Indexed = {s2}
    Destinations = {d1, d2}
    Invites = {i1, i2}
    Transfers = {t1, t2}
    Grants = {g1, g2}
    Founder = a
    FounderSubject = s1
    Partner = b
    PartnerSubject = s2
    Creation = Creation
    None = None
    MaxClock = 2
    MaxRegistry = 2
    TransferLife = 1
    InvitationLife = 2
    CeremonyLife = 1
    ConfirmationLife = 1
    MaxChannelAttempts = 1
SYMMETRY MCSymmetry
CONSTRAINT MCBounds
SPECIFICATION Spec
INVARIANTS TypeOK OnePrimary OwnershipChain AgreedByBoth NoStalePermission26 ConsentMatchesRole
    OneSeat AcceptedOnce LinksAreCurrent StaysAreDisjoint
PROPERTIES ImplementsOwnership
CHECK_DEADLOCK FALSE
