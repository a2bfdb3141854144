CONSTANTS
    Calls = {1, 2, 3, 4}
    Actors = {p}
    Keys = {k}
    Commands = {x}
    Transactions = {1, 2}
    Versions = {1, 2, 3}
    None = None
    MaxAuthorization = 2
    Units = {1, 2, 3, 4}
    Records = {boot, mut}
    Bootstrap = {boot}
    Exclusive = {mut}
    Buckets = {1, 2}
    Nil = Nil
    Window = 2
    Threshold = 1
    Burst = 2
    RefillUnits = 1
    RefillInterval = 1
    Overlap = 2
    MaxInstant = 3
    MaxRotations = 1
    Submissions = {1, 2, 3, 4}
    Proposals = {1, 2}
    Drafts = {d}
    Headers = {1, 2}
    Nobody = Nobody
    Day = 2
    TimeLimit = 1
    Retention = 2
    Attempts = 2
    MaxClock = 2
    MaxGeneration = 2
    MaxRelease = 2
    food = food
    rent = rent
    Categories <- MCCategories
    Definitions <- MCDefinitions
    StartDays <- MCStartDays
    Offsets <- MCOffsets
    Amounts = {0, 1}
    Unset = Unset
    MaxCommits <- MCMaxCommits
SPECIFICATION Spec
INVARIANTS TypeOK OneEffectPerKey VersionLine WindowCeiling ReservedUnits OneBudgetPerChain
    RetriesAgree ReadsTellConfirmable PeriodsFollowSchedule PlanRowsExplain
PROPERTIES ClosedPeriodKept
SYMMETRY MCSymmetry
CHECK_DEADLOCK FALSE
