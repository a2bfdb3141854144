CONSTANTS
    food = food
    rent = rent
    Categories <- MCCategories
    Definitions <- MCDefinitions
    StartDays <- MCStartDays
    Offsets <- MCOffsets
    Amounts = {0, 1}
    Unset = Unset
    MaxCommits <- MCMaxCommits
SPECIFICATION PlanSpec
INVARIANTS RoutesAgree
CHECK_DEADLOCK FALSE
