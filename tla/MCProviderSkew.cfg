CONSTANTS
    e1 = e1
    e2 = e2
    e3 = e3
    e4 = e4
    e5 = e5
    Events <- MCEvents
    Cursor <- MCCursor
    Foreign <- MCForeign
    Ahead <- MCAhead
    Deliveries = {d1, d2}
    NoEvent = NoEvent
    MaxEnded = 0
SYMMETRY MCSymmetry
SPECIFICATION EventsSpec
INVARIANTS AppliedMeansEffected
