CONSTANTS
    Requests = {q1}
    Drains = {d1, d2}
    None = None
    Causes <- MCCauses
    Propagation = 1
    Backoff = 1
    Limit = 1
    MaxStops = 1
    MaxClock = 2
    e1 = e1
    e2 = e2
    e3 = e3
    e4 = e4
    e5 = e5
    Events <- MCEvents
    Cursor <- MCCursor
    Foreign <- MCForeign
    Ahead <- MCAhead
    Deliveries = {d1, d2}
    NoEvent = NoEvent
    MaxEnded = 1
SPECIFICATION TrafficSpec
INVARIANTS TrafficTypeOK OneOwner SucceededMeansApplied RowsTellTheirEffect
PROPERTIES NoBlindRetry EveryActionSettles EffectsInCursorOrder
