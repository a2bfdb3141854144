CONSTANTS
    Requests = {q1}
    Drains = {d1, d2}
    None = None
    Causes <- MCLogout
    Propagation = 3
    Backoff = 2
    Limit = 1
    MaxStops = 0
    MaxClock = 2
SPECIFICATION Spec
PROPERTIES DeferredUntilDue
