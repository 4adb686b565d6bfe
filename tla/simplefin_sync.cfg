SPECIFICATION Spec
CONSTANTS
    u1 = u1  u2 = u2  x1 = x1  x2 = x2  q1 = q1  q2 = q2  g1 = g1
    None = None
    Urls = {u1, u2}
    Reports <- TwoBridges
    SfIds = {x1, x2}
    Requests = {q1}
    Goroutines = {g1}
    MaxConns = 2
    MaxAccts = 2
    MaxVersion = 0
    MaxStops = 1
INVARIANTS TypeOK SingleConnection SyncedMeansFetched ShownIdsHold
PROPERTIES ParentChoicesKept
