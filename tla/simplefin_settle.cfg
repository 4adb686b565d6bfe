SPECIFICATION FairSpec
CONSTANTS
    u1 = u1  u2 = u2  x1 = x1  x2 = x2  q1 = q1  q2 = q2  g1 = g1
    None = None
    Urls = {u1}
    Reports <- OneBridge
    SfIds = {x1}
    Requests = {q1}
    Goroutines = {g1}
    MaxConns = 2
    MaxAccts = 2
    MaxVersion = 1
    MaxStops = 0
PROPERTIES BalancesSettle
