SPECIFICATION Spec
CONSTANTS
    LongMax = 16777215
    IntMax = 65535
    FloatMax = 67108864
    Dates <- MCDates
    NoBill = NoBill
    Conns <- MCConns
    Slugs = {"billeriq", "columbiagaspa"}
    Site <- MCSite
    Interval = 3
    Timeout = 1
    None = None
    MaxStops = 1
INVARIANT RefetchedEachInterval
