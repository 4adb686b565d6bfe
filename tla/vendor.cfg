SPECIFICATION FairSpec
CONSTANTS
    LongMax = 16777215
    IntMax = 65535
    FloatMax = 67108864
    Dates <- MCDates
    NoBill = NoBill
    Conns <- MCConns
    Slugs = {"billeriq", "columbiagaspa", "other"}
    Site <- MCSite
    Interval = 3
    Timeout = 1
    None = None
    MaxStops = 2
INVARIANT TypeOK
INVARIANT RefetchedWithinTwo
PROPERTY LoginsSpaced
PROPERTY StoredIsShown
PROPERTY AmountSettles
