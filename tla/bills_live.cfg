SPECIFICATION FairSpec
CONSTANTS
    n1 = n1  n2 = n2  s1 = s1  s2 = s2  r1 = r1  r2 = r2
    Vendor = Vendor  None = None  NoFile = NoFile
    Names = {n1}
    Schedules = {s1, s2}
    Occ <- Occ2
    Amounts = {1}
    VendorAmounts = {}
    VendorDues = {}
    Files <- OneManual
    Requests = {r1}
    MaxDefs = 1
    MaxInsts = 3
    LastDay = 2
    Lookahead = 1
    MaxDay = 1
    MaxStops = 1
INVARIANTS EveryInstanceExplained
PROPERTIES OccurrencesAppear ImplementsLedger
