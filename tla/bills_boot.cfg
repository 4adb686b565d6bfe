SPECIFICATION Spec
CONSTANTS
    n1 = n1  n2 = n2  s1 = s1  s2 = s2  r1 = r1  r2 = r2
    Vendor = Vendor  None = None  NoFile = NoFile
    Names = {n1, n2}
    Schedules = {s1, s2}
    Occ <- Occ0
    Amounts = {0, 1}
    VendorAmounts = {1}
    VendorDues = {0}
    Files <- MixedFiles
    Requests = {r1}
    MaxDefs = 2
    MaxInsts = 0
    LastDay = 0
    Lookahead = 0
    MaxDay = 0
    MaxStops = 2
INVARIANTS TypeOK BootReconciles
PROPERTIES OwnershipRespected ListedBillsKept KnownAmountKept
