SPECIFICATION Spec
CONSTANTS
    n1 = n1  n2 = n2  s1 = s1  s2 = s2  r1 = r1  r2 = r2
    Vendor = Vendor  None = None  NoFile = NoFile
    Names = {n1}
    Schedules = {s1}
    Occ <- Occ1
    Amounts = {1}
    VendorAmounts = {1}
    VendorDues = {1}
    Files <- TwoKinds
    Requests = {r1, r2}
    MaxDefs = 2
    MaxInsts = 2
    LastDay = 1
    Lookahead = 1
    MaxDay = 0
    MaxStops = 0
SYMMETRY RequestSymmetry
INVARIANTS IndInv NoOrphans OneInstancePerOccurrence
PROPERTIES OwnershipRespected PaidStaysPaid PaysWhatWasShown
