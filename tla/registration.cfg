SPECIFICATION FairSpec
CONSTANTS
    c1 = c1  c2 = c2  t1 = t1  t2 = t2  t3 = t3  k1 = k1  k2 = k2
    None = None
    Calls = {c1, c2}
    Tokens = {t1, t2, t3}
    Keys = {k1, k2}
    MaxRedeploys = 2
PROPERTIES RetryServed OvertakenNotServed Recovers
