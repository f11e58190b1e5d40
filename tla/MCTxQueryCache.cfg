\* A purchase and an update, three readers, one of them past the cache, every fault.
CONSTANTS
    a1 = a1
    a2 = a2
    c1 = c1
    c2 = c2
    c3 = c3
    r1 = r1
    r2 = r2
    r3 = r3
    None = None
    Account = {a1, a2}
    Change = {c1, c2}
    Purchase = {c1}
    AccountOf <- MCAccountOf
    Reader = {r1, r2}
    ListOf <- MCListOf
    Bypass = {r2}
    Faults = TRUE
    TTL = 2
    Patience = 1
    MaxTime = 3
SPECIFICATION Spec
INVARIANTS
    TypeOK
    Staleness
    BypassIsFresh
CHECK_DEADLOCK FALSE
