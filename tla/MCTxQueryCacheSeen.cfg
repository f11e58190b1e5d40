\* purchase.go:167: two purchases one after the other, nothing fails.
CONSTANTS
    a1 = a1
    a2 = a2
    c1 = c1
    c2 = c2
    c3 = c3
    r1 = r1
    r2 = r2
    r3 = r3
    None = None
    Account = {a1}
    Change = {c1, c2}
    Purchase = {c1, c2}
    AccountOf <- MCAccountOf
    Reader = {r1, r2}
    ListOf <- MCListOf
    Bypass = {}
    Faults = FALSE
    TTL = 2
    Patience = 1
    MaxTime = 1
SPECIFICATION Spec
INVARIANT
    PurchaseIsSeen
CHECK_DEADLOCK FALSE
