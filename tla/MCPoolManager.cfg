\* Three goroutines, one tenant, four calls.
CONSTANTS
    p1 = p1
    p2 = p2
    p3 = p3
    s1 = s1
    None = None
    Proc = {p1, p2, p3}
    Slug = {s1}
    MaxCalls = 4
SPECIFICATION FairSpec
INVARIANTS
    TypeOK
    OnePoolPerTenant
    LockIsSound
PROPERTY
    Returns
CHECK_DEADLOCK FALSE
