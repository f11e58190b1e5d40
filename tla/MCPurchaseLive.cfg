\* Progress, even for requests slower than their lock: r2 breaks a rule, r3 is malformed.
CONSTANTS
    r1 = r1
    r2 = r2
    r3 = r3
    k1 = k1
    acc = acc
    None = None
    Malformed = Malformed
    Req = {r1, r2, r3}
    Key = {k1}
    Account = {acc}
    Header <- MCHeader
    Body <- MCMixedBodies
    AuthRequired = FALSE
    SlowRequests = TRUE
    MaxRetries = 1
    MaxCrashes = 1
    Replies = {"approved", "timeout", "unavailable"}
SPECIFICATION FairSpec
PROPERTY
    Answered
CHECK_DEADLOCK FALSE
