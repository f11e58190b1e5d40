\* Two requests under one key, one retry, a crash.
CONSTANTS
    r1 = r1
    r2 = r2
    r3 = r3
    k1 = k1
    acc = acc
    None = None
    Malformed = Malformed
    Req = {r1, r2}
    Key = {k1}
    Account = {acc}
    Header <- MCHeader
    Body <- MCBodies
    AuthRequired = TRUE
    SlowRequests = FALSE
    MaxRetries = 1
    MaxCrashes = 1
    Replies = {"approved", "other200", "garbled200", "rejected4xx", "other4xx", "unavailable", "timeout", "neterr"}
SPECIFICATION Spec
INVARIANTS
    TypeOK
    AnswerBackedByRow
    ExecutedWasCharged
    EventBackedByRow
    ChargeHasRowOr500
    MutualExclusion
    LockHasReason
    LateNeverCharges
PROPERTY
    ImplementsLedger
CHECK_DEADLOCK FALSE
