\* The code's timeouts in fifths of a second; commands take up to three seconds.
CONSTANTS
    None = None
    Second = 5
    Patience = 150
    Leaves = {20, 150}
    CallTimeout = 50
    Backoff = 1
    MaxRetries = 3
    Tolerance = 150
    LockTTL = 300
    Grace = 15
    Durations = {0, 15, 45, 149}
    Replies = {"approved", "garbled200", "rejected4xx", "unavailable", "timeout"}
SPECIFICATION Spec
INVARIANTS
    TypeOK
    LockCoversRequest
    ExpiryComesLast
    PendingFitsPatience
PROPERTY
    ImplementsPurchase
CHECK_DEADLOCK FALSE
