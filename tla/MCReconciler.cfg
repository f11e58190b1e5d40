\* Two transactions, a page that holds both, two faults.
CONSTANTS
    acc = acc
    None = None
    Tx = {t1, t2}
    Account = {acc}
    AccountOf <- MCAccountOf
    Limit = 2
    Replies = {"approved", "rejected4xx", "timeout", "other200", "garbled200"}
    MaxCharges = 2
    MaxFaults = 2
SPECIFICATION FairSpec
INVARIANTS
    TypeOK
    ExecutedWasCharged
PROPERTIES
    SettledStays
    SettledNotCharged
    NoChargeOverVerdict
    Retried
