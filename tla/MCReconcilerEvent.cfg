\* README.md:166, events only about confirmed transactions.
CONSTANTS
    acc = acc
    None = None
    Tx = {t1, t2}
    Account = {acc}
    AccountOf <- MCAccountOf
    Limit = 1
    Replies = {"approved", "timeout", "other4xx"}
    MaxCharges = 2
    MaxFaults = 0
SPECIFICATION Spec
INVARIANT
    EventIsConfirmed
