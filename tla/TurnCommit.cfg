\* Two requests race each other and the purge across the raw deadline.
CONSTANTS
    Requests = {q1, q2}
    ResponseIds = {r1, r2}
    NoResponse = NoResponse
    Policy = "days"
    RawDeadline = 1
    IdemTTL = 1
    MaxTime = 1
    MaxTurns = 3
SPECIFICATION FairSpec
CHECK_DEADLOCK FALSE
INVARIANTS
    SameIdSameTurn
    CreditsBounded
PROPERTIES
    NoRawRecreated
    LogSpec
    EveryRequestAnswered
