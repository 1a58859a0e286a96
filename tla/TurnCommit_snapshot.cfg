\* The purge writes back the state it read before a commit.
CONSTANTS
    Requests = {q1}
    ResponseIds = {r1}
    NoResponse = NoResponse
    Policy = "days"
    RawDeadline = 1
    IdemTTL = 2
    MaxTime = 1
    MaxTurns = 2
SPECIFICATION Spec
CHECK_DEADLOCK FALSE
INVARIANTS
    SnapshotCurrent
