\* Two dispatchers, an observation, a star note and an event Spring
\* refuses; two faults and a back-off that overflows on the second attempt.
CONSTANTS
    Workers = {w1, w2}
    Events = {observation, note, bad}
    StarNotes = {note}
    Poison = {bad}
    NoEvent = NoEvent
    OverflowAttempt = 2
    MaxAttempts = 4
    MaxFaults = 2
SPECIFICATION FairSpec
CHECK_DEADLOCK FALSE
INVARIANTS
    SentMeansStored
    FailedIsHopeless
PROPERTIES
    ClaimIsFenced
    EventuallySent
