\* Every pair of counts around the thresholds 4, 0.70 and 0.90.
CONSTANTS
    MaxAnswers = 11
    MaxRules = 3
    MaxSessions = 2
SPECIFICATION PolicySpec
CHECK_DEADLOCK FALSE
INVARIANTS
    BetterIsNotLower
    OneSupportedStep
