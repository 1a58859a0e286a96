CONSTANTS
    Requests <- MCRequests
    ResponseOf <- MCResponses
    TurnOf <- MCTurns
    Last = 3
    Stages = 1
SPECIFICATION ParentSpec
CHECK_DEADLOCK FALSE
INVARIANTS
    RunsOnce
    AnswerIsItsTurn
PROPERTIES
    CursorAdvances
    RequestsSettle
