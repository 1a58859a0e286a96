\* Every cafe scenario, a pinned two-task cafe scenario and the park scenarios of
\* two and three targets, entered free and with choices; a
\* learner whose stable level is L3 cannot enter them.
CONSTANTS
    Stages = {"ticket", "pass_break_even"}
    Menus = {"tea", "cake", "feast"}
    Affordable <- MenusInOrder
    ProfileLevels = {"L4", "L3", "L2"}
    Readings <- PackReadings
SPECIFICATION Spec
CHECK_DEADLOCK FALSE
INVARIANTS
    NotesAreTheTasks
    TaughtInEveryTask
PROPERTIES
    TaskRecordIsFinal
    SilentChildFinishesAll
