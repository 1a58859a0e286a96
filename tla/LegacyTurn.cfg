\* The ends of the start levels of a profile (L2 and L3 are reached by lowering), stored wording or not, six scenarios.
CONSTANTS
    Lessons <- MCScenarios
    StartLevels = {"L4", "L0"}
    Analyses <- MCAnalyses
    Outputs <- MCOutputs
SPECIFICATION LegacySpec
CHECK_DEADLOCK FALSE
INVARIANTS
    NoteIsTheChilds
    EndIsEarned
    TurnIsCoherent
PROPERTIES
    VisiblyNew
