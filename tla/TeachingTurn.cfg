\* A pack whose note needs a relation that completion does not, from any stable level.
CONSTANTS
    answer = answer
    method = method
    substep = substep
    aux = aux
    c1 = c1
    c2 = c2
    Auxiliary = aux
    HelpTarget = answer
    ClaimIds = {c1, c2}
    RequiredFacts = {answer}
    RequiredRelations = {method}
    InitialTargets <- AnswerThenMethod
    Facts = {answer}
    Relations = {method, substep}
    NoteRelations = {method, substep}
    L3Plans <- AnswerThenMethod
    L2Plans <- MethodThenAnswer
    Candidates <- PackCandidates
    StartLevels = {"L4", "L3", "L2", "L0"}
SPECIFICATION FairSpec
CHECK_DEADLOCK FALSE
INVARIANTS
    CreditIsTheChilds
PROPERTIES
    SupportIsCoherent
    UnderstandingIsFair
    SilentChildFinishes
