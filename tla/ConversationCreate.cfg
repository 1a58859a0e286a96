\* Two requests with any bodies the API accepts, while both keys exist.
CONSTANTS
    s1 = s1
    p1 = p1
    home = home
    cafe = cafe
    Requests = {r1, r2}
    Learners = {l1, l2}
    Sessions = {s1}
    Scenarios = {home, cafe}
    HomeTeach = home
    Practices = {p1}
    Payloads = {a, b}
    Inputs <- AllInputs
    None = None
    Transition = TRUE
SPECIFICATION FairSpec
CHECK_DEADLOCK FALSE
INVARIANTS
    SameIdentitySameConversation
    AnswerIsRight
PROPERTIES
    EveryRequestEnds
