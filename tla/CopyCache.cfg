\* Two conversations, drafts that differ, one that the guard refuses.
CONSTANTS
    Conversations = {c1, c2}
    Texts = {t1, t2, bad}
    Safe = {t1, t2}
    Fallback = Fallback
    None = None
    MaxAttempts = 3
SPECIFICATION FairSpec
CHECK_DEADLOCK FALSE
INVARIANTS
    ShownIsSafe
PROPERTIES
    TextOnceFixedStays
    ResolveEnds
