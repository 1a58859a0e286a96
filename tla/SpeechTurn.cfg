\* One answer and one method; the repeat limit of the plans lowered to 1.
CONSTANTS
    answer = answer
    method = method
    count = count
    stray = stray
    Numerals = {count, stray}
    Labels <- NamesCount
    Facts = {answer}
    Relations = {method}
    RequiredFacts = {answer}
    RequiredRelations = {method}
    HelpTarget = answer
    InitialTargets <- AnswerThenMethod
    L3Plans <- AnswerThenMethod
    L2Plans <- AnswerThenMethod
    NumberFacts = {answer}
    Utterances <- Texts
    Outputs <- Replies
    RepeatLimit = 1
SPECIFICATION FairSpec
CHECK_DEADLOCK FALSE
INVARIANTS
    AsksForItsInput
    AnswerStaysWithTheChild
PROPERTIES
    CardWordsMatchTheScreen
    EveryTurnIsAnswered
