SPECIFICATION FairSession
CONSTANTS
    Conns = {c1}
    Texts <- ShortTexts
    MaxMessages = 2
    BufCap = 9
INVARIANTS
    ParsesTheGrammar
    AnswersTheFirst
PROPERTIES
    StartReturns
CHECK_DEADLOCK FALSE
