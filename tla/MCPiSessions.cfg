SPECIFICATION ConsoleSpec
CONSTANTS
    s1 = s1
    s2 = s2
    c1 = c1
    Session = {s1, s2}
    NoSession = NoSession
    Call = {c1, c2}
    Node = {n1}
    Limit <- LimitOf
    ViewOf <- Views
    MaxLoads = 1
    MaxDrops = 1
INVARIANTS
    RunningIsPrompted
    AnswerHasOwnPrompt
    ReaderSeesAll
PROPERTIES
    LogGrows
    MessagesStable
    LateSessionIgnored
    SelectionSettles
    ComposerCatchesUp
CHECK_DEADLOCK FALSE
