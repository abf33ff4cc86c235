SPECIFICATION FairSpec
CONSTANTS
    Send = {s1, s2, s3}
    Owner = {o1, o2}
    HistoryLimit = 2
CHECK_DEADLOCK FALSE
INVARIANTS
    TypeOK
    OneQuestionOneAnswer
    ContextIsConversation
PROPERTY EverySendEnds
