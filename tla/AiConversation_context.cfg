SPECIFICATION Spec
CONSTANTS
    Send = {s1, s2, s3}
    Owner = {o1, o2}
    HistoryLimit = 2
SYMMETRY Ids
CHECK_DEADLOCK FALSE
INVARIANT QuestionInContext
