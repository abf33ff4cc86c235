SPECIFICATION Spec
CONSTANTS
    Request = {r1, r2}
    User = {1, 2, 3}
    Token = {1, 2, 3}
    Email = {e1}
    Password = {p1, p2}
    MaxFailedAttempts = 2
    Null = Null
SYMMETRY Ids
CONSTRAINTS
    InOrder
    OneConcern
INVARIANTS
    TypeOK
    OneSuccessor
    QuietLockedAfterLimit
    QuietChangeEndsSessions
    LaterEmailRefused
    RotationOrder
    LockHasCause
