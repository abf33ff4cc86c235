SPECIFICATION Spec
CONSTANTS
    Request = {r1, r2}
    User = {1}
    Token = {1, 2}
    Email = {e1}
    Password = {p1, p2}
    MaxFailedAttempts = 2
    Null = Null
SYMMETRY Ids
CONSTRAINT InOrder
INVARIANT PasswordChangeEndsSessions
