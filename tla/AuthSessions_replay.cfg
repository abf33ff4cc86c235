SPECIFICATION Spec
CONSTANTS
    Request = {r1}
    User = {1}
    Token = {1, 2, 3}
    Email = {e1}
    Password = {p1, p2}
    MaxFailedAttempts = 2
    Null = Null
SYMMETRY Ids
CONSTRAINT InOrder
PROPERTY ReplayEndsSessions
