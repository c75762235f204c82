SPECIFICATION Spec
CONSTANTS
    u1 = u1
    u2 = u2
    t1 = t1
    t2 = t2
    t3 = t3
    t4 = t4
    r1 = r1
    r2 = r2
    r3 = r3
    none = none
    NoUser = none
    NoToken = none
    User <- TwoUsers
    Token <- FourTokens
    Request <- OneRequest
SYMMETRY Symmetry

INVARIANTS EndedStaysEnded OneLivePerFamily InactiveHasNoSession
PROPERTY ImplementsContract
\* Every account may have been removed with no token left to present.
CHECK_DEADLOCK FALSE
