SPECIFICATION FairSpec
CONSTANTS
    u1 = u1
    u2 = u2
    t1 = t1
    t2 = t2
    t3 = t3
    t4 = t4
    r1 = r1
    r2 = r2
    r3 = r3
    none = none
    NoUser = none
    NoToken = none
    User <- OneUser
    Token <- TwoTokens
    Request <- TwoRequests

INVARIANT OnlyRacesOutliveEnd
PROPERTY RequestsFinish
\* Every account may have been removed with no token left to present.
CHECK_DEADLOCK FALSE
