SPECIFICATION Spec
CONSTANTS
    r1 = r1
    r2 = r2
    c1 = c1
    c2 = c2
    c3 = c3
    Request <- Requests
    Code <- ThreeCodes
    FirstCodes <- OneCode
    PerSet = 1
    MaxFailed = 2
    Lockout = 2

INVARIANT SingleUse
