\* A source that has failed MaxFailures times is not polled again.
CHECK_DEADLOCK FALSE
SPECIFICATION Spec
CONSTANTS
    r1 = r1
    r2 = r2
    a = a
    b = b
    i1 = i1
    i2 = i2
    i3 = i3
    i4 = i4
    u1 = u1
    u2 = u2
    t1 = t1
    t2 = t2
    t3 = t3
    local = local
    remote = remote
    Missing = Missing
    Blank = Blank
    Untitled = Untitled
    NoHash = NoHash
    NoSource = NoSource
    NoAddress = NoAddress
    NoLocation = NoLocation
    SameHost = SameHost
    Localhost <- LocalNames
    StartUrl <- StartUrls
    Hop <- Hops
    MaxRedirects = 1
    MaxBody = 1
    Runner <- Runners
    Source <- TwoSources
    Feed <- Mirrored
    Format <- AllFeeds
    Validating <- TwoSources
    Rejected = {}
    Locked <- TwoSources
    Reliable <- NoSources
    MayCrash = FALSE
    Threshold = 2
    Interval = 3
    MaxBackoff = 20
    MaxFailures <- UpTo4

INVARIANT RunningIsInProgress
