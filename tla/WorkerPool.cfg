SPECIFICATION PoolFairSpec
CONSTANTS
    w1 = w1
    w2 = w2
    w3 = w3
    a = a
    b = b
    c = c
    NoToken = NoToken
    NoStamp = NoStamp
    Worker <- Workers
    Token <- Tokens
    TTL = 2
    HardLimit <- Limits
    BeatLimit = 1
    StaleAfter = 3
    StampTTL = 5
    MaxSilence = 5

INVARIANTS PoolTypeOK OneCollector KeptUntilExpiry StallShows NoFalseAlarm
PROPERTY FreedAgain
