SPECIFICATION Spec
CONSTANTS
    a = a
    b = b
    c1 = c1
    c2 = c2
    k1 = k1
    k2 = k2
    k3 = k3
    s1 = s1
    s2 = s2
    Tab <- Tabs
    Call <- Calls
    Slot <- Slots
    Token <- Tokens
    NoToken = NoToken
    NoTab = NoTab

INVARIANTS TypeOK JarIsNewest OnePageNeverReplays SignedOutForGood WaitersAreWoken
SYMMETRY Alike
