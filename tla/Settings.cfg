SPECIFICATION Spec
CONSTANTS
    r1 = r1
    r2 = r2
    red = red
    blue = blue
    retention = retention
    digest = digest
    NotGiven = NotGiven
    Blank <- Spaces
    NoName = NoName
    NoLogo = NoLogo
    Request <- Requests
    Payload <- Payloads
    Image <- Images
    FirstRow <- First
    Hayabusa <- Default
    PageLimit = 1
    MaxRows = 3
    MaxFiles = 1

INVARIANTS TypeOK AuditReplays MonogramAgrees PreferencesKept LogoServed PagesStable
