SPECIFICATION Spec
CONSTANTS
    Links = {k1, k2}
    NoLink = none
    Sessions = {}
    Attempts = {a1}
    Offices = {o1}
    Visits = {}
    MaxPinAttempts = 2
    LinkLifetime = 1
    SessionLifetime = 2
    MaxUploads = 1
    IpBudget = 1
    IpWindow = 0
    Horizon = 1
PROPERTIES RevokedLinkClosesNothing
CHECK_DEADLOCK FALSE
