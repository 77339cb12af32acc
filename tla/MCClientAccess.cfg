SPECIFICATION Spec
CONSTANTS
    Links = {k1, k2}
    NoLink = none
    Sessions = {s1}
    Attempts = {a1, a2}
    Offices = {o1, o2}
    Visits = {v1}
    MaxPinAttempts = 2
    LinkLifetime = 1
    SessionLifetime = 2
    MaxUploads = 1
    IpBudget = 1
    IpWindow = 0
    Horizon = 1
SYMMETRY Permuted
INVARIANTS TypeOK GuessesBounded OneActiveLink BlockingToldOnce SessionsAccountedFor IpOvershootBounded BlockingReachesRequest
PROPERTIES AccessPromised
CHECK_DEADLOCK FALSE
