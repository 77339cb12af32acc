SPECIFICATION FairSpec
CONSTANTS
    Callers = {r1, r2, p1}
    Places = 1
    QueueRoom = 1
    Logins = {r1, r2}
    Pins = {p1}
    Addresses = {i1, i2}
    NoAddress = none
    Threshold = 1
    MaxDelay = 1
    Decay = 2
    IpBudget = 1
    IpWindow = 1
    Horizon = 2
    MaxLogins = 3
    MaxStoreErrors = 1
INVARIANTS TypeOK PlacesExact StrangerNeverRefused IpOvershootBounded
PROPERTIES GateIsSlots SuccessForgetsItsAddressOnly QueuedIsServed

\* Once every place is lost, and the logins and the clock have come to their
\* bounds, a PIN waits for ever: that stop is real.
CHECK_DEADLOCK FALSE
