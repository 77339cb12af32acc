CONSTANTS
    f1 = f1
    f2 = f2
    d1 = d1
    d2 = d2
    NoFile = NoFile
    Worker = worker
    Documents = {d1}
    Files = {f1}
    DocumentOf <- SingleFile
    Handlers = {h1}
    MaxAttempts = 1
    TicketLifetime = 1
    ReservationGrace = 1
    ScanOverdue = 1
    Contents <- SomeInfected
    LinkEvents = {}
    MaxDeliveries = 1
    MaxRemovals = 1
    MaxFaults = 1
SPECIFICATION Spec
SYMMETRY Interchangeable
INVARIANTS
    TypeOK
    CleanIsStored
    RemovedIsGone
PROPERTIES
    DepositPromised
