CONSTANTS
    f1 = f1
    f2 = f2
    d1 = d1
    d2 = d2
    NoFile = NoFile
    Worker = worker
    Documents = {d1}
    Files = {f1, f2}
    DocumentOf <- OneDocument
    Handlers = {h1}
    MaxAttempts = 2
    TicketLifetime = 1
    ReservationGrace = 1
    ScanOverdue = 1
    Contents <- AllHealthy
    LinkEvents = {}
    MaxDeliveries = 1
    MaxRemovals = 0
    MaxFaults = 1
SPECIFICATION Spec
SYMMETRY Interchangeable
INVARIANTS
    OneOccupant
    HealthyDepositKept
