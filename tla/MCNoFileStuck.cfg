CONSTANTS
    f1 = f1
    f2 = f2
    d1 = d1
    d2 = d2
    NoFile = NoFile
    Worker = worker
    Documents = {d1}
    Files = {f1}
    DocumentOf <- SingleFile
    Handlers = {h1}
    MaxAttempts = 1
    TicketLifetime = 1
    ReservationGrace = 1
    ScanOverdue = 1
    Contents <- AllHealthy
    LinkEvents = {}
    MaxDeliveries = 2
    MaxRemovals = 0
    MaxFaults = 0
SPECIFICATION FairSpec
PROPERTIES
    NoFileStuck
