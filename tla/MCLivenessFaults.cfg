CONSTANTS
    f1 = f1
    d1 = d1
    NoFile = NoFile
    Worker = worker
    Documents = {d1}
    Files = {f1}
    DocumentOf <- SingleFile
    Handlers = {h1}
    MaxAttempts = 1
    TicketLifetime = 1
    ReservationGrace = 1
    ScanOverdue = 1
    Contents <- Nonconforming
    LinkEvents = {}
    MaxDeliveries = 1
    MaxRemovals = 1
    MaxFaults = 1
SPECIFICATION FairJournalSpec
INVARIANTS ReceptionsBounded
PROPERTIES
    QuarantineDrains
    ReservationCloses
    EveryReceptionJournalized
