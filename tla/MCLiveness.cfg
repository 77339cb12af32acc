CONSTANTS
    f1 = f1
    f2 = f2
    d1 = d1
    d2 = d2
    NoFile = NoFile
    Worker = worker
    Documents = {d1, d2}
    Files = {f1, f2}
    DocumentOf <- TwoDocuments
    Handlers = {}
    MaxAttempts = 1
    TicketLifetime = 1
    ReservationGrace = 1
    ScanOverdue = 1
    Contents <- SecondNonconforming
    LinkEvents = {"access_link_blocked", "access_link_expired"}
    MaxDeliveries = 0
    MaxRemovals = 0
    MaxFaults = 0
SPECIFICATION FairSpec
INVARIANTS
    ValidatedWasComplete
PROPERTIES
    HealthyFileJudged
    CompletenessNoticed
