SPECIFICATION FairSpec
CONSTANTS
    Slots = {d1, d2}
    Sends = {t1, t2}
    d1 = d1
    d2 = d2
    t1 = t1
    t2 = t2
    Targets <- OneOrTwoSlots
    NoSend = NoSend
    NoBoard = NoBoard
    MaxRetries = 1
    MaxSessions = 1
    MaxFaults = 1
INVARIANTS TypeOK RemovedStaysRemoved AwaitingIsPolled
PROPERTIES AnalysisEnds
