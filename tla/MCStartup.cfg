SPECIFICATION FairSpec
CONSTANTS
    api = api
    worker = worker
    Processes = {api, worker}
    RoleOf <- Roles
    Nobody = nobody
    Migrations = 1
    Byte = 4
    LoopbackNet = 3
    Configurations <- ProductionConfigurations
    MaxFaults = 2
INVARIANTS TypeOK StartsNeverCollide ServingIsReady ProductionIsElsewhere
PROPERTIES EveryProcessServes
CHECK_DEADLOCK FALSE
