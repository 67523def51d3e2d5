SPECIFICATION Spec
CONSTANTS
    laptop = laptop  server = server
    lpush = lpush  lpull = lpull  lpull2 = lpull2  lpush2 = lpush2  spush = spush  spull = spull  spull2 = spull2
    Devices <- MCDevices  Home <- MCHome
    Pushers = {lpush, lpush2}  Pullers = {lpull, spull}
    PageSize = 1
    Uids = {1}  Roots = {}
    LocalOps = {"create", "forget"}
    DuringPull = TRUE  Skewed = FALSE
    Faults = {}
    MaxTs = 2  MaxOps = 2  MaxFaults = 0
INVARIANTS Propagated
CHECK_DEADLOCK FALSE
