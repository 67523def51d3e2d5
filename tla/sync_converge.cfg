SPECIFICATION ScenariosSpec
CONSTANTS
    laptop = laptop  server = server
    lpush = lpush  lpush2 = lpush2  spush = spush
    lpull = lpull  lpull2 = lpull2  spull = spull
    Devices <- MCDevices  Home <- MCHome
    Pushers = {lpush, lpush2, spush}  Pullers = {lpull, spull}
    PageSize = 1
    Uids = {1, 2, 3}  Roots = {1}
    LocalOps = {"edit"}
    DuringPull = FALSE  Skewed = TRUE
    Faults = {"crash", "lost"}
    MaxTs = 2  MaxOps = 1  MaxFaults = 1
INVARIANTS Converged 
CHECK_DEADLOCK FALSE
