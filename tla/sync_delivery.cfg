SPECIFICATION FairSpec
CONSTANTS
    laptop = laptop  server = server
    lpush = lpush  lpull = lpull  lpull2 = lpull2  lpush2 = lpush2  spush = spush  spull = spull  spull2 = spull2
    Devices <- MCDevices  Home <- MCHome
    Pushers = {lpush}  Pullers = {spull, spull2}
    PageSize = 1
    Uids = {1, 2}  Roots = {}
    LocalOps = {"create", "forget"}
    DuringPull = TRUE  Skewed = FALSE
    Faults = {"crash", "lost"}
    MaxTs = 3  MaxOps = 2  MaxFaults = 1
  
PROPERTIES TwoPhase 
CHECK_DEADLOCK FALSE
