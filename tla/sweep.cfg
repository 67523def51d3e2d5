SPECIFICATION FairSpec
CONSTANTS
    provider = provider  dream = dream  chat = chat  mail = mail
    Free = Free  Orphaned = Orphaned
    Sweepers <- MCSweepers
    Sessions = {chat, mail}
    MaxRows <- MCRows  MaxCalls <- MCCalls
    Faults = {"down", "locked", "crash", "slow"}
    MaxBuffer = 2  MaxFaults = 2
INVARIANTS ExtractedOnce NothingLost
 
CHECK_DEADLOCK FALSE
