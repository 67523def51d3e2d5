SPECIFICATION Spec
CONSTANTS
    a = a  b = b  guest = guest
    Mains <- MCMains  Guests <- MCGuests
    Main = Main  None = None  Sentinel = Sentinel
    People = {"enrolled"}  Modes = {"hybrid", "incognito"}
    MaxTurns = 2  MaxSwitches = 1  MaxFaults = 1  MaxLives = 2
    Row <- MCRow  Worlds <- MCWorlds  Caller <- MCCaller
    p = p  q = q  Queries <- MCQueries  Near <- MCNear
    Successor <- MCSuccessor  Forgettable <- MCForgettable  Configs <- MCConfigs
    Nothing = Nothing
    Limit = 3  Budget = 9  CacheSize = 1
    MaxJobs = 2  MaxWrites = 1  MaxFailures = 1
SYMMETRY MCAlike
INVARIANTS JobsKept TrustHeld TurnCredited NothingForeign  LinkedHeard
CHECK_DEADLOCK FALSE
