SPECIFICATION Spec
CONSTANTS
    p1 = p1  p2 = p2  NoProc = NoProc
    contradict = contradict  forget = forget  lane1 = lane1
    Procs <- MCProcs
    UnitStrategies = {contradict}
    BatchStrategies = {forget}
    PlainStrategies = {lane1}
    Eager = {}
    Plans <- MCOrder
    Triggers = {"if_due"}
    MayBeOff = {lane1}
    FaultPoints = {"due", "enter", "write"}
    TTL = 1  RENEW = 1  CheckEvery = 1  Interval = 0
    MaxUnits = 1  MaxStarts = 2  MaxFaults = 1  MaxSleeps = 0
SYMMETRY MCSymmetry
   
PROPERTIES GrantsSpec 
