SPECIFICATION Spec
CONSTANTS
    p1 = p1  p2 = p2  NoProc = NoProc
    contradict = contradict  forget = forget  lane1 = lane1
    Procs <- MCProcs
    UnitStrategies = {contradict}
    BatchStrategies = {forget}
    PlainStrategies = {lane1}
    Eager = {}
    Plans <- MCOrder
    Triggers = {"now"}
    MayBeOff = {}
    FaultPoints = {}
    TTL = 2  RENEW = 1  CheckEvery = 2  Interval = 1
    MaxUnits = 1  MaxStarts = 2  MaxFaults = 0  MaxSleeps = 0
SYMMETRY MCSymmetry
PROPERTIES YieldedNotDone
