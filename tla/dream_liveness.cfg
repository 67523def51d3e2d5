SPECIFICATION FairSpec
CONSTANTS
    p1 = p1  p2 = p2  NoProc = NoProc
    contradict = contradict  forget = forget  lane1 = lane1
    Procs <- MCProcs
    UnitStrategies = {contradict}
    BatchStrategies = {forget}
    PlainStrategies = {lane1}
    Eager = {}
    Plans <- MCPhase
    Triggers = {"now", "resume"}
    MayBeOff = {}
    FaultPoints = {"close", "release"}
    TTL = 1  RENEW = 1  CheckEvery = 1  Interval = 0
    MaxUnits = 1  MaxStarts = 2  MaxFaults = 1  MaxSleeps = 1
PROPERTIES ShiftEnds LeaseComesBack
