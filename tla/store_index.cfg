SPECIFICATION Spec
CONSTANTS
    Talks = {"t"} Said = {"x", "y"} Memories = {"m"}
    Labels = {"verified", "failed"} Reactions = {"down"}
    MsgWindow = 1 OutcomeWindow = 1 Grace = 3 MineRows = 2
    MaxAsked = 2 MaxNow = 6 MaxStops = 1
    Sessions = {1, 2} OwnersSessions = {1} Titles = {"a"}
    EndLabels = {"verified", "failed", "partial"}
    Gap = 2 MaxEpisodeTurns = 2 MaxEpisodes = 2 MaxDistill = 1
    MaxTurns = 3 MaxNights = 1 MaxRuns = 2 MaxBreaks = 1
    Scopes = {"u"} Everybody = Everybody Tiers <- MCTiers
    MinCluster = 2 MaxLessons = 2 MaxMemories = 4 MaxPasses = 2
    People = {"o", "p"} Channels = {"g", "d"} Peers = {"p"} Profiles = {"A", "B"}
    MaxCards = 3 MaxSaid = 3 MaxBuilds = 3
    Dreams = {"dream"}  Shells = {"shell"}  Names = {"deploy"}
    Evidence <- MCEvidence  Tallies <- MCTallies
    RetireAfter = 1  Host = Host
    MaxRows = 3  MaxTexts = 2  MaxFaults = 1
    Hosts = {"g"} Drainers = {"d1", "d2"}
    MaxPending = 2 WriteBatch = 2 DrainLimit = 2 MaxSignals = 4 MaxDrains = 4
    Callers = {"c1", "c2"} Budget = 1 Costs = {1} NoCaller = NoCaller
    MaxDays = 1 MaxSpent = 5 MaxStopped = 1 MaxWorks = 1
    Openers = {"old", "new", "plain"} Release <- MCReleases Capable = {"old", "new"}
    OldVersions = {1, 2} Absent = Absent Nobody = Nobody
    MaxStored = 2 MaxOpens = 4 MaxDeaths = 1
    Owner = "o" Guest = "g" Everyone = "all" Heads = {"m1"} Tails = {"v1"}
    Turns = {"t1"} Shorts = {"x", "y"} ShortOf <- MCShortOf NoRow = "none"
    MaxIterations = 3 MaxChanges = 1
INVARIANT IndexWhole
CHECK_DEADLOCK FALSE
