SPECIFICATION FairSpec
CONSTANTS
    o1 = o1  o2 = o2  o3 = o3  o4 = o4  netA = netA  netB = netB  netK = netK  netH = netH
    Servers = {1, 2, 3}
    NumBlocks = 3
    Width = 2
    Observers = {o1, o2, o3, o4}
    ClusterOf <- MCClusterOf
    Unknown = Unknown
    ObserverCap = 60
    ClusterCap = 60
    UnknownCap = 30
    Discount = 10
    PriorStrength = 4
    PriorRate = 80
    ConfidentClusters = 3
    AccusingClusters = 2
    RemoteShare = 50
    ReportSize <- MCReportSize
    Envelope = 1
    MaxBatch = 5
    MaxReports = 64
    HopPenalty = 60
    QualityWeight = 1
    LoadWeight = 4
    Unreachable = 100000
    NoRoute = NoRoute
    Places <- MCPlaces
    Lazy = {2}
    Opinions <- MCOpinions
    Bonus <- MCBonus
    MaxTally = 1
    MaxLoad = 3
    MaxEvents = 1
    MaxRequests = 2
    Nobody = Nobody
CHECK_DEADLOCK FALSE
INVARIANTS TypeOK PlanIsCheapest NoPileUp ReadersAgree FleetCannotSway BatchFits BestKept
PROPERTIES RequestEnds
