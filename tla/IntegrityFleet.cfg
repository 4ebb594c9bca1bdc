SPECIFICATION FairSpec
CONSTANTS
    h1 = h1  h2 = h2  s1 = s1  s2 = s2  A = A  B = B  X = X  Y = Y
    Peers = {h1, h2, s1, s2}
    Clusters = {A, B, X}
    Unknown = Unknown
    ClusterOf <- FleetClusterOf
    Cheats = {s1, s2}
    HonestAmbiguity = FALSE
    CleanRecord <- Newcomers
    MinDisputingPartners = 2
    Unit = 2
    FadeNum = 1
    FadeDen = 2
    MaxChecks = 3
INVARIANTS OneFleetCannotConvict
PROPERTIES Redemption
