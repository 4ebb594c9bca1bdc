SPECIFICATION Spec
CONSTANTS
    h1 = h1  h2 = h2  s1 = s1  s2 = s2  A = A  B = B  X = X  Y = Y
    Peers = {h1, h2, s1, s2}
    Clusters = {A, X, Y}
    Unknown = Unknown
    ClusterOf <- SpreadClusterOf
    Cheats = {s1, s2}
    HonestAmbiguity = TRUE
    CleanRecord <- BriefRecord
    MinDisputingPartners = 2
    Unit = 1
    FadeNum = 1
    FadeDen = 2
    MaxChecks = 4
PROPERTIES MismatchNeverReleases
