SPECIFICATION Spec
CONSTANTS
    h1 = h1  h2 = h2  c1 = c1  A = A  B = B  X = X
    gpuA = gpuA  gpuB = gpuB  fp16 = fp16  nf4 = nf4
    Peers = {h1, h2, c1}
    Clusters = {A, B, X}
    Unknown = Unknown
    ClusterOf <- TheClusterOf
    Cheats = {c1}
    HonestAmbiguity = TRUE
    CleanRecord <- Newcomers
    MinDisputingPartners = 2
    Unit = 1
    FadeNum = 1
    FadeDen = 2
    MaxChecks = 2
    Modes = {fp16, nf4}
    Inputs = {1, 2}
    Output <- TheOutput
    Forged <- TheForged
    Sessions <- TheSessions
    Gpu <- TheGpu
    Mode <- TheMode
    Profile <- TheProfile
    NoTable = NoTable
    Scale = 10000
    MinSamples = 2
    QNum = 9
    QDen = 10
    Multiplier = 6
    Floor = 1
    MaxPairings = 1
INVARIANTS TypeOK SameEitherWay
PROPERTIES JudgesAsAssumed
