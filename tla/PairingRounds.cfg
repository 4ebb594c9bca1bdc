SPECIFICATION FairSpec
CONSTANTS
    h = h  s1 = s1  s2 = s2  A = A  B = B  X = X  R = R
    Peers = {h, s1, s2}
    Networks = {A, B, X, R}
    Reach <- FleetReach
    Relays = {R}
    Rank <- PublicFirst
    NoAddress = NoAddress
    Unknown = Unknown
    Unassigned = Unassigned
    Hosts <- GappyHosts
    Gap = 1
    MaxPending = 1
    MaxAge = 1
INVARIANTS NeverSelfChecked OneVoicePerPeer
PROPERTIES OnlyCoArrivalParts FullQueueDrains
