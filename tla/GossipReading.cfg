SPECIFICATION Spec
CONSTANTS
    me = me  alice = alice  bob = bob
    Observers = {me, alice}
    Reader = me
    NoBatch = NoBatch
    Skew <- AliceAhead
    Ttl = 2
    MaxTtl = 2
    MaxSkew = 1
    MaxSessions = 2
    MaxSigned = 2
    MaxTime = 3
INVARIANTS VoteIsBounded
PROPERTIES OneVotePerObserver NoRollbackInSession
CHECK_DEADLOCK FALSE
