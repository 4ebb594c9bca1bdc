SPECIFICATION Spec
CONSTANTS
    me = me  alice = alice  bob = bob
    Observers = {me, alice}
    Reader = me
    NoBatch = NoBatch
    Skew <- InStep
    Ttl = 2
    MaxTtl = 2
    MaxSkew = 1
    MaxSessions = 2
    MaxSigned = 3
    MaxTime = 2
PROPERTIES NoRollback
CHECK_DEADLOCK FALSE
