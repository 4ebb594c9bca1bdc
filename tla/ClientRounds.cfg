SPECIFICATION FairSpec
CONSTANTS
    p1 = p1  p2 = p2  main = main  t1 = t1  t2 = t2  nobody = nobody
    Peers = {p1, p2}
    Suspects = {p1}
    Main = main
    Handlers = {t1, t2}
    Nobody = nobody
    Attempts = 2
    Timeout = 3
    Interval = 1
    MaxProbe = 1
INVARIANTS TypeOK OneAtATime BusyWhileRunning WarmUpNotMeasured ChatKeepsEverything
PROPERTIES LockReturned StartEnds ConvictLeavesTable ClearedReturns
