SPECIFICATION Spec
CONSTANTS
    t1 = t1
    t2 = t2
    Thread <- TwoThreads
    Addr <- TwoAddr
    EvictWords <- SharedWords
    Requests <- TwoRequests
    MaxCalls = 2
    MaxFailures = 1
SYMMETRY TwoSymmetry
INVARIANTS Durable IInv
PROPERTIES ImplementsDurableWrite
