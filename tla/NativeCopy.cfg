SPECIFICATION Spec
CONSTANTS
    t1 = t1
    t2 = t2
    Thread <- TwoThreads
    Addr <- NativeAddr
    EvictWords <- SharedWords
    Workloads <- NativeLoads
    Chunk = 64
INVARIANTS TypeOK FillsAccessSize NativeInv
PROPERTIES NativeImplementsDurableWrite NativeCallsReturn
