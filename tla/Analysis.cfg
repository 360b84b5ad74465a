SPECIFICATION Spec
CONSTANTS
    Measured <- SomeMeasured
    RunTimes <- SomeRunTimes
    ThreadNums <- OneAndTwo
    SKIP = 1
    UINT32 = 256
    Sort <- SortUp
INVARIANTS  AverageBetween 
