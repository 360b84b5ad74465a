SPECIFICATION Spec
CONSTANTS
    d1 = d1
    d2 = d2
    DefaultDir = d1
    Dirs <- TwoDirs
    FlagSets <- RandomThreads
    AEP_SIZE = 64
    MAX_THREAD_NUM = 4
    ACCESS_FIRST = 1
    ACCESS_LAST = 8
    KB = 1
    ITERS_UNIT = 1
    SMALL_BUFFER = 1
    SUB_OPS = 2
    WORD = 5
    UINT32 = 64
    UINT64 = 256
    AEP_TAIL_READ_SIZE = 4
INVARIANTS OwnBuffer
