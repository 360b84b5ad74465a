SPECIFICATION FairSpec
CONSTANTS
    t1 = t1
    t2 = t2
    Thread <- OneThread
    Addr <- OneAddr
    EvictWords <- NoWords
    Requests <- OneRequests
    MaxCalls = 1
    MaxFailures = 0
INVARIANTS TypeOK Contained Copied Durable FaultsExplained
PROPERTIES WritesBackOwnLines CallsReturn
