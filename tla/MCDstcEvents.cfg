SPECIFICATION Spec
CONSTANTS
    HASH_FCN <- MCHash
    HASH_INITIAL_NUM_BUCKETS = 1
    HASH_BKT_CAPACITY_THRESH = 1
    Threads = {t1, t2}
    UserThreads = {t2}
    Nobody = Nobody
    DSTC_MAX_CONNECTIONS = 2
    USER_DATA_PUB_FLAG = 2
    DSTC_EVENT_FLAG = 8
    Indexes = {0, 1}
    Descriptors = {1, 2, 3}
    MaxOpened = 3
    MaxBatch = 2
    MaxFrames <- MCMaxFrames
    HashSteps = 6
INVARIANTS
    TypeOK
    HashFindsItsKeys
    WatchedAsAsked
    LiveEventsReach
    StaleEventsContained
    ArraysSuffice
    OneThreadInRmc
\* The program may exit.
CHECK_DEADLOCK FALSE
