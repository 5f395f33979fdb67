CONSTANTS
    n1 = n1
    n2 = n2
    n3 = n3
    n4 = n4
    Node <- Four
    LocalID = n1
    Networks <- FourNetworks
    kNumLevels = 3
    Key = {1}
    MaxBucketLedger = 40
    ReadySets = {{0, 1, 2}}
    PublishFrequency = 2
    FirstLedger = 8
    MaxClosedLedger = 11
    MaxRestarts = 1
    MaxSent = 1
    OwnKey <- Busy
    ApplyKey = {1}
    MaxApplyLedger = 19
    MaxChanges = 2
    ApplyFrequency = 4
    UINT32_MAX = 100
    MaxInterrupts = 1
    CatchupFrequency = 4
    Counts = {0, 3, 100}
    Branch = 6
    MaxNetLedger = 11
    MaxMissed = 2
    EntryKey = {1, 2}
    MaxEntryValue = 2
SPECIFICATION NodeSpec
INVARIANTS
    NormalizeKeepsMeaning
    LoopFindsQuorum
    SearchDecides
    ListAgreesWithDatabase
    RestartKeepsList
    StoredBucketsOnDisk
    ArchiveComplete
    BucketsRebuildDatabase
    LclOnChain
    SyncedMeansCurrent
    DeltaIsExact
    CacheIsCurrent
PROPERTIES
    HonestRoundsSucceed
\* Each part stops: a search ends, a bound is reached.
CHECK_DEADLOCK FALSE
