SPECIFICATION StoreSpec
CONSTANTS
    kNumLevels = 3
    Key = {1}
    MaxBucketLedger = 40
    ReadySets = {{0}, {0, 1, 2}}
INVARIANT
    RestartKeepsList
CHECK_DEADLOCK FALSE
