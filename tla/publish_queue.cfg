SPECIFICATION ManagerSpec
CONSTANTS
    kNumLevels = 3
    PublishFrequency = 2
    FirstLedger = 12
    MaxClosedLedger = 17
    MaxRestarts = 1
    MaxSent = 0
INVARIANT
    QueuedBucketsOnDisk
CHECK_DEADLOCK FALSE
