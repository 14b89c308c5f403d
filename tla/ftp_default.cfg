SPECIFICATION FairSpec
CONSTANTS
    MaxRetryTimes = 3
    MaxJobs = 4
    MaxPending = 5
INVARIANTS TypeOK DeviceAlive InOrder RightDir
PROPERTIES JobsEnd StuckForGood
CHECK_DEADLOCK FALSE
