SPECIFICATION FairSpec
CONSTANTS
    gui = gui
    monitor = monitor
    Nobody = Nobody
    Threads <- MCThreads
    MaxCalls = 2
    MaxFrags = 2
    EEPBX = FALSE
INVARIANTS TypeOK StreamInStep WholeReply
PROPERTIES Contract LockReleased
CHECK_DEADLOCK FALSE
