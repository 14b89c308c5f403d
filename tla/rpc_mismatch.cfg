SPECIFICATION Spec
CONSTANTS
    gui = gui
    monitor = monitor
    Nobody = Nobody
    Threads <- MCThreads
    MaxCalls = 2
    MaxFrags = 2
    EEPBX = FALSE
INVARIANT OwnReply
CHECK_DEADLOCK FALSE
