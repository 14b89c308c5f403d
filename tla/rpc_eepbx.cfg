SPECIFICATION Spec
CONSTANTS
    gui = gui
    monitor = monitor
    Nobody = Nobody
    Threads <- MCThreads
    MaxCalls = 3
    MaxFrags = 1
    EEPBX = TRUE
PROPERTY Contract
CHECK_DEADLOCK FALSE
