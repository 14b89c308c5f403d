SPECIFICATION LifeSpec
CONSTANTS
    VERSION <- MCVersion
    InitialDbs <- MCInitialDbs
    MaxStarts = 3
    MaxFaults = 0
    EEPBX = FALSE
    Callers = {"c1"}
    Emergency = {}
    OwnChannels = {}
    MaxQueueLosses = 0
    Rooms = {"r1"}
    Users = {"u1"}
    MaxMeetEvents = 0
    MaxLostReplies = 0
INVARIANT OneInstance
CHECK_DEADLOCK FALSE
