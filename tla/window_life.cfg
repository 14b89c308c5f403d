SPECIFICATION FairLifeSpec
CONSTANTS
    VERSION <- MCVersion
    InitialDbs <- MCInitialDbs
    MaxStarts = 3
    MaxFaults = 2
    EEPBX = FALSE
    Callers = {"c1", "c2", "c3"}
    Emergency = {"c1", "c2"}
    OwnChannels = {"c2"}
    MaxQueueLosses = 1
    Rooms = {"r1", "r2"}
    Users = {"u1", "u2"}
    MaxMeetEvents = 3
    MaxLostReplies = 2
INVARIANTS LifeTypeOK UpgradeWhole CallsShown MembersFollow
PROPERTY LossNoticed
CHECK_DEADLOCK FALSE
