SPECIFICATION FairSpec
CONSTANTS
    fire = fire
    flood = flood
    leak = leak
    NormalPlans <- MCNormalPlans
    EmergencyPlans <- MCEmergencyPlans
    NoPlan = NoPlan
    EEPBX = FALSE
    MaxReports = 2
    MaxRecords = 2
    MaxTimeouts = 1
INVARIANTS TypeOK OwnRecord OneRecord Recorded AlertFirst
PROPERTY AlertActs
CHECK_DEADLOCK FALSE
