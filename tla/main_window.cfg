SPECIFICATION MainSpec
CONSTANTS
    Extens = {1, 2, 3}
    Members = {1, 2}
    PageSizes = {1, 2}
    EEPBX = FALSE
    o1 = o1
    o2 = o2
    Parts = {"selection", "operators", "video", "plans", "times", "book"}
    Ops = {o1, o2}
    Exts = {1, 2}
    Urls <- MCUrls
    MaxSide = 2
    MaxChanges = 2
    NumFiles = 2
    Encoded = {2}
    Passing = {1}
    People = {"p"}
    MaxTasks = 2
    MaxPlans = 2
    MaxPlanLosses = 1
    Weekdays = {3, 7}
    Times = {0, 1}
    Dates <- MCDates
    MaxCycles = 2
    Records = {1, 2}
    NumberKinds <- MCKinds
    Editable = {"mobile"}
    InBook <- MCInBook
    MaxBookLosses = 1
INVARIANTS
    MainTypeOK SelectionMirrors PagerRight ThreeWayHonest NoGhostVideo
    OnRecord TaskRunsAsChosen ReachesLastTicked
PROPERTY MovesOneStep
CHECK_DEADLOCK FALSE
