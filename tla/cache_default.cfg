SPECIFICATION FairCacheSpec
CONSTANTS
    n1 = n1
    n2 = n2
    Numbers <- MCNumbers
    Details <- MCDetails
    EEPBX = FALSE
    MaxChanges = 3
    MaxTimeouts = 1
INVARIANTS TypeOK Tracks RollKept
PROPERTY CatchesUp
CHECK_DEADLOCK FALSE
