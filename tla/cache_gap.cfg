SPECIFICATION CacheSpec
CONSTANTS
    n1 = n1
    n2 = n2
    Numbers <- MCNumbers
    Details <- MCDetails
    EEPBX = FALSE
    MaxChanges = 2
    MaxTimeouts = 0
INVARIANT CacheFresh
CHECK_DEADLOCK FALSE
