SPECIFICATION FairZoneSpec
CONSTANTS
    n1 = n1
    Numbers = {n1}
    Members <- MCMembers
    Details <- MCDetails
    EEPBX = FALSE
    MaxChanges = 3
    MaxTimeouts = 0
INVARIANTS ZoneTypeOK IconsFollow DynamicGroupsExact
PROPERTY CallsAppear
CHECK_DEADLOCK FALSE
