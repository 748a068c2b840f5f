CONSTANTS
  Owners = {me, other}
  Me = me
  FastSlots = 1
  DefaultProbe = 1
  MaxProbe = 2
  IdLimit = 3
  MaxVaults = 3
  None = none
SPECIFICATION Spec
INVARIANTS NextIdIsUnused
CHECK_DEADLOCK FALSE
