SPECIFICATION Spec
CONSTANTS
  o = o
  c = c
  d = d
  a = a
  b = b
  w1 = w1
  w2 = w2
  p1 = p1
  NoKey = NoKey
  NONE = NONE
  Keys <- MCKeys
  InitialOwner = o
  AgentKeys = {a, b}
  OwnerKeys = {}
  Willing = {c}
  Limits = {0, 1}
  Capabilities = {1}
  MaxAgents = 2
  MaxSlots = 2
  Threshold = 2
  AutoPromote = FALSE
  Destinations <- OneDestination
  Protocols <- MCProtocols
  MaxGraylist = 2
  InitialTerms <- OneTerms
  Updates <- NoUpdates
  Perms <- SomePerms
  MinTimelock = 1
  MaxTimelock = 2
  MaxGrantDelay = 2
  SingleKeyFloor = 1
  OwnershipDelay = 2
  ReactivateCooldown = 1
  Friction = 2
  MaxApplyAge = 3
  MaxSlotRate = 1
  SlotRates = {1}
  MaxVersion = 3
  MaxLives = 1
  MaxTime = 3
CHECK_DEADLOCK FALSE
INVARIANTS
  OverlayConsistent
PROPERTIES
  TimelockHonored
  VersionPins
  FrozenOnlyTightens
SYMMETRY AgentSymmetry
