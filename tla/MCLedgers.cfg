SPECIFICATION Spec
CONSTANTS
  r1 = r1
  r2 = r2
  r3 = r3
  p1 = p1
  p2 = p2
  p3 = p3
  a1 = a1
  a2 = a2
  NoProtocol = NoProtocol
  NoAgent = NoAgent
  Unused = Unused
SYMMETRY LedgerSymmetry
INVARIANTS
  LedgersExact
  
  AtMostTwoCaps
  AgeFreesTheTable
  BudgetIsHonest
PROPERTY
  SpendsRespectCaps
CHECK_DEADLOCK FALSE
