SPECIFICATION ClientSpec
CONSTANTS
  s1 = s1
  s2 = s2
  agent = agent
  usdc = usdc
  sol = sol
  dex = dex
  NoMint = NoMint
  NotSynced = NotSynced
  NoBudget = NoBudget
  NoList = NoList
  Token = Token
  Token2022 = Token2022
  Sigil = Sigil
  a1 = a1
  P = P
  Q = Q
  h1 = h1
  h2 = h2
  Unpinned = Unpinned
  Null = Null
  Unused = Unused
  None = None
  FEE_DENOM = 10
  PROTOCOL_FEE_RATE = 1
  U64_MAX = 8
  MAX_TX_SIZE = 8
  Calls = {1, 2}
  Requests <- MCRequests
  Table <- MCTable
  BlockhashTtl = 1
  BlockhashLife = 1
  AltTtl = 1
  MaxCacheAge = 0
  ConfirmTimeout = 1
  InitialVault <- MCVault
  InitialTokens <- MCTokens
  MaxInflow = 1
  MaxFaults = 1
  MaxMoves = 1
SYMMETRY ClientSymmetry
INVARIANTS
  
  SealOutcomeIsTrue
  
  HourlyOvershoot
  BudgetKept
  RapidFireBound
  AppliedAsReviewed
  RefusedOnlyWhenStale
  CloseReclaims
CHECK_DEADLOCK FALSE
