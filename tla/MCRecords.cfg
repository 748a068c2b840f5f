SPECIFICATION RecordsSpec
CONSTANTS
  Unlimited = Unlimited
  Malformed = Malformed
  NoMint = NoMint
  NotSynced = NotSynced
  NoBudget = NoBudget
  NoList = NoList
  Token = Token
  Token2022 = Token2022
  Sigil = Sigil
  WrappedSol = WrappedSol
  Null = Null
  NoAnswer = NoAnswer
  me = me
  another = another
  Payee = "payee"
  Zero = "zero"
  TokenMint = "mint"
  Unused = Unused
  Entries = {1, 2, 3}
  Capacity = 4
  Blank = 0
CHECK_DEADLOCK FALSE
INVARIANTS
  PaidOnceAndCounted
  CumulativeOvershoot
  DuplicatesOverlap
  InstructionsAgree
  LayoutsAgree
  
  OwnedAreFound
  ClientKnowsRules
  AssertionsBind
PROPERTIES
  EveryCallEnds
  ReaderSeesHistory
