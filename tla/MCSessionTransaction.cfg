CONSTANTS
  usdc = usdc
  usdt = usdt
  sol = sol
  w1 = w1
  w2 = w2
  gray = gray
  p = p
  q = q
  async = async
  NONE = NONE
  Sigil = Sigil
  Stable = {usdc, usdt}
  Volatile = {sol}
  Wallets = {w1, w2, gray}
  AllowedDestinations = {w1, w2, gray}
  Graylisted = {gray}
  Protocols = {p, async}
  Async = {async}
  Transactions <- MCTransactions
  Conditions = {"observe_only", "observer"}
  MaxTxSize = 4
  Cap <- MCCap
  Floor = 2
  ProtocolFeeRate = 1
  DeveloperFeeRate = 1
  FeeDenominator = 3
  InitialBalance <- MCBalance
  MaxBalance <- MCMaxBalance
  MaxGain = 1
SPECIFICATION Spec
INVARIANT NothingOutstanding
INVARIANT OutflowIsMetered
INVARIANT FloorIsKept
