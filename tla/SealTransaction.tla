-------------------------- MODULE SealTransaction --------------------------
(***************************************************************************)
(* What seal() and buildAgentTransfer() compute: the checks they run on a  *)
(* request and a snapshot of the vault, in the order of the code, and the  *)
(* transaction they compose.  An address is a tuple: an associated token   *)
(* account is <<owner, mint, token program>>, and the agent, the programs, *)
(* the pools and the mints are tuples of their own.                        *)
(***************************************************************************)
EXTENDS Naturals, FiniteSets, SequencesExt

CONSTANTS
  None,                \* an optional value that is absent
  FEE_DENOM,           \* a fee is amount * rate / FEE_DENOM, rounded up
  PROTOCOL_FEE_RATE,
  U64_MAX,             \* the largest amount an instruction can carry
  MAX_TX_SIZE          \* accounts that fit a message without a lookup table

\* The first check of a list that fails, None when all pass.
FirstFailing(checks) ==
  LET failing == SelectSeq(checks, LAMBDA c : c.fails)
  IN  IF failing = <<>> THEN None ELSE Head(failing).code

Check(fails, code) == [fails |-> fails, code |-> code]

----------------------------------------------------------------------------
\* Addresses

Agent == <<"agent">>
Program(name) == <<"program", name>>
Mint(m) == <<"mint", m>>
ProgramData(name) == <<"programdata", name>>

isStablecoinMint(m) == m \in {"usdc", "usdt"}

\* Always derived for the classic token program.
deriveAta(owner, m) == <<owner, m, "spl">>

Infrastructure == {Program("computebudget"), Program("system")}
TokenPrograms == {Program("token"), Program("token2022")}

----------------------------------------------------------------------------
\* seal(): the checks before anything is built

\* Compute-budget and system instructions are dropped; the wallet adds its own.
defiInstructions(p) ==
  SelectSeq(p.instructions, LAMBDA ix : ix.program \notin Infrastructure)

\* Token instructions no agent may place at the top level.
SplTokenBlocked(ix) ==
  /\ ix.program \in TokenPrograms
  /\ \/ ix.disc \in {3, 4, 6, 8, 9, 12, 13, 15}
     \/ ix.program = Program("token2022") /\ ix.disc = 26

targetProtocol(p) ==
  IF p.target # None THEN p.target
  ELSE IF defiInstructions(p) = <<>> THEN None ELSE Head(defiInstructions(p)).program

spending(p) == p.amount > 0

\* The vault is active and the agent is registered and not paused.
AgentChecks(s) ==
  << Check(s.status # "Active", "VAULT_INACTIVE"),
     Check(s.agent = "revoked", "AGENT_NOT_REGISTERED"),
     Check(s.agent = "paused", "AGENT_PAUSED") >>

\* What the request itself must satisfy.
InputChecks(p) ==
  LET defi == defiInstructions(p)
  IN  << Check(p.amount > U64_MAX, "INVALID_AMOUNT"),
         Check(\E i \in DOMAIN defi : SplTokenBlocked(defi[i]), "SPL_TOKEN_OP_BLOCKED"),
         Check(targetProtocol(p) = None, "PROTOCOL_NOT_TARGETED") >>

ceilFee(amount, rate) == (amount * rate + FEE_DENOM - 1) \div FEE_DENOM


\* The spend as the caps will see it.
totalWithFees(p, s) ==
  p.amount + ceilFee(p.amount, PROTOCOL_FEE_RATE) + ceilFee(p.amount, s.developerFeeRate)

\* The daily cap that is left.
remaining(s) == IF s.cap > s.spent THEN s.cap - s.spent ELSE 0

\* At most one recognized DeFi instruction for a stablecoin, exactly one otherwise.
InstructionCount(p) ==
  LET count == Len(SelectSeq(defiInstructions(p), LAMBDA ix : ix.recognized))
  IN  spending(p) /\ IF isStablecoinMint(p.mint) THEN count > 1 ELSE count # 1

PolicyChecks(p, s) ==
  << Check(s.agent = "disabled", "AGENT_ZERO_CAPABILITY"),
     Check(targetProtocol(p) \notin s.protocols, "PROTOCOL_NOT_ALLOWED"),
     Check(InstructionCount(p), "INSTRUCTION_COUNT"),
     Check(spending(p) /\ totalWithFees(p, s) > remaining(s), "CAP_EXCEEDED") >>

----------------------------------------------------------------------------
\* seal(): token accounts and the rewritten instructions

needsOutputStablecoin(p) == spending(p) /\ ~isStablecoinMint(p.mint)

needsOutputSwap(p) ==
  spending(p) /\ isStablecoinMint(p.mint) /\ defiInstructions(p) # <<>>

OutputChecks(p) ==
  << Check(/\ needsOutputStablecoin(p)
           /\ p.outputStablecoin \notin {None, deriveAta("vault", "usdc")}, "ATA_NON_CANONICAL"),
     Check(needsOutputSwap(p) /\ p.outputSwapMint = None, "INVALID_PARAMS"),
     Check(needsOutputSwap(p) /\ p.outputSwapMint = p.mint, "INVALID_PARAMS") >>

\* The vault accounts pinned on both wrapper instructions.
outputStablecoinAccount(p) ==
  IF p.outputStablecoin # None THEN p.outputStablecoin
  ELSE IF needsOutputStablecoin(p) THEN deriveAta("vault", "usdc") ELSE None

outputSwapAccount(p) ==
  IF needsOutputSwap(p) THEN deriveAta("vault", p.outputSwapMint) ELSE None

Mentions(ixs, a) == \E i \in DOMAIN ixs : \E x \in ixs[i].accounts : x.address = a

\* The swap's output reaches neither the agent's account, which is rewritten
\* to the vault's, nor the vault's: seal() warns and goes on.
Undelivered(p) ==
  /\ needsOutputSwap(p)
  /\ ~Mentions(defiInstructions(p), deriveAta("agent", p.outputSwapMint))
  /\ ~Mentions(defiInstructions(p), outputSwapAccount(p))

\* The agent's token accounts, each with the vault account it is replaced by.
canonicalReplacements(p) ==
  {<<deriveAta("agent", m), deriveAta("vault", m)>> :
     m \in {p.mint}
           \cup (IF needsOutputStablecoin(p) THEN {"usdc"} ELSE {})
           \cup {n \in {p.outputSwapMint} :
                   needsOutputSwap(p) /\ Mentions(defiInstructions(p), deriveAta("agent", n))}}

\* The caller's own pairs may not override those.
ReplacementChecks(p) ==
  << Check(\E a \in p.additional, b \in canonicalReplacements(p) : a[1] = b[1],
           "INVALID_PARAMS") >>

ataReplacements(p) == canonicalReplacements(p) \cup p.additional

\* Only a writable account is replaced: authorities and oracles stay.
replaceAgentAtas(ixs, pairs) ==
  LET Rewritten(x) ==
        LET to == {pair[2] : pair \in {q \in pairs : q[1] = x.address}}
        IN  IF x.writable /\ to # {} THEN [x EXCEPT !.address = CHOOSE a \in to : TRUE] ELSE x
  IN  [i \in DOMAIN ixs |-> [ixs[i] EXCEPT !.accounts = {Rewritten(x) : x \in @}]]

rewrittenDefiInstructions(p) == replaceAgentAtas(defiInstructions(p), ataReplacements(p))

\* The accounts of the route the program will see as writable: the fee payer
\* is writable in the compiled message whatever role an instruction gives it.
defiWritable(ixs) ==
  UNION {{x.address : x \in {y \in ixs[i].accounts : y.writable \/ y.address = Agent}} :
           i \in DOMAIN ixs}

\* Whether the Token-2022 program appears in the bundle at all.
bundleTouchesToken2022(ixs) ==
  \E i \in DOMAIN ixs : \/ ixs[i].program = Program("token2022")
                        \/ Mentions(ixs, Program("token2022"))

IsVaultToken2022(a) == Len(a) = 3 /\ a[1] = "vault" /\ a[3] = "token2022"

\* The mints of the vault-owned Token-2022 accounts that exist.
resolveT22OutputMintMetas(writable, existing) ==
  {Mint(a[2]) : a \in {b \in writable \cap existing : IsVaultToken2022(b)}}

\* The vault's stablecoin accounts finalize would not see otherwise.
deriveStablecoinFloorCandidates(p, writable) ==
  {deriveAta("vault", "usdc"), deriveAta("vault", "usdt")}
    \ ({deriveAta("vault", p.mint), outputStablecoinAccount(p)} \cup writable)

resolveStablecoinFloorMetas(candidates, existing) == candidates \cap existing

\* The program data of a target whose build the owner has pinned.
verifiedBuildMetas(p, s) ==
  IF targetProtocol(p) \in s.armed THEN {ProgramData(targetProtocol(p)[2])} ELSE {}

----------------------------------------------------------------------------
\* The composed transaction

\* validate_and_authorize, the route, finalize_session: the two wrappers carry
\* the route's writable accounts, each with what only it needs.
SealedTransaction(p, s, mints, floors) ==
  LET route == rewrittenDefiInstructions(p)
      writable == defiWritable(route)
  IN  [kind     |-> "sandwich",
       mint     |-> p.mint,
       amount   |-> p.amount,
       target   |-> targetProtocol(p),
       version  |-> s.version,
       route    |-> route,
       out      |-> outputStablecoinAccount(p),
       swap     |-> outputSwapAccount(p),
       validate |-> writable \cup mints \cup verifiedBuildMetas(p, s),
       finalize |-> writable \cup floors]

\* The accounts a message holds, less those a lookup table compresses.
measureTransactionSize(tx, table) ==
  LET routed == UNION {{x.address : x \in tx.route[i].accounts} : i \in DOMAIN tx.route}
  IN  Cardinality((tx.validate \cup tx.finalize \cup routed) \ table)

withinLimit(tx, table) == measureTransactionSize(tx, table) <= MAX_TX_SIZE

----------------------------------------------------------------------------
\* buildAgentTransfer()

TransferChecks(p, s) ==
  << Check(p.amount <= 0, "INVALID_AMOUNT"),
     Check(~isStablecoinMint(p.mint), "INVALID_PARAMS"),
     Check(s.status # "Active", "VAULT_INACTIVE"),
     Check(s.agent = "revoked", "AGENT_NOT_REGISTERED"),
     Check(s.agent = "paused", "AGENT_PAUSED"),
     Check(s.agent = "disabled", "AGENT_ZERO_CAPABILITY"),
     Check(p.destination \notin s.destinations, "INVALID_PARAMS") >>

\* With a floor the other stablecoin's account rides along, existing or not.
TransferTransaction(p, s) ==
  LET other == IF p.mint = "usdc" THEN "usdt" ELSE "usdc"
  IN  [kind     |-> "transfer",
       mint     |-> p.mint,
       amount   |-> p.amount,
       target   |-> p.destination,
       version  |-> s.version,
       route    |-> <<>>,
       out      |-> None,
       swap     |-> None,
       validate |-> {},
       finalize |-> IF s.floor > 0 THEN {deriveAta("vault", other)} ELSE {}]
============================================================================
