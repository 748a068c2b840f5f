------------------------------- MODULE Shield -------------------------------
(***************************************************************************)
(* The client-side policy engine: inspector.ts, policies.ts and            *)
(* core/policies.ts, evaluateInstructions, the velocity ceiling and the    *)
(* session binding check of shield.ts, and velocity-tracker.ts.            *)
(*                                                                         *)
(* An instruction is the little the inspector looks at: its program, what  *)
(* the first data byte says it does, whether data and accounts are long    *)
(* enough to be read, and the fields of a transfer.  A compiled            *)
(* transaction is a sequence of instructions.                              *)
(***************************************************************************)
EXTENDS Naturals, Sequences, SequencesExt, FiniteSets

CONSTANTS
  NoMint,             \* the mint of a plain Transfer, recorded as ""
  NotSynced,          \* no on-chain state has been resolved yet
  NoBudget,           \* the agent has no spending limit of its own
  Day,                \* 86_400_000 ms
  PruneThreshold,     \* 10_000 entries
  Token, Token2022,   \* the two SPL token programs
  SystemPrograms,     \* system, compute budget and associated-token programs
  Sigil,              \* SIGIL_PROGRAM_ADDRESS
  StableMints,        \* isStablecoinMint on the configured network
  WrappedSol,         \* the third mint with a default limit
  NoList,             \* an allowlist that was not configured
  Hour, Minute        \* windows, in ticks

-----------------------------------------------------------------------------
(***************************************************************************)
(* The client's own spending ledger: class ShieldState of shield.ts.  It   *)
(* is a value here, its methods operators from one value to the next;      *)
(* ShieldedSigner and X402Fetch hold it in a variable and share it between *)
(* their callers.  "now" is Date.now(), in ticks.                          *)
(***************************************************************************)

\* A transfer the ledger remembers, and the empty ledger.
SpendEntry(mint, amount, now) == [mint |-> mint, amount |-> amount, ts |-> now]

EmptyState ==
  [spendEntries |-> <<>>, txEntries |-> <<>>, resolvedState |-> NotSynced,
   localUsd |-> 0, network |-> FALSE, enforceUsed |-> FALSE]

SumAmounts(entries) == FoldLeft(LAMBDA sum, e : sum + e.amount, 0, entries)

\* An entry is inside the window as long as its age is at most the window.
Within(entries, window, now) == SelectSeq(entries, LAMBDA e : e.ts + window >= now)

getSpendInWindow(st, mint, window, now) ==
  SumAmounts(SelectSeq(Within(st.spendEntries, window, now), LAMBDA e : e.mint = mint))

getTotalSpendInWindow(st, window, now) ==
  SumAmounts(Within(st.spendEntries, window, now))

getTransactionCountInWindow(st, window, now) ==
  Len(Within(st.txEntries, window, now))

-----------------------------------------------------------------------------

\* Entries older than a day are dropped, but only once a list is too long.
prune(st, now) ==
  LET Fresh(s) == IF Len(s) > PruneThreshold THEN Within(s, Day, now) ELSE s
  IN  [st EXCEPT !.spendEntries = Fresh(@), !.txEntries = Fresh(@)]

recordSpend(st, mint, amount, now) ==
  prune([st EXCEPT !.spendEntries = Append(@, SpendEntry(mint, amount, now))], now)

recordTransaction(st, now) ==
  prune([st EXCEPT !.txEntries = Append(@, [ts |-> now])], now)

recordUsdSpend(st, amount) == [st EXCEPT !.localUsd = @ + amount]

\* Faulty variant: the local additions survive a sync.
SyncKeepsAdditions(st, resolved) ==
  [st EXCEPT !.resolvedState = resolved, !.network = TRUE]

\* The on-chain baseline is replaced and the local additions start again.
syncFromOnChain(st, resolved) ==
  [st EXCEPT !.resolvedState = resolved, !.localUsd = 0, !.network = TRUE]

\* What the 24h budgets look like from here: the baseline and the additions.
getEffectiveGlobalSpent24h(st) ==
  st.localUsd + (IF st.resolvedState = NotSynced THEN 0 ELSE st.resolvedState.spent)

HasAgentBudget(st) ==
  st.resolvedState # NotSynced /\ st.resolvedState.agentBudget # NoBudget

getEffectiveAgentSpent24h(st) ==
  IF HasAgentBudget(st) THEN st.resolvedState.agentBudget.spent + st.localUsd ELSE NoBudget

markEnforceUsed(st) == [st EXCEPT !.enforceUsed = TRUE]

reset(st) == EmptyState

-----------------------------------------------------------------------------
\* inspector.ts

IsTokenIx(ix) == ix.program \in {Token, Token2022} /\ ix.op # "no_data"

IsTransfer(ix) == IsTokenIx(ix) /\ ix.op \in {"transfer", "transfer_checked"} /\ ix.complete

\* A plain Transfer does not name its mint.
TransferInfo(ix) ==
  [mint |-> IF ix.op = "transfer_checked" THEN ix.mint ELSE NoMint,
   amount |-> ix.amount, authority |-> ix.authority]

DangerousOps == {"approve", "approve_checked", "set_authority", "close_account", "revoke"}

Outgoing(transfers, signer) == SelectSeq(transfers, LAMBDA t : t.authority = signer)

analyzeInstructions(ixs, signer) ==
  LET moves == SelectSeq(ixs, IsTransfer)
      transfers == [i \in DOMAIN moves |-> TransferInfo(moves[i])]
  IN  [programIds |-> {ix.program : ix \in ToSet(ixs)},
       tokenTransfers |-> transfers,
       estimatedValue |-> SumAmounts(Outgoing(transfers, signer)),
       dangerousOperations |-> {ix \in ToSet(ixs) : IsTokenIx(ix) /\ ix.op \in DangerousOps}]

\* Only transfers of a known stablecoin count towards the on-chain budget.
computeStablecoinUsd(transfers, signer) ==
  SumAmounts(SelectSeq(Outgoing(transfers, signer), LAMBDA t : t.mint \in StableMints))

-----------------------------------------------------------------------------
\* core/policies.ts

DEFAULT_POLICIES ==
  [maxSpend |-> {[mint |-> m, amount |-> 1000, window |-> Day] : m \in StableMints}
                \cup {[mint |-> WrappedSol, amount |-> 10, window |-> Day]},
   blockUnknownPrograms |-> TRUE, rateLimit |-> [maxTransactions |-> 60, window |-> Hour]]

\* Every field the caller left out keeps its default; a spend limit without a
\* window is a daily one.
resolvePolicies(input) ==
  LET Field(f, default) == IF f \in DOMAIN input THEN input[f] ELSE default
  IN  [spendLimits |-> Field("maxSpend", DEFAULT_POLICIES.maxSpend),
       allowedProtocols |-> Field("allowedProtocols", NoList),
       blockUnknownPrograms |-> Field("blockUnknownPrograms", DEFAULT_POLICIES.blockUnknownPrograms),
       rateLimit |-> Field("rateLimit", DEFAULT_POLICIES.rateLimit),
       customCheck |-> Field("customCheck", {})]

-----------------------------------------------------------------------------
\* evaluateInstructions of shield.ts: the set of rules a transaction breaks

ProgramViolations(an, pol) ==
  IF /\ pol.blockUnknownPrograms
     /\ pol.allowedProtocols # NoList
     /\ ~(an.programIds \subseteq SystemPrograms \cup pol.allowedProtocols)
  THEN {"program_allowlist"} ELSE {}

\* A transfer whose mint is unknown counts against every limit.
TxSpend(an, signer, mint) ==
  SumAmounts(SelectSeq(Outgoing(an.tokenTransfers, signer),
                       LAMBDA t : t.mint \in {mint, NoMint}))

SpendViolations(an, signer, pol, st, now) ==
  IF \E l \in pol.spendLimits :
       getSpendInWindow(st, l.mint, l.window, now) + TxSpend(an, signer, l.mint) > l.amount
  THEN {"spend_limit"} ELSE {}

RateViolations(pol, st, now) ==
  IF getTransactionCountInWindow(st, pol.rateLimit.window, now) >= pol.rateLimit.maxTransactions
  THEN {"rate_limit"} ELSE {}

CustomViolations(ixs, pol) == IF ixs \in pol.customCheck THEN {"custom"} ELSE {}

\* The vault's and the agent's budgets, once they have been read from chain.
OnChainViolations(an, signer, st) ==
  LET rs == st.resolvedState
      usd == computeStablecoinUsd(an.tokenTransfers, signer)
  IN  IF rs = NotSynced \/ ~st.network \/ usd = 0 THEN {}
      ELSE (IF usd > rs.maxTransactionUsd THEN {"on_chain_tx_size"} ELSE {})
           \cup (IF getEffectiveGlobalSpent24h(st) + usd > rs.cap
                 THEN {"on_chain_vault_cap"} ELSE {})
           \cup (IF /\ HasAgentBudget(st)
                    /\ getEffectiveAgentSpent24h(st) + usd > rs.agentBudget.cap
                 THEN {"on_chain_agent_cap"} ELSE {})

evaluateInstructions(ixs, signer, pol, st, now) ==
  LET an == analyzeInstructions(ixs, signer)
  IN  ProgramViolations(an, pol) \cup SpendViolations(an, signer, pol, st, now)
      \cup RateViolations(pol, st, now) \cup CustomViolations(ixs, pol)
      \cup OnChainViolations(an, signer, st)

\* ctx.check(): a paused shield refuses everything, otherwise the rules decide.
check(ixs, signer, pol, paused, st, now) ==
  IF paused THEN {"paused"} ELSE evaluateInstructions(ixs, signer, pol, st, now)

\* What enforce() and the shielded signer both write once a transaction has
\* passed: every outgoing transfer, the transaction, and its dollars when a
\* baseline is known.
Charge(ixs, signer, st, now) ==
  LET an == analyzeInstructions(ixs, signer)
      spends == FoldLeft(LAMBDA s, t : recordSpend(s, t.mint, t.amount, now), st,
                         Outgoing(an.tokenTransfers, signer))
      counted == recordTransaction(spends, now)
  IN  IF st.resolvedState = NotSynced \/ ~st.network THEN counted
      ELSE recordUsdSpend(counted, computeStablecoinUsd(an.tokenTransfers, signer))

-----------------------------------------------------------------------------
\* The other gates of the shielded signer

\* Faulty variant: the ceiling itself is let through.
VelocityOffByOne(ixs, signer, st, limits, now) ==
  getTransactionCountInWindow(st, Hour, now) > limits.maxTxPerHour

\* checkVelocityCeiling: hourly transactions, then hourly value.
VelocityBreached(ixs, signer, st, limits, now) ==
  \/ getTransactionCountInWindow(st, Hour, now) >= limits.maxTxPerHour
  \/ getTotalSpendInWindow(st, Hour, now) + analyzeInstructions(ixs, signer).estimatedValue
       > limits.maxUsdPerHour

\* checkSessionBinding: the first Sigil instruction validates, the last one
\* finalizes.  With severity "soft" the gap is only logged.
checkSessionBinding(ixs, severity) ==
  LET sigil == SelectSeq(ixs, LAMBDA ix : ix.program = Sigil)
  IN  \/ severity = "soft"
      \/ /\ sigil # <<>>
         /\ Head(sigil).op = "validate"
         /\ Last(sigil).op = "finalize"
=============================================================================
