------------------------- MODULE SessionTransaction -------------------------
(***************************************************************************)
(* An agent's transaction: validate_and_authorize, the DeFi instruction it *)
(* authorises and finalize_session, or agent_transfer on its own, over the *)
(* token accounts of one vault.  A Solana transaction is a sequence of     *)
(* instructions; they run one by one and either all take effect or none.   *)
(* validate and finalize read the other instructions of the transaction    *)
(* through the instructions sysvar, which is tx here.                      *)
(*                                                                         *)
(* One agent, and one vault-owned token account per mint.  The 24-hour     *)
(* sums are plain counters that fall to zero together (Age); how they are  *)
(* stored and forgotten is the matter of SpendTracker, AgentSpendOverlay,  *)
(* ProtocolCounters and RecipientCounters.  Post-execution assertions can  *)
(* only make finalize fail, which Abort allows at every instruction; the   *)
(* lifetime statistics and the audit log are left out, and so are the      *)
(* cooldown stamp (AgentSpendOverlay) and the failure count (AgentAdmin)   *)
(* that validate_and_authorize writes.                                     *)
(*                                                                         *)
(* moved is a history variable: the stablecoins that the vault has lost to *)
(* each wallet in the running transaction.                                 *)
(***************************************************************************)
EXTENDS Integers, Sequences, FiniteSets, FiniteSetsExt, SequencesExt

CONSTANTS
  Stable, Volatile,    \* the mints the vault holds: stablecoins and others
  Wallets,             \* wallets outside the vault
  AllowedDestinations, \* policy.allowed_destinations
  Graylisted,          \* the allowed wallets still serving their friction
  Protocols,           \* the programs is_protocol_allowed accepts
  Async,               \* KNOWN_ASYNC_FULFILLMENT_PROGRAMS
  Transactions,        \* the transactions that may be submitted
  Conditions,          \* which obstacles (see Obstacles) may arise
  MaxTxSize,           \* policy.max_transaction_size_usd
  Cap,                 \* the cap of every 24-hour sum; zero is no cap,
                       \* except for the vault's own
  Floor,               \* policy.stable_balance_floor
  ProtocolFeeRate, DeveloperFeeRate, FeeDenominator,
  InitialBalance,      \* the vault's balance per mint
  MaxBalance,          \* the owner and the market pay in no more than this
  MaxGain,             \* what one DeFi instruction may credit to the vault
  NONE, Sigil          \* no account; any account owned by the program

Mints == Stable \cup Volatile

\* The 24-hour sums a payment is charged to: the vault's, the agent's, the
\* protocol's and one per recipient.
Ledgers == {"vault", "agent", "protocol"} \cup Wallets

\* What may stand in the way of an agent.
Obstacles == {"version", "observe_only", "hours", "cooldown", "inactive",
              "paused", "disabled", "observer", "build"}

ASSUME SessionAssumption ==
  /\ Stable \cap Volatile = {}
  /\ Graylisted \subseteq AllowedDestinations
  /\ AllowedDestinations \subseteq Wallets
  /\ Conditions \subseteq Obstacles
  /\ MaxTxSize \in Nat
  /\ Cap \in [Ledgers -> Nat]
  /\ Floor \in Nat
  /\ {ProtocolFeeRate, DeveloperFeeRate} \subseteq Nat
  /\ FeeDenominator \in Nat \ {0}
  /\ MaxBalance \in [Mints -> Nat]
  /\ InitialBalance \in [Mints -> Nat]
  /\ \A m \in Mints : InitialBalance[m] <= MaxBalance[m]
  /\ MaxGain \in Nat
  /\ NONE \notin Mints \cup Wallets
  /\ \A t \in Transactions : Len(t) \in Nat \ {0} /\ DOMAIN t = 1 .. Len(t)
  /\ \A t \in Transactions : \A i \in DOMAIN t :
       t[i].op \in {"validate", "spl", "finalize", "transfer", "deposit", "withdraw"} =>
         /\ t[i].token \in Mints
         /\ t[i].op # "finalize" => t[i].amount \in Nat

VARIABLES
  acct,    \* the accounts of the vault as the running transaction sees them
  base,    \* the accounts as the last committed transaction left them
  tx, pc,  \* the running transaction and its next instruction
  hurdle,  \* the obstacles the agent meets at present
  moved

vars == <<acct, base, tx, pc, hurdle, moved>>

Zero(S) == [x \in S |-> 0]
IsSpending(v) == v.amount > 0

Stablecoins(b, accounts) == MapThenSumSet(LAMBDA m : b[m], accounts \cap Stable)

-----------------------------------------------------------------------------
\* Fees, caps and the stable floor

\* Rounded up, so that no payment is free of a fee.
ceil_fee(amount, rate) == (amount * rate + FeeDenominator - 1) \div FeeDenominator

Fees(amount) == ceil_fee(amount, ProtocolFeeRate) + ceil_fee(amount, DeveloperFeeRate)

\* Within the per-transaction limit and the cap of every sum it counts towards.
WithinCaps(sums, ledgers, usd) ==
  /\ usd <= MaxTxSize
  /\ sums["vault"] + usd <= Cap["vault"]
  /\ \A l \in ledgers : Cap[l] > 0 => sums[l] + usd <= Cap[l]

\* The protocol's and a recipient's sum are kept only where they are capped.
Charge(sums, ledgers, usd) ==
  [l \in Ledgers |->
     IF l \in ledgers /\ (l \in {"vault", "agent"} \/ Cap[l] > 0)
     THEN sums[l] + usd ELSE sums[l]]

\* Faulty variant: an account passed twice counts twice.
FloorCountsTwice(b, typed, rest) ==
  Floor > 0 =>
    Stablecoins(b, typed) + FoldSeq(LAMBDA m, n : Stablecoins(b, {m}) + n, 0, rest) >= Floor

\* The stablecoins in the accounts named by the instruction and in those the
\* caller adds, each counted once, reach the floor.  One not passed counts
\* as empty.
FloorHolds(b, typed, rest) == Floor > 0 => Stablecoins(b, typed \cup ToSet(rest)) >= Floor

-----------------------------------------------------------------------------
\* What validate_and_authorize makes of the rest of the transaction

ProgramOf(ix) ==
  CASE ix.op = "defi"  -> ix.program
    [] ix.op = "infra" -> "system"
    [] ix.op = "spl"   -> "spl_token"
    [] OTHER           -> "sigil"

IsInfrastructure(ix) == ix.op = "infra"

Metas(ix) == IF ix.op = "defi" THEN ix.metas ELSE {}

\* Only the compute-budget and system programs may come before validate.
PreScan(t, i) == \A j \in 1 .. i - 1 : IsInfrastructure(t[j])

\* TA-10: no second validate for the same session.
OneValidate(t, i) == \A j \in DOMAIN t \ {i} : t[j].op = "validate" => t[j].token # t[i].token

\* TA-11: no foreign instruction may write an account of the program.
NoProtectedWritable(t, i) == \A j \in DOMAIN t \ {i} : Sigil \notin Metas(t[j])

\* An instruction in the window: transfers and approvals of the token program
\* and asynchronous programs never pass, others must be on the allowlist.
scan_instruction_shared(ix) ==
  \/ IsInfrastructure(ix)
  \/ /\ ix.op # "spl"
     /\ ProgramOf(ix) \in Protocols \ Async

\* Every writable account of the DeFi instruction is known to validate, and no
\* allowlisted wallet among them is graylisted.
enforce_destination_allowlist(metas, rest) ==
  /\ metas \subseteq ToSet(rest)
  /\ metas \cap AllowedDestinations \cap Graylisted = {}

\* The finalize that ends the window: the first one after validate.
FinalizeAfter(t, i) == {j \in i + 1 .. Len(t) :
  /\ t[j].op = "finalize"
  /\ \A k \in i + 1 .. j - 1 : t[k].op # "finalize"}

Foreign(t, i, f) == {j \in i + 1 .. f - 1 : ~IsInfrastructure(t[j])}

\* Faulty variant: a transaction without finalize passes.
WindowMayStayOpen(t, i) ==
  \A f \in FinalizeAfter(t, i) :
    /\ t[f].token = t[i].token
    /\ \A j \in i + 1 .. f - 1 : scan_instruction_shared(t[j])

\* The window is closed by this session's finalize and holds nothing that is
\* not allowed; a spending one holds exactly one foreign instruction, of the
\* declared protocol, immediately before finalize.
ForwardScan(t, i) ==
  \E f \in FinalizeAfter(t, i) :
    /\ t[f].token = t[i].token
    /\ \A j \in i + 1 .. f - 1 : scan_instruction_shared(t[j])
    /\ IsSpending(t[i]) =>
         /\ Foreign(t, i, f) = {f - 1}
         /\ ProgramOf(t[f - 1]) = t[i].protocol
         /\ enforce_destination_allowlist(Metas(t[f - 1]), t[i].rest)

\* The agent, the vault and the policy permit it.
ValidateGates(v) == hurdle \subseteq IF IsSpending(v) THEN {} ELSE {"observer"}

\* agent_transfer looks at neither observe_only, the operating hours, the
\* cooldown nor the verified build.
TransferGates == hurdle \subseteq {"observe_only", "hours", "cooldown", "build"}

\* The account finalize will measure, and the one an acquisition must reach.
OutcomeDeclared(v) ==
  /\ v.token \in Stable /\ IsSpending(v) =>
       /\ MaxTxSize > 0 => v.amount <= MaxTxSize
       /\ v.swap # v.token
  /\ v.token \in Volatile /\ IsSpending(v) => v.out \in Stable
-----------------------------------------------------------------------------
\* The instructions

NoSession == [open |-> FALSE]

Session(b, v) ==
  LET out == IF ~IsSpending(v) THEN NONE ELSE IF v.token \in Stable THEN v.token ELSE v.out
      swap == IF IsSpending(v) /\ v.token \in Stable THEN v.swap ELSE NONE
  IN  [open |-> TRUE, amount |-> v.amount, out |-> out, swap |-> swap,
       before |-> IF out = NONE THEN 0 ELSE b[out],
       swap_before |-> IF swap = NONE THEN 0 ELSE b[swap]]

validate_and_authorize(v) ==
  /\ v.op = "validate"
  /\ ~acct.session[v.token].open
  /\ ValidateGates(v)
  /\ v.protocol \in Protocols
  /\ OutcomeDeclared(v)
  /\ PreScan(tx, pc) /\ OneValidate(tx, pc) /\ NoProtectedWritable(tx, pc)
  /\ ForwardScan(tx, pc)
  /\ acct' = [acct EXCEPT
       !.delegate = IF IsSpending(v) THEN [acct.delegate EXCEPT ![v.token] = v.amount] ELSE @,
       !.session = [acct.session EXCEPT ![v.token] = Session(acct.bal, v)],
       !.active_sessions = @ + 1]
  /\ UNCHANGED moved

\* The DeFi program takes some of what the agent may spend, to its pools or to
\* a wallet among its writable accounts, and credits the vault with anything.
defi(ix) ==
  /\ ix.op = "defi"
  /\ \E m \in Metas(ix) \cap Mints, o \in Metas(ix) \cap Mints, gain \in 0 .. MaxGain :
     \E taken \in 0 .. acct.delegate[m] :
     \E to \in {NONE} \cup (Metas(ix) \cap Wallets) :
       LET paid == [acct.bal EXCEPT ![m] = @ - taken]
           lost == IF m \in Stable THEN Max({0, taken - IF o = m THEN gain ELSE 0}) ELSE 0
       IN  /\ taken <= acct.bal[m]
           /\ paid[o] + gain <= MaxBalance[o]
           /\ acct' = [acct EXCEPT !.bal = [paid EXCEPT ![o] = @ + gain],
                                   !.delegate = [acct.delegate EXCEPT ![m] = @ - taken]]
           /\ moved' = [w \in Wallets |-> IF w = to THEN moved[w] + lost ELSE moved[w]]

\* A transfer of the token program signed by the agent as delegate.
spl(ix) ==
  /\ ix.op = "spl"
  /\ ix.amount <= acct.delegate[ix.token]
  /\ ix.amount <= acct.bal[ix.token]
  /\ acct' = [acct EXCEPT !.bal = [acct.bal EXCEPT ![ix.token] = @ - ix.amount],
                          !.delegate = [acct.delegate EXCEPT ![ix.token] = @ - ix.amount]]
  /\ moved' = IF ix.token \in Stable THEN [moved EXCEPT ![ix.to] = @ + ix.amount] ELSE moved

infra(ix) == ix.op = "infra" /\ UNCHANGED <<acct, moved>>

\* An acquisition reached the account it was declared for.
enforce_output_ownership(b, s) == s.swap # NONE /\ b[s.swap] > s.swap_before

\* What the session measurably spent: stablecoins that left or, when another
\* token was sold, the stablecoins that came in.
ActualSpend(b, token, s) ==
  IF s.out = NONE THEN 0
  ELSE IF token \in Stable THEN Max({0, s.before - b[token]})
  ELSE Max({0, b[s.out] - s.before})

\* A spending session shows an outcome: an acquisition, or stablecoins for
\* what it sold.  What left is no more than was authorised.
OutcomeMeasured(b, token, s, spend) ==
  s.out # NONE => IF token \in Stable THEN spend <= s.amount /\ enforce_output_ownership(b, s)
                  ELSE spend > 0

\* The writable accounts of the instruction just before finalize, and the
\* allowlisted wallets among them as far as finalize is given them.
PrecedingMetas == IF pc > 1 THEN Metas(tx[pc - 1]) ELSE {}
Recipients(ix) == PrecedingMetas \cap ToSet(ix.rest) \cap AllowedDestinations

\* Faulty variant: the fees are left out of the caps and the sums.
NetValueWithoutFees(token, spend) == spend

\* What the caps are held against: a stablecoin spend with its fees.
NetValueOut(token, spend) == IF token \in Stable THEN spend + Fees(spend) ELSE spend

\* Nothing but infrastructure follows finalize.
PostScan(t, i) == \A j \in i + 1 .. Len(t) : IsInfrastructure(t[j])

finalize_session(ix) ==
  /\ ix.op = "finalize"
  /\ acct.session[ix.token].open
  /\ LET s     == acct.session[ix.token]
         spend == ActualSpend(acct.bal, ix.token, s)
         usd   == NetValueOut(ix.token, spend)
         fees  == IF ix.token \in Stable THEN Fees(spend) ELSE 0
         bal   == [acct.bal EXCEPT ![ix.token] = @ - fees]
         book  == {"vault", "agent", "protocol"}
         paid  == IF spend > 0 THEN {w \in Recipients(ix) : Cap[w] > 0} ELSE {}
     IN  /\ OutcomeMeasured(acct.bal, ix.token, s, spend)
         /\ spend > 0 => /\ WithinCaps(acct.sums, book, usd)
                         /\ PrecedingMetas \subseteq ToSet(ix.rest)
         /\ Cardinality(paid) <= 1
         /\ \A w \in paid : acct.sums[w] + spend <= Cap[w]
         /\ bal[ix.token] >= 0
         /\ FloorHolds(bal, {ix.token, s.out} \cap Mints, ix.rest)
         /\ PostScan(tx, pc)
         /\ acct' = [acct EXCEPT
              !.bal = bal,
              !.sums = Charge(IF spend > 0 THEN Charge(@, book, usd) ELSE @, paid, spend),
              !.delegate = IF s.amount > 0 THEN [acct.delegate EXCEPT ![ix.token] = 0] ELSE @,
              !.session = [acct.session EXCEPT ![ix.token] = NoSession],
              !.active_sessions = IF @ > 0 THEN @ - 1 ELSE 0]
  /\ UNCHANGED moved

\* The vault pays an allowlisted wallet; the fees come out of the amount.
agent_transfer(ix) ==
  /\ ix.op = "transfer"
  /\ TransferGates
  /\ ix.amount > 0
  /\ ix.token \in Stable
  /\ ix.to \in AllowedDestinations \ Graylisted
  /\ LET book == {"vault", "agent"} \cup {w \in {ix.to} : Cap[w] > 0}
         bal  == [acct.bal EXCEPT ![ix.token] = @ - ix.amount]
     IN  /\ WithinCaps(acct.sums, book, ix.amount)
         /\ Fees(ix.amount) <= ix.amount
         /\ bal[ix.token] >= 0
         /\ FloorHolds(bal, {ix.token}, ix.rest)
         /\ acct' = [acct EXCEPT !.bal = bal, !.sums = Charge(@, book, ix.amount)]
  /\ moved' = [moved EXCEPT ![ix.to] = @ + ix.amount - Fees(ix.amount)]

deposit_funds(ix) ==
  /\ ix.op = "deposit"
  /\ ix.token \in Stable
  /\ acct.bal[ix.token] + ix.amount <= MaxBalance[ix.token]
  /\ acct' = [acct EXCEPT !.bal = [acct.bal EXCEPT ![ix.token] = @ + ix.amount]]
  /\ UNCHANGED moved

withdraw_funds(ix) ==
  /\ ix.op = "withdraw"
  /\ ix.amount <= acct.bal[ix.token]
  /\ acct' = [acct EXCEPT !.bal = [acct.bal EXCEPT ![ix.token] = @ - ix.amount]]
  /\ UNCHANGED moved
-----------------------------------------------------------------------------
\* Running a transaction

Idle == tx = << >>
Done == ~Idle /\ pc > Len(tx)

Init ==
  /\ acct = [bal |-> InitialBalance, delegate |-> Zero(Mints), sums |-> Zero(Ledgers),
             session |-> [m \in Mints |-> NoSession], active_sessions |-> 0]
  /\ base = acct
  /\ tx = << >> /\ pc = 1
  /\ hurdle = {}
  /\ moved = Zero(Wallets)

Submit(t) ==
  /\ Idle
  /\ tx' = t /\ pc' = 1
  /\ UNCHANGED <<acct, base, hurdle, moved>>

Execute ==
  /\ ~Idle /\ pc <= Len(tx)
  /\ LET ix == tx[pc]
     IN  \/ validate_and_authorize(ix)
         \/ defi(ix)
         \/ spl(ix)
         \/ infra(ix)
         \/ finalize_session(ix)
         \/ agent_transfer(ix)
         \/ deposit_funds(ix)
         \/ withdraw_funds(ix)
  /\ pc' = pc + 1
  /\ UNCHANGED <<base, tx, hurdle>>

Commit ==
  /\ Done
  /\ base' = acct
  /\ tx' = << >> /\ pc' = 1
  /\ moved' = Zero(Wallets)
  /\ UNCHANGED <<acct, hurdle>>

\* An instruction fails: nothing the transaction did remains.
Abort ==
  /\ ~Idle
  /\ acct' = base
  /\ tx' = << >> /\ pc' = 1
  /\ moved' = Zero(Wallets)
  /\ UNCHANGED <<base, hurdle>>

\* A day passes without payments.
Age ==
  /\ Idle
  /\ acct' = [acct EXCEPT !.sums = Zero(Ledgers)]
  /\ base' = acct'
  /\ UNCHANGED <<tx, pc, hurdle, moved>>

\* Something comes into the agent's way, or goes.  At most one at a time.
Obstruct(c) ==
  /\ Idle
  /\ hurdle' = IF hurdle = {} THEN {c} ELSE {}
  /\ UNCHANGED <<acct, base, tx, pc, moved>>

Next ==
  \/ \E t \in Transactions : Submit(t)
  \/ Execute
  \/ Commit
  \/ Abort
  \/ Age
  \/ \E c \in Conditions : Obstruct(c)

Spec == Init /\ [][Next]_vars

-----------------------------------------------------------------------------
\* Properties

\* Balances, allowances and sums stay in range, and sessions are counted.
TypeOK ==
  /\ acct.bal \in [Mints -> Nat]
  /\ \A m \in Mints : acct.bal[m] <= MaxBalance[m]
  /\ acct.delegate \in [Mints -> Nat]
  /\ acct.sums \in [Ledgers -> Nat]
  /\ acct.active_sessions = Cardinality({m \in Mints : acct.session[m].open})
  /\ tx \in Transactions \cup {<< >>}
  /\ pc \in 1 .. Len(tx) + 1
  /\ hurdle \subseteq Obstacles

\* No allowance, no session.
Clean(a) ==
  /\ \A m \in Mints : a.delegate[m] = 0 /\ ~a.session[m].open
  /\ a.active_sessions = 0

\* Between transactions the agent holds no allowance on any account of the
\* vault and no session is open: what validate_and_authorize opens is closed
\* by finalize_session in the same transaction or never was.
NothingOutstanding == Idle => Clean(acct)

Spent == Stablecoins(base.bal, Mints) - Stablecoins(acct.bal, Mints)
ByAgent == \A i \in DOMAIN tx : tx[i].op \notin {"deposit", "withdraw"}

\* Nothing leaves the vault unmeasured.  The stablecoins an agent's transaction
\* takes, to pools, wallets and fee accounts alike, have been charged to the
\* vault's and the agent's 24-hour sum before it commits, and those sums are
\* within their caps.  With a per-recipient cap, no allowlisted wallet receives
\* more than its own sum accounts for, whether through agent_transfer or through
\* a DeFi program.  And a session that lowers one of the vault's balances raises
\* another: a spend buys something, a sale brings stablecoins in.
OutflowIsMetered ==
  Done =>
    /\ ByAgent /\ Spent > 0 =>
         \A l \in {"vault", "agent"} :
           /\ Spent <= acct.sums[l] - base.sums[l]
           /\ Cap[l] > 0 => acct.sums[l] <= Cap[l]
    /\ \A w \in AllowedDestinations :
         Cap[w] > 0 /\ moved[w] > 0 =>
           /\ moved[w] <= acct.sums[w] - base.sums[w]
           /\ acct.sums[w] <= Cap[w]
           /\ w \notin Graylisted
    /\ (\E i \in DOMAIN tx : tx[i].op = "validate")
       /\ (\E m \in Mints : acct.bal[m] < base.bal[m])
         => \E m \in Mints : acct.bal[m] > base.bal[m]

\* No transaction of an agent commits with the vault's stablecoins below the
\* floor, whichever accounts the caller chose to pass and however often.
FloorIsKept ==
  Done /\ ByAgent /\ (\E i \in DOMAIN tx : tx[i].op \in {"finalize", "transfer"})
    => Stablecoins(acct.bal, Mints) >= Floor

=============================================================================
