----------------------------- MODULE SealClient -----------------------------
(***************************************************************************)
(* The agent's client at run time: executeAndConfirm() and transfer(), the *)
(* caches they share, and the chain they talk to.  One action is one       *)
(* stretch of a call between two awaits; the calls, the owner, the clock   *)
(* and the chain interleave.  Clocks are ages and countdowns that stop at  *)
(* the bound the code compares them with.                                  *)
(***************************************************************************)
EXTENDS SealTransaction

CONSTANTS
  Calls,               \* calls of the client
  Requests,            \* what each call may ask for
  Table,               \* the addresses the Sigil lookup table should hold
  BlockhashTtl,        \* blockhashCache keeps a blockhash for less than this
  BlockhashLife,       \* the chain accepts a blockhash up to this age
  AltTtl,              \* AltCache keeps a table for less than this
  MaxCacheAge,         \* seal() takes a cachedState up to this age
  ConfirmTimeout,      \* sendAndConfirmTransaction gives up after this
  InitialVault, InitialTokens,
  MaxInflow,           \* what a sale brings in, at most
  MaxFaults,           \* failed requests of a behaviour
  MaxMoves             \* changes the owner makes in a behaviour

VARIABLES
  vault,               \* the vault's status, agent, policy and daily sum
  tokens,              \* balances of the vault's token accounts that exist
  table,               \* what the lookup table on the chain holds
  cache,               \* blockhash and lookup table caches: the client's, and
                       \* the module's, which owner transactions and transfers use
  held,                \* the resolved state a caller has kept, None or a record
  calls,               \* the progress of each call
  onchain,             \* what became of each call's transaction
  tip,                 \* the block that is not confirmed yet, None or a record
  faults, moves

vars == <<vault, tokens, table, cache, held, calls, onchain, tip, faults, moves>>
chain == <<vault, tokens, table, onchain, tip, moves>>

Existing == DOMAIN tokens
Older(age, bound) == IF age < bound THEN age + 1 ELSE bound
Sooner(left) == IF left > 0 THEN left - 1 ELSE 0

Idle ==
  [pc |-> "idle", request |-> None, snap |-> None, existing |-> {}, warned |-> FALSE,
   mints |-> {}, blockhash |-> 0, table |-> None, tx |-> None, left |-> 0, outcome |-> None]

Init ==
  /\ vault = InitialVault
  /\ tokens = InitialTokens
  /\ table \in {{}, Table}
  /\ cache = [k \in {"seal", "transfer"} |->
                [blockhash |-> None, table |-> None, tableLeft |-> 0]]
  /\ held = None
  /\ calls = [c \in Calls |-> Idle]
  /\ onchain = [c \in Calls |-> [stage |-> "none", code |-> None, surprise |-> FALSE]]
  /\ tip = None
  /\ faults = 0
  /\ moves = 0

----------------------------------------------------------------------------
\* What the program makes of a transaction

Fees(m, s) == ceilFee(m, PROTOCOL_FEE_RATE) + ceilFee(m, s.developerFeeRate)

\* The accounts of the route the compiled message marks writable: an account
\* is writable there when any instruction, or the fee payer's seat, makes it so.
CompiledWritable(tx) ==
  LET routed == UNION {tx.route[i].accounts : i \in DOMAIN tx.route}
      named == {Agent, deriveAta("vault", tx.mint), tx.out, tx.swap}
  IN  {x.address : x \in {y \in routed : y.writable \/ y.address \in named}}

\* All the program's checks read of the route once it is compiled.
Compiled(tx) ==
  [f \in (DOMAIN tx \ {"route"}) \cup {"writable"} |->
     IF f = "writable" THEN CompiledWritable(tx) ELSE tx[f]]

\* The account of the vault whose balance a spend is measured on.
StableAccount(tx) == IF isStablecoinMint(tx.mint) THEN deriveAta("vault", tx.mint) ELSE tx.out

\* validate_and_authorize
ValidateChecks(tx) ==
  LET unread == {a \in tx.writable \cap Existing : IsVaultToken2022(a) /\ Mint(a[2]) \notin tx.validate}
  IN  << Check(vault.agent = "revoked", "UnauthorizedAgent"),
         Check(tx.version # vault.version, "PolicyVersionMismatch"),
         Check(vault.status # "Active", "VaultNotActive"),
         Check(vault.agent = "paused", "AgentPaused"),
         Check(vault.agent = "disabled", "InsufficientPermissions"),
         Check(tx.target \notin vault.protocols, "ProtocolNotAllowed"),
         Check(tx.target \in vault.armed /\ ProgramData(tx.target[2]) \notin tx.validate,
               "ErrProgramDataUnresolvable"),
         Check(tx.amount > 0 /\ ({StableAccount(tx), tx.swap} \ {None}) \ Existing # {},
               "InvalidTokenAccount"),
         Check(~(tx.writable \subseteq tx.validate), "DestinationAccountUnresolvable"),
         Check(unread # {}, "ErrToken2022OutputMintUnresolvable") >>

\* The vault's stablecoin balances once the route has moved m, and the fees.
Settled(tx, m) ==
  IF m = 0 THEN tokens
  ELSE [tokens EXCEPT ![StableAccount(tx)] =
          IF tx.kind = "transfer" THEN @ - m
          ELSE IF isStablecoinMint(tx.mint) THEN @ - (m + Fees(m, vault)) ELSE @ + m]

Stables == {deriveAta("vault", "usdc"), deriveAta("vault", "usdt")}
Combined(bal, accounts) == MapThenSumSet(LAMBDA a : bal[a], accounts \cap Stables \cap DOMAIN bal)

\* finalize_session, on a measured movement of m.
FinalizeChecks(tx, m) ==
  LET stable == isStablecoinMint(tx.mint)
      net == IF stable THEN m + Fees(m, vault) ELSE m
      counted == {deriveAta("vault", tx.mint), tx.out} \cup tx.finalize
  IN  << Check(~(tx.writable \subseteq tx.finalize), "ErrFinalizeMetaUnresolvable"),
         Check(stable /\ m > 0 /\ tx.swap \notin tx.writable, "ErrOutputNotVaultOwned"),
         Check(m > 0 /\ vault.spent + net > vault.cap, "SpendingCapExceeded"),
         Check(Combined(Settled(tx, m), counted) < vault.floor, "ErrStableFloorViolation") >>

\* agent_transfer
TransferVerdicts(tx) ==
  << Check(vault.agent = "revoked", "UnauthorizedAgent"),
     Check(tx.version # vault.version, "PolicyVersionMismatch"),
     Check(vault.status # "Active", "VaultNotActive"),
     Check(vault.agent = "paused", "AgentPaused"),
     Check(vault.agent = "disabled", "InsufficientPermissions"),
     Check(tx.target \notin vault.destinations, "DestinationNotAllowed"),
     Check(vault.spent + tx.amount > vault.cap, "SpendingCapExceeded"),
     Check(Combined(Settled(tx, tx.amount), {deriveAta("vault", tx.mint)} \cup tx.finalize)
             < vault.floor, "ErrStableFloorViolation") >>

Verdict(tx, m) ==
  LET code == FirstFailing(IF tx.kind = "transfer" THEN TransferVerdicts(tx)
                           ELSE ValidateChecks(tx) \o FinalizeChecks(tx, m))
  IN  IF code = None THEN "ok" ELSE code

\* What a route may move: a spend up to the amount, the proceeds of a sale.
Movements(tx) ==
  IF tx.kind = "transfer" THEN {tx.amount}
  ELSE IF tx.amount = 0 THEN {0}
  ELSE IF isStablecoinMint(tx.mint) THEN {1, tx.amount} ELSE 1 .. MaxInflow

\* The client had checked for this rejection, warned of nothing, and nothing it
\* read has changed since.
Unexplained(c, m, code) ==
  LET tx == calls[c].tx
  IN  /\ code \notin {"ok", "PolicyVersionMismatch"}
      /\ ~calls[c].warned
      /\ calls[c].snap = vault /\ calls[c].existing = Existing
      /\ code = "SpendingCapExceeded" => tx.kind = "sandwich" /\ isStablecoinMint(tx.mint)
      /\ code = "ErrStableFloorViolation" => Combined(Settled(tx, m), Stables) >= vault.floor

----------------------------------------------------------------------------
\* Steps of a call

\* The call ends: the promise resolves or rejects, onError or onFinalize fires.
Ended(code) == [Idle EXCEPT !.pc = "done", !.outcome = code]

Finish(c, code) == calls' = [calls EXCEPT ![c] = Ended(code)]

\* A request of the call fails.
Fault(c, code) ==
  /\ faults < MaxFaults
  /\ faults' = faults + 1
  /\ Finish(c, code)

\* The mainnet gate stands before everything: no hook fires when it rejects.
MainnetGate(r) == r.gate /\ ~r.confirmed

\* seal() does not support concurrent calls for one vault, agent and mint: the
\* caller awaits one before the next, and they are numbered in that order.  The
\* transaction of a call that gave up waiting may still be in flight.
Begin(c, r) ==
  /\ \A d \in Calls : calls[d].pc = IF d < c THEN "done" ELSE "idle"
  /\ calls' = [calls EXCEPT ![c] =
       IF MainnetGate(r) THEN Ended("MAINNET_CONFIRMATION_REQUIRED")
       ELSE [Idle EXCEPT !.request = r,
                         !.pc = IF r.kind = "transfer" THEN "resolve" ELSE "caches"]]
  /\ UNCHANGED <<chain, cache, held, faults>>

\* AltCache.resolve: the cached table while it lasts, otherwise the chain's.
FreshTable(k) == IF cache[k].tableLeft > 0 THEN cache[k].table ELSE table

\* verifySigilAlt: a table that could not be fetched passes.
verifySigilAlt(t) == t = None \/ Table \subseteq t

\* BlockhashCache.get: a blockhash is kept while it is young enough.
Cached(k) == cache[k].blockhash # None /\ cache[k].blockhash < BlockhashTtl
BlockhashAge(k) == IF Cached(k) THEN cache[k].blockhash ELSE 0

\* clientSeal and buildOwnerTransaction: blockhash and table from the caches.  A
\* seal drops a table that lacks an address and fetches it again, once; a
\* table that cannot be fetched is done without.
Caches(c) ==
  LET k == calls[c].request.kind
      t == IF k = "seal" /\ ~verifySigilAlt(FreshTable(k)) THEN table ELSE FreshTable(k)
      fetched == cache[k].tableLeft = 0 \/ t # FreshTable(k)
      Go(tbl, left) ==
        /\ cache' = [cache EXCEPT ![k] =
                       [blockhash |-> BlockhashAge(k), table |-> tbl, tableLeft |-> left]]
        /\ IF k = "seal" /\ ~verifySigilAlt(tbl) THEN Finish(c, "ALT_INTEGRITY")
           ELSE calls' = [calls EXCEPT ![c].blockhash = BlockhashAge(k), ![c].table = tbl,
                                       ![c].pc = IF k = "seal" THEN "resolve" ELSE "send"]
  IN  /\ calls[c].pc = "caches"
      /\ UNCHANGED <<chain, held>>
      /\ \/ Go(t, IF fetched THEN AltTtl ELSE cache[k].tableLeft) /\ UNCHANGED faults
         \/ fetched /\ faults < MaxFaults /\ faults' = faults + 1 /\ Go(None, 0)
         \/ ~Cached(k) /\ Fault(c, "RPC_ERROR") /\ UNCHANGED cache

\* resolveVaultState, in one batched request.
Snapshot == [vault |-> vault, existing |-> Existing]

\* seal() takes the state the caller has kept unless it is too old.
UsesHeld(c) == calls[c].request.useCache /\ held # None /\ held.age <= MaxCacheAge

\* Plugins, then every check that needs no further request, in order.  A
\* transfer is built here as well.
Preflight(c, s, existing) ==
  LET r == calls[c].request
      rejected == IF r.kind = "transfer" THEN FirstFailing(TransferChecks(r, s))
                  ELSE FirstFailing(AgentChecks(s)
                                    \o << Check(r.veto = "plugin", "PLUGIN_REJECTED") >>
                                    \o InputChecks(r) \o PolicyChecks(r, s) \o OutputChecks(r)
                                    \o ReplacementChecks(r))
  IN  IF rejected # None THEN Finish(c, rejected)
      ELSE calls' = [calls EXCEPT
             ![c].snap = s, ![c].existing = existing,
             ![c].pc = IF r.kind = "transfer" THEN "caches" ELSE "probe",
             ![c].tx = IF r.kind = "transfer" THEN TransferTransaction(r, s) ELSE None]

\* The onBeforeBuild hook may abort before anything is read.
Resolve(c) ==
  /\ calls[c].pc = "resolve"
  /\ UNCHANGED <<chain, cache>>
  /\ \/ /\ calls[c].request.veto = "hook"
        /\ Finish(c, "HOOK_ABORTED")
        /\ UNCHANGED <<held, faults>>
     \/ /\ calls[c].request.veto # "hook"
        /\ LET s == IF UsesHeld(c) THEN held.state ELSE Snapshot
           IN  /\ held' = IF UsesHeld(c) THEN held ELSE [age |-> 0, state |-> s]
               /\ Preflight(c, s.vault, s.existing)
        /\ UNCHANGED faults
     \/ /\ calls[c].request.veto # "hook" /\ ~UsesHeld(c)
        /\ Fault(c, "RPC_ERROR")
        /\ UNCHANGED held

\* The output account is looked up; a missing one, and a failed lookup, warn.
Probe(c) ==
  LET r == calls[c].request
      output == {outputStablecoinAccount(r), outputSwapAccount(r)} \ {None}
  IN  /\ calls[c].pc = "probe"
      /\ \E failed \in {FALSE} \cup {output # {} /\ faults < MaxFaults} :
           /\ faults' = faults + (IF failed THEN 1 ELSE 0)
           /\ calls' = [calls EXCEPT
                ![c].warned = failed \/ Undelivered(r) \/ ~(output \subseteq Existing),
                ![c].pc = "mints"]
      /\ UNCHANGED <<chain, cache, held>>

\* The mints of Token-2022 accounts the route writes; a failed lookup rejects.
FetchMints(c) ==
  LET route == rewrittenDefiInstructions(calls[c].request)
      touches == bundleTouchesToken2022(route) /\ defiWritable(route) # {}
  IN  /\ calls[c].pc = "mints"
      /\ UNCHANGED <<chain, cache, held>>
      /\ \/ /\ faults' = faults
            /\ calls' = [calls EXCEPT
                 ![c].mints = IF touches THEN resolveT22OutputMintMetas(defiWritable(route), Existing)
                              ELSE {},
                 ![c].pc = "floor"]
         \/ /\ touches
            /\ Fault(c, "SEAL_FAILED")

\* The stablecoin accounts finalize must see to sum the floor, looked up only
\* when there is a floor; a failed lookup warns.  Then the transaction is
\* composed and measured.
Compose(c) ==
  LET r == calls[c].request
      s == calls[c].snap
      candidates == deriveStablecoinFloorCandidates(r, defiWritable(rewrittenDefiInstructions(r)))
      looked == s.floor > 0 /\ candidates # {}
  IN  /\ calls[c].pc = "floor"
      /\ \E failed \in {FALSE} \cup {looked /\ faults < MaxFaults} :
           LET floors == IF looked /\ ~failed
                           THEN resolveStablecoinFloorMetas(candidates, Existing) ELSE {}
               tx == SealedTransaction(r, s, calls[c].mints, floors)
               t == IF calls[c].table = None THEN {} ELSE calls[c].table
           IN  /\ faults' = faults + (IF failed THEN 1 ELSE 0)
               /\ IF withinLimit(tx, t)
                    THEN calls' = [calls EXCEPT ![c].tx = Compiled(tx), ![c].mints = {},
                                                ![c].warned = @ \/ failed, ![c].pc = "send"]
                    ELSE Finish(c, "TX_TOO_LARGE")
      /\ UNCHANGED <<chain, cache, held>>

\* The call ends; what its transaction is made of matters while it is in flight.
Leave(c, code) ==
  calls' = [calls EXCEPT ![c] =
    IF onchain[c].stage = "confirmed" THEN Ended(code)
    ELSE [@ EXCEPT !.pc = "done", !.left = 0, !.request = None, !.table = None, !.outcome = code]]

\* signAndEncode and sendTransaction.  The node simulates the transaction first
\* and refuses one that fails or whose blockhash it no longer knows; the answer
\* of a node that took it may be lost.
Send(c) ==
  LET live == calls[c].blockhash <= BlockhashLife
      Sent == onchain' = [onchain EXCEPT ![c].stage = "sent"]
  IN  /\ calls[c].pc = "send"
      /\ UNCHANGED <<vault, tokens, table, tip, moves, cache, held>>
      /\ \/ \E m \in Movements(calls[c].tx) :
              LET code == IF live THEN Verdict(calls[c].tx, m) ELSE "BlockhashNotFound"
              IN  /\ UNCHANGED faults
                  /\ IF code = "ok"
                       THEN Sent /\ calls' = [calls EXCEPT ![c].pc = "poll",
                                                           ![c].left = ConfirmTimeout]
                       ELSE /\ Finish(c, "SEND_REFUSED")
                            /\ onchain' = [onchain EXCEPT ![c].code = code,
                                 ![c].surprise = live /\ Unexplained(c, m, code)]
         \/ /\ live /\ faults < MaxFaults /\ faults' = faults + 1
            /\ Sent
            /\ Leave(c, "SEND_FAILED")
         \/ /\ Fault(c, "SIGN_FAILED")
            /\ UNCHANGED onchain

\* Faulty variant: any status without an error is a confirmation.
AnyStatus(c) == onchain[c].stage \in {"processed", "confirmed"}

\* The level sendAndConfirmTransaction waits for.
ReachedCommitment(c) ==
  \/ onchain[c].stage = "confirmed"
  \/ onchain[c].stage = "processed" /\ calls[c].request.commitment = "processed"

\* One turn of the polling loop that ends it.
Poll(c) ==
  /\ calls[c].pc = "poll"
  /\ \/ /\ calls[c].left > 0
        /\ onchain[c].stage \in {"processed", "confirmed"}
        /\ \/ onchain[c].code # "ok" /\ Leave(c, "TX_FAILED")
           \/ onchain[c].code = "ok" /\ ReachedCommitment(c) /\ Leave(c, calls[c].request.commitment)
     \/ calls[c].left = 0 /\ Leave(c, "CONFIRMATION_TIMEOUT")
  /\ UNCHANGED <<chain, cache, held, faults>>

\* A status request fails: the promise rejects with the transaction in flight.
PollFails(c) ==
  /\ calls[c].pc = "poll" /\ calls[c].left > 0
  /\ faults < MaxFaults
  /\ faults' = faults + 1
  /\ Leave(c, "RPC_ERROR")
  /\ UNCHANGED <<chain, cache, held>>

----------------------------------------------------------------------------
\* The chain, the owner and the clock

\* A block holds the transaction, as long as its blockhash lives.
Execute(c) ==
  /\ onchain[c].stage = "sent" /\ tip = None
  /\ calls[c].tx # None /\ calls[c].blockhash <= BlockhashLife
  /\ \E m \in Movements(calls[c].tx) :
       LET tx == calls[c].tx
           code == Verdict(tx, m)
           net == IF tx.kind = "transfer" \/ ~isStablecoinMint(tx.mint) THEN m
                  ELSE m + Fees(m, vault)
       IN  /\ tip' = [call |-> c, spent |-> vault.spent, tokens |-> tokens]
           /\ onchain' = [onchain EXCEPT ![c] =
                [stage |-> "processed", code |-> code,
                 surprise |-> @.surprise \/ Unexplained(c, m, code)]]
           /\ vault' = IF code = "ok" /\ m > 0 THEN [vault EXCEPT !.spent = @ + net] ELSE vault
           /\ tokens' = IF code = "ok" THEN Settled(tx, m) ELSE tokens
  /\ UNCHANGED <<table, cache, held, calls, faults, moves>>

Confirm ==
  /\ tip # None
  /\ onchain' = [onchain EXCEPT ![tip.call].stage = "confirmed"]
  /\ calls' = [calls EXCEPT ![tip.call] = IF @.pc = "done" THEN Ended(@.outcome) ELSE @]
  /\ tip' = None
  /\ UNCHANGED <<vault, tokens, table, cache, held, faults, moves>>

\* The block is on a fork that loses: the transaction is in flight again.
Fork ==
  /\ tip # None /\ faults < MaxFaults
  /\ faults' = faults + 1
  /\ onchain' = [onchain EXCEPT ![tip.call].stage = "sent", ![tip.call].code = None]
  /\ vault' = [vault EXCEPT !.spent = tip.spent]
  /\ tokens' = tip.tokens
  /\ tip' = None
  /\ UNCHANGED <<table, cache, held, calls, moves>>

\* The owner's side.  A policy change bumps the version; pausing, freezing and
\* the tables and accounts of other programs do not.
Owner ==
  /\ moves < MaxMoves /\ tip = None
  /\ moves' = moves + 1
  /\ \/ \E v \in {[vault EXCEPT !.floor = IF @ = 0 THEN 4 ELSE 0],
                  [vault EXCEPT !.armed = vault.protocols \ @],
                  [vault EXCEPT !.developerFeeRate = IF @ = 0 THEN 1 ELSE 0]} :
          /\ vault' = [v EXCEPT !.version = @ + 1]
          /\ UNCHANGED <<tokens, table>>
     \/ \E a \in {"paused", "disabled", "revoked"} :
          /\ vault' = [vault EXCEPT !.agent = a]
          /\ UNCHANGED <<tokens, table>>
     \/ /\ vault.status = "Active"
        /\ vault' = [vault EXCEPT !.status = "Frozen"]
        /\ UNCHANGED <<tokens, table>>
     \/ \E a \in {deriveAta("vault", "usdt"), <<"vault", "lst", "token2022">>} \ Existing :
          /\ tokens' = [x \in Existing \cup {a} |-> IF x = a THEN 3 ELSE tokens[x]]
          /\ UNCHANGED <<vault, table>>
     \/ /\ table' = Table /\ table # Table
        /\ UNCHANGED <<vault, tokens>>
  /\ UNCHANGED <<cache, held, calls, onchain, tip, faults>>

\* invalidateCaches()
Invalidate ==
  /\ moves < MaxMoves
  /\ moves' = moves + 1
  /\ cache' = [cache EXCEPT !["seal"] = [blockhash |-> None, table |-> None, tableLeft |-> 0]]
  /\ UNCHANGED <<vault, tokens, table, held, calls, onchain, tip, faults>>

\* No block can hold the transaction any more.
Expired(c) == onchain[c].stage = "sent" /\ calls[c].blockhash >= BlockhashLife

Tick ==
  /\ cache' = [k \in DOMAIN cache |->
       [cache[k] EXCEPT !.blockhash = IF @ = None THEN None ELSE Older(@, BlockhashTtl),
                        !.tableLeft = Sooner(@)]]
  /\ held' = IF held = None THEN None ELSE [held EXCEPT !.age = Older(@, MaxCacheAge + 1)]
  /\ calls' = [c \in Calls |->
       IF calls[c].pc = "done" /\ (calls[c].tx = None \/ Expired(c)) THEN Ended(calls[c].outcome)
       ELSE [calls[c] EXCEPT !.left = Sooner(@),
                             !.blockhash = IF calls[c].pc \in {"idle", "caches"} THEN 0
                                           ELSE Older(@, BlockhashLife + 1)]]
  /\ UNCHANGED <<chain, faults>>

Step(c) ==
  \/ Caches(c) \/ Resolve(c) \/ Probe(c) \/ FetchMints(c) \/ Compose(c)
  \/ Send(c) \/ Poll(c)

Next ==
  \/ \E c \in Calls : \E r \in Requests[c] : Begin(c, r)
  \/ \E c \in Calls : Step(c) \/ PollFails(c) \/ Execute(c)
  \/ Confirm \/ Fork \/ Owner \/ Invalidate \/ Tick

Spec == Init /\ [][Next]_vars

----------------------------------------------------------------------------
\* Properties

\* seal() promises to fail early: when the program rejects a transaction that
\* seal() or transfer() built without a warning, for a reason their own checks
\* or the accounts they attach are there to rule out, then something they had
\* read has changed.  The owner may change the policy, pause, freeze or open an
\* account between any two steps, and a kept state may be used again.
NoSurpriseRejection == \A c \in Calls : ~onchain[c].surprise

\* A call that resolves at the default commitment has its transaction in a
\* confirmed block, fork or no fork; one that rejects before sending leaves
\* nothing that could still land.
OutcomeIsTrue ==
  \A c \in Calls : calls[c].pc = "done" =>
    /\ calls[c].outcome = "confirmed" =>
         onchain[c].stage = "confirmed" /\ onchain[c].code = "ok"
    /\ calls[c].outcome \notin {"confirmed", "processed", "TX_FAILED", "CONFIRMATION_TIMEOUT",
                                "RPC_ERROR", "SEND_FAILED"} => onchain[c].stage = "none"
=============================================================================
