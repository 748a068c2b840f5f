--------------------------- MODULE ShieldedSigner ---------------------------
(***************************************************************************)
(* Callers of one shield context: createShieldedSigner and the context's   *)
(* methods in shield.ts.                                                   *)
(*                                                                         *)
(* JavaScript runs to the next await without interruption, so one action   *)
(* is one stretch between awaits.  The signer awaits twice: the simulation *)
(* of each transaction, and the base signer once all of them have passed.  *)
(* Any other caller may run in between.                                    *)
(*                                                                         *)
(* passes, since and signed are history: what went through the gate, how   *)
(* much of it preceded the last reset and the last sync, and what the base *)
(* signer returned.  Nothing in the code reads them.                       *)
(***************************************************************************)
EXTENDS Shield

CONSTANTS
  Signers,          \* concurrent calls of modifyAndSignTransactions
  Agent,            \* the base signer's address
  Batches,          \* the transactions a call may be given
  PolicyInputs,     \* what updatePolicies may be called with
  Ceilings,         \* velocityThresholds of the signer
  Severity,         \* sessionBindingSeverity, or "off" without a session
  ResolvedStates,   \* what a sync may read from chain
  MaxTime, MaxPasses,
  MaxOps            \* calls of the context's other methods

VARIABLES st, pol, paused, now, call, since, passes, signed, ops

vars == <<st, pol, paused, now, call, since, passes, signed, ops>>

Idle == [pc |-> "idle", batch |-> <<>>, i |-> 1]
Txs == UNION {ToSet(b) : b \in Batches}

Init ==
  /\ st = EmptyState
  /\ \E p \in PolicyInputs : pol = resolvePolicies(p)
  /\ paused = FALSE
  /\ now = 0
  /\ call = [s \in Signers |-> Idle]
  /\ since = [reset |-> 0, sync |-> 0]
  /\ passes = <<>>
  /\ signed = [t \in Txs |-> 0]
  /\ ops = 0

Pass(tx, by) == [tx |-> tx, ts |-> now, by |-> by]


\* Where a call goes when it turns to transaction i of its batch: the velocity
\* ceiling is read now, and the simulation awaited.
Turn(batch, i, ledger) ==
  IF i > Len(batch) THEN [pc |-> "signing", batch |-> batch, i |-> i]
  ELSE IF VelocityBreached(batch[i], Agent, ledger, Ceilings, now) THEN Idle
  ELSE [pc |-> "simulating", batch |-> batch, i |-> i]

\* modifyAndSignTransactions(batch): up to the first simulation.
Begin(s) ==
  /\ call[s].pc = "idle"
  /\ Len(passes) < MaxPasses
  /\ \E b \in Batches : call' = [call EXCEPT ![s] = Turn(b, 1, st)]
  /\ UNCHANGED <<st, pol, paused, now, since, passes, signed, ops>>

\* Properties 4 and 5 of the gate, after the simulation has come back.
GateViolations(tx) ==
  check(tx, Agent, pol, paused, st, now)
  \cup (IF Severity = "off" \/ checkSessionBinding(tx, Severity) THEN {} ELSE {"session_binding"})

\* The simulation is back: a failure or a violation throws, otherwise the
\* transaction is charged and the next one is turned to.
Simulated(s) ==
  /\ call[s].pc = "simulating"
  /\ LET tx == call[s].batch[call[s].i]
         charged == Charge(tx, Agent, st, now)
     IN  \/ /\ call' = [call EXCEPT ![s] = Idle]     \* the simulation failed
            /\ UNCHANGED <<st, passes>>
         \/ /\ GateViolations(tx) # {}
            /\ call' = [call EXCEPT ![s] = Idle]
            /\ UNCHANGED <<st, passes>>
         \/ /\ GateViolations(tx) = {}
            /\ st' = charged
            /\ passes' = Append(passes, Pass(tx, s))
            /\ call' = [call EXCEPT ![s] = Turn(@.batch, @.i + 1, charged)]
  /\ UNCHANGED <<pol, paused, now, since, signed, ops>>

\* The base signer answers for the whole batch, or throws.
BaseSigned(s) ==
  /\ call[s].pc = "signing"
  /\ \/ signed' = [t \in Txs |-> signed[t] + Len(SelectSeq(call[s].batch, LAMBDA x : x = t))]
     \/ UNCHANGED signed
  /\ call' = [call EXCEPT ![s] = Idle]
  /\ UNCHANGED <<st, pol, paused, now, since, passes, ops>>

\* ctx.enforce(): check and record in one go; the caller then signs with
\* whatever it likes.
Enforce ==
  /\ Len(passes) < MaxPasses
  /\ \E tx \in Txs :
       /\ check(tx, Agent, pol, paused, st, now) = {}
       /\ st' = markEnforceUsed(Charge(tx, Agent, st, now))
       /\ passes' = Append(passes, Pass(tx, "enforce"))
  /\ UNCHANGED <<pol, paused, now, call, since, signed, ops>>

-----------------------------------------------------------------------------
\* The rest of the context

OneMoreOp == ops < MaxOps /\ ops' = ops + 1

UpdatePolicies ==
  /\ OneMoreOp
  /\ \E p \in PolicyInputs : pol' = resolvePolicies(p) /\ pol' # pol
  /\ UNCHANGED <<st, paused, now, call, since, passes, signed>>

Pause ==
  /\ OneMoreOp
  /\ paused' = ~paused
  /\ UNCHANGED <<st, pol, now, call, since, passes, signed>>

ResetState ==
  /\ OneMoreOp
  /\ st' = reset(st)
  /\ since' = [reset |-> Len(passes), sync |-> Len(passes)]
  /\ UNCHANGED <<pol, paused, now, call, passes, signed>>

\* ctx.sync(): the read is awaited; what counts is when its answer is applied.
Sync ==
  /\ OneMoreOp
  /\ \E rs \in ResolvedStates : st' = syncFromOnChain(st, rs)
  /\ since' = [since EXCEPT !.sync = Len(passes)]
  /\ UNCHANGED <<pol, paused, now, call, passes, signed>>

Tick ==
  /\ now < MaxTime
  /\ now' = now + 1
  /\ UNCHANGED <<st, pol, paused, call, since, passes, signed, ops>>

Next ==
  \/ \E s \in Signers : Begin(s) \/ Simulated(s) \/ BaseSigned(s)
  \/ Enforce \/ UpdatePolicies \/ Pause \/ ResetState \/ Sync \/ Tick

Spec == Init /\ [][Next]_vars

-----------------------------------------------------------------------------
\* What a pass moved, computed from the transaction alone.
Moved(tx) == SumAmounts(SelectSeq(tx, LAMBDA ix : IsTransfer(ix) /\ ix.authority = Agent))
Dollars(tx) ==
  SumAmounts(SelectSeq(tx, LAMBDA ix : /\ IsTransfer(ix) /\ ix.authority = Agent
                                       /\ ix.op = "transfer_checked" /\ ix.mint \in StableMints))
PassesAfter(k) == SubSeq(passes, k + 1, Len(passes))
SumOver(Op(_), ps) == FoldLeft(LAMBDA sum, p : sum + Op(p.tx), 0, ps)

\* For every window of at most a day, ShieldState reports exactly what passed
\* the gate since the last reset: neither pruning at the threshold nor the
\* order in which callers record loses or repeats an entry.
WindowExact ==
  \A w \in {Minute, Hour, Day} :
    LET recent == Within(PassesAfter(since.reset), w, now)
    IN  /\ getTotalSpendInWindow(st, w, now) = SumOver(Moved, recent)
        /\ getTransactionCountInWindow(st, w, now) = Len(recent)


\* The velocity ceiling is read before the simulation is awaited and the
\* charge made after it, so concurrent calls can overshoot the ceiling: by at
\* most one transaction for every other call in flight.
HourlyOvershoot ==
  Len(SelectSeq(Within(PassesAfter(since.reset), Hour, now), LAMBDA p : p.by \in Signers))
    <= Ceilings.maxTxPerHour + Cardinality(Signers) - 1

\* localUsdAdditions is the dollars charged since the baseline was last
\* replaced, and together they respect the vault's budget as it was last read.
BudgetKept ==
  st.resolvedState # NotSynced =>
    /\ st.localUsd = SumOver(Dollars, PassesAfter(since.sync))
    /\ st.localUsd > 0 => getEffectiveGlobalSpent24h(st) <= st.resolvedState.cap

=============================================================================
