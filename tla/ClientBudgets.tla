---------------------------- MODULE ClientBudgets ----------------------------
(***************************************************************************)
(* What the SDK tells an owner or an agent about budgets: the readers of   *)
(* the tracker and overlay accounts in state-resolver.ts, the charts and   *)
(* rates of spending-analytics.ts, and the cap alerts of                   *)
(* security-analytics.ts.  They are pure functions of fetched accounts and *)
(* the client's clock.                                                     *)
(*                                                                         *)
(* The module is instantiated once per ring: the tracker's constants and   *)
(* the overlay's differ.  Amounts are far below 2^64, so the clamp to      *)
(* U64_MAX never acts.  Chart points are a set: their order is layout.     *)
(***************************************************************************)
EXTENDS Integers, FiniteSets, FiniteSetsExt

CONSTANTS
  EPOCH_DURATION,          \* seconds per bucket (OVERLAY_EPOCH_DURATION)
  NUM_EPOCHS,              \* buckets in the ring (OVERLAY_NUM_EPOCHS)
  ROLLING_WINDOW_SECONDS

currentEpoch(nowUnix) == nowUnix \div EPOCH_DURATION

windowStart(nowUnix) ==
  IF nowUnix > ROLLING_WINDOW_SECONDS THEN nowUnix - ROLLING_WINDOW_SECONDS ELSE 0

bucketEnd(epochId) == (epochId + 1) * EPOCH_DURATION

\* A bucket inside the window counts in full, the one on its edge in part.
Share(usdAmount, epochId, nowUnix) ==
  IF epochId * EPOCH_DURATION >= windowStart(nowUnix) THEN usdAmount
  ELSE (usdAmount * (bucketEnd(epochId) - windowStart(nowUnix))) \div EPOCH_DURATION

-----------------------------------------------------------------------------
(* The vault's tracker. *)

\* Faulty variant: data is taken to be expired one epoch too early.
ExpiresEarly(buckets, lastWriteEpoch, nowUnix) ==
  IF nowUnix <= 0 \/ currentEpoch(nowUnix) - lastWriteEpoch >= NUM_EPOCHS THEN 0
  ELSE MapThenSumSet(LAMBDA i : Share(buckets[i].usd, buckets[i].epoch, nowUnix),
         {i \in DOMAIN buckets : /\ bucketEnd(buckets[i].epoch) > windowStart(nowUnix)
                                 /\ buckets[i].epoch <= currentEpoch(nowUnix)})

getRolling24hUsd(buckets, lastWriteEpoch, nowUnix) ==
  IF nowUnix <= 0 \/ currentEpoch(nowUnix) - lastWriteEpoch > NUM_EPOCHS THEN 0
  ELSE MapThenSumSet(LAMBDA i : Share(buckets[i].usd, buckets[i].epoch, nowUnix),
         {i \in DOMAIN buckets : /\ bucketEnd(buckets[i].epoch) > windowStart(nowUnix)
                                 /\ buckets[i].epoch <= currentEpoch(nowUnix)})

InWindow(buckets, nowUnix) ==
  {i \in DOMAIN buckets :
     /\ buckets[i].usd # 0
     /\ buckets[i].epoch >= currentEpoch(nowUnix) - NUM_EPOCHS
     /\ buckets[i].epoch <= currentEpoch(nowUnix)}

\* The vault's chart: raw bucket amounts, not scaled at the edge.
getSpendingHistory(buckets, lastWriteEpoch, nowUnix) ==
  IF nowUnix <= 0 \/ currentEpoch(nowUnix) - lastWriteEpoch > NUM_EPOCHS THEN {}
  ELSE {[epochId |-> buckets[i].epoch, usdAmount |-> buckets[i].usd] :
          i \in InWindow(buckets, nowUnix)}

\* The current rate extrapolates the three latest epochs with spending to an
\* hour of six epochs; the peak is the largest bucket in the window.
getSpendingVelocity(buckets, nowUnix) ==
  LET validBuckets == InWindow(buckets, nowUnix)
      later(i) == {j \in validBuckets : buckets[j].epoch > buckets[i].epoch}
      recentEpochs == {i \in validBuckets : Cardinality(later(i)) < 3}
      recentSum == MapThenSumSet(LAMBDA i : buckets[i].usd, recentEpochs)
  IN  [currentRate |-> IF recentEpochs = {} THEN 0
                       ELSE (recentSum * 6) \div Cardinality(recentEpochs),
       peakRate |-> Max({0} \cup {buckets[i].usd : i \in validBuckets})]

-----------------------------------------------------------------------------
(* The per-agent overlay. *)

findAgentOverlaySlot(entries, agent) == {i \in DOMAIN entries : entries[i].agent = agent}

\* The epochs an entry still holds, read backwards from its last write.
Held(entry) ==
  {e \in entry.last_write_epoch - NUM_EPOCHS + 1 .. entry.last_write_epoch : e >= 0}

getAgentRolling24hUsd(entry, nowUnix) ==
  IF nowUnix <= 0 \/ currentEpoch(nowUnix) - entry.last_write_epoch > NUM_EPOCHS THEN 0
  ELSE MapThenSumSet(LAMBDA e : Share(entry.contributions[e % NUM_EPOCHS], e, nowUnix),
         {e \in Held(entry) : /\ bucketEnd(e) > windowStart(nowUnix)
                              /\ e <= currentEpoch(nowUnix)})

\* An agent's chart: the epochs strictly after the window's first.
getAgentSpendingHistory(entry, nowUnix) ==
  IF nowUnix <= 0 \/ entry.last_write_epoch = 0 THEN {}
  ELSE {[epochId |-> e, usdAmount |-> entry.contributions[e % NUM_EPOCHS]] :
          e \in {f \in Held(entry) : /\ f > currentEpoch(nowUnix) - NUM_EPOCHS
                                     /\ f <= currentEpoch(nowUnix)
                                     /\ entry.contributions[f % NUM_EPOCHS] # 0}}

-----------------------------------------------------------------------------
(* The protocol counters; their windows are counted in epochs. *)

getProtocolSpend(counters, protocol, epoch) ==
  LET mine == {i \in DOMAIN counters : counters[i].protocol = protocol}
  IN  IF mine = {} THEN 0
      ELSE LET counter == counters[Min(mine)]
           IN  IF epoch - counter.window_start < NUM_EPOCHS THEN counter.window_spend ELSE 0

-----------------------------------------------------------------------------
(* The budgets of resolveVaultState and resolveVaultBudget. *)

EffectiveBudget(spent, cap) ==
  [spent24h |-> spent, cap |-> cap, remaining |-> IF cap > spent THEN cap - spent ELSE 0]

globalBudget(buckets, lastWriteEpoch, cap, nowUnix) ==
  EffectiveBudget(getRolling24hUsd(buckets, lastWriteEpoch, nowUnix), cap)

agentBudget(entries, agent, spendingLimitUsd, nowUnix) ==
  LET slot == findAgentOverlaySlot(entries, agent)
  IN  EffectiveBudget(
        IF slot = {} THEN 0 ELSE getAgentRolling24hUsd(entries[Min(slot)], nowUnix),
        spendingLimitUsd)

\* Only protocols with a cap have a budget.
protocolBudgets(counters, caps, epoch) ==
  [p \in {q \in DOMAIN caps : caps[q] # 0} |->
     EffectiveBudget(getProtocolSpend(counters, p, epoch), caps[p])]

\* The severity of the alert evaluateAlertConditions raises for a budget.
capAlert(budget) ==
  LET util == (budget.spent24h * 100) \div budget.cap
  IN  IF budget.cap <= 0 THEN "none"
      ELSE IF util >= 95 THEN "critical" ELSE IF util >= 80 THEN "warning" ELSE "none"

Charted(history) == MapThenSumSet(LAMBDA p : p.usdAmount, history)

=============================================================================
