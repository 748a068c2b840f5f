--------------------------- MODULE VelocityTracker ---------------------------
(***************************************************************************)
(* velocity-tracker.ts: the rate and rapid-fire detector an agent asks     *)
(* before it sends.  It reads the shared ShieldState and keeps a cooldown  *)
(* and the times of the checks it let through.                             *)
(***************************************************************************)
EXTENDS Shield

CONSTANTS
  VelocityConfig,    \* the caller's thresholds, defaults filled in
  Usd,               \* amounts of the transactions the agent sends
  MaxTime, MaxSends

\* trackerPasses is history: when the tracker let a check through.  pending is
\* the number of passes whose transaction has not been recorded yet.
VARIABLES st, vt, now, pending, trackerPasses

vars == <<st, vt, now, pending, trackerPasses>>

EmptyTracker == [cooldownUntil |-> 0, txTimestamps |-> <<>>]

isInCooldown == now < vt.cooldownUntil

Recent ==
  SelectSeq(vt.txTimestamps, LAMBDA t : t + VelocityConfig.rapidFire.window >= now)

\* Transactions per minute and per hour, value per hour, the on-chain budget
\* when it is known, and the number of checks in quick succession.
VelocityViolated ==
  \/ getTransactionCountInWindow(st, Minute, now) >= VelocityConfig.maxTxPerMinute
  \/ getTransactionCountInWindow(st, Hour, now) >= VelocityConfig.maxTxPerHour
  \/ getTotalSpendInWindow(st, Hour, now) >= VelocityConfig.maxUsdPerHour
  \/ /\ st.resolvedState # NotSynced
     /\ getEffectiveGlobalSpent24h(st) >= st.resolvedState.cap
  \/ Len(Recent) + 1 >= VelocityConfig.rapidFire.count

\* Faulty variant: the times of earlier checks are forgotten on a pass.
VelocityForgets(dryRun) ==
  IF isInCooldown THEN [ok |-> FALSE, vt |-> vt]
  ELSE IF VelocityViolated
       THEN [ok |-> FALSE, vt |-> [cooldownUntil |-> now + VelocityConfig.cooldown,
                                   txTimestamps |-> Recent]]
       ELSE [ok |-> TRUE, vt |-> [vt EXCEPT !.txTimestamps = <<now>>]]

\* check(): during a cooldown nothing is looked at; a breach starts one, even
\* in a dry run; a pass is remembered unless it was a dry run.
velocityCheck(dryRun) ==
  IF isInCooldown THEN [ok |-> FALSE, vt |-> vt]
  ELSE IF VelocityViolated
       THEN [ok |-> FALSE, vt |-> [cooldownUntil |-> now + VelocityConfig.cooldown,
                                   txTimestamps |-> Recent]]
       ELSE [ok |-> TRUE,
             vt |-> [vt EXCEPT !.txTimestamps =
                       IF dryRun THEN Recent ELSE Append(Recent, now)]]

\* recordTransaction() after a send; the amount carries no mint.
velocityRecord(usd) ==
  LET counted == recordTransaction(st, now)
  IN  IF usd = 0 THEN counted ELSE recordSpend(counted, NoMint, usd, now)

-----------------------------------------------------------------------------
\* An agent that asks before it sends, and records what it sent.

Init ==
  /\ st = EmptyState
  /\ vt = EmptyTracker
  /\ now = 0
  /\ pending = 0
  /\ trackerPasses = <<>>

Ask(dryRun) ==
  LET r == velocityCheck(dryRun)
      sends == r.ok /\ ~dryRun
  IN  /\ Len(st.txEntries) + pending < MaxSends
      /\ vt' = r.vt
      /\ trackerPasses' = IF sends THEN Append(trackerPasses, now) ELSE trackerPasses
      /\ pending' = IF sends THEN pending + 1 ELSE pending
      /\ UNCHANGED <<st, now>>

Sent ==
  /\ pending > 0
  /\ \E usd \in Usd : st' = velocityRecord(usd)
  /\ pending' = pending - 1
  /\ UNCHANGED <<vt, now, trackerPasses>>

ResetTracker ==
  /\ vt' = EmptyTracker
  /\ trackerPasses' = <<>>
  /\ UNCHANGED <<st, now, pending>>

Tick ==
  /\ now < MaxTime
  /\ now' = now + 1
  /\ UNCHANGED <<st, vt, pending, trackerPasses>>

Next == (\E dryRun \in BOOLEAN : Ask(dryRun)) \/ Sent \/ ResetTracker \/ Tick

Spec == Init /\ [][Next]_vars

-----------------------------------------------------------------------------
\* Since the tracker was last reset, at most rapidFireThreshold.count - 1
\* checks have passed in any stretch of the configured length, however dry
\* runs, breaches and cooldowns fall in between.
RapidFireBound ==
  Len(SelectSeq(trackerPasses, LAMBDA t : t + VelocityConfig.rapidFire.window >= now))
    < VelocityConfig.rapidFire.count
=============================================================================
