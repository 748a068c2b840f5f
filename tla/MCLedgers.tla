------------------------------ MODULE MCLedgers ------------------------------
(***************************************************************************)
(* The four spending ledgers of a vault, each with its own small instance. *)
(* They share no account field, so a behaviour explores one of them (part) *)
(* and leaves the variables of the others out.  Beside each ledger stands  *)
(* the SDK's reader of it, ClientBudgets with the ledger's constants.      *)
(***************************************************************************)
EXTENDS Integers, FiniteSets, FiniteSetsExt, TLC

CONSTANTS r1, r2, r3, p1, p2, p3, a1, a2, NoProtocol, NoAgent, Unused

VARIABLES
  part,
  buckets, last_write_epoch, daily_cap, outflow,  \* the tracker's ring
  per_recipient, cap,                             \* the recipient table
  protocol_counters, epoch, protocol_caps,        \* the protocol counters
  slots, acted,                                   \* the per-agent overlay
  now, spent, paid

trackerOnly == <<buckets, last_write_epoch, daily_cap, outflow>>
recipientOnly == <<per_recipient, cap>>
protocolOnly == <<protocol_counters, epoch, protocol_caps>>
overlayOnly == <<slots, acted>>
vars == <<part, trackerOnly, recipientOnly, protocolOnly, overlayOnly, now, spent, paid>>

Tracker == INSTANCE SpendTracker WITH
  NumEpochs <- 3, EpochDuration <- 3, StartTime <- 12, MaxTime <- 24,
  Amounts <- {1, 3}, Caps <- {3, 4}
TrackerReader == INSTANCE ClientBudgets WITH
  NUM_EPOCHS <- 3, EPOCH_DURATION <- 3, ROLLING_WINDOW_SECONDS <- 9

Recipient == INSTANCE RecipientCounters WITH
  Recipients <- {r1, r2, r3}, MaxEntries <- 2, Window <- 3, StartTime <- 1,
  MaxTime <- 7, Amounts <- {1, 2}, Caps <- {0, 2}

Protocol == INSTANCE ProtocolCounters WITH
  Protocols <- {p1, p2, p3}, MaxProtocols <- 2, NumEpochs <- 2, MaxEpoch <- 4,
  Amounts <- {1, 2}, Caps <- {0, 2}, MaxPerEpoch <- 2
ProtocolReader == INSTANCE ClientBudgets WITH
  NUM_EPOCHS <- 2, EPOCH_DURATION <- 1, ROLLING_WINDOW_SECONDS <- 2

Overlay == INSTANCE AgentSpendOverlay WITH
  Agents <- {a1, a2}, MaxSlots <- 2, NumEpochs <- 2, EpochDuration <- 2,
  StartTime <- 6, MaxTime <- 11, Amounts <- {2}, Limit <- 3, Cooldowns <- {2}
OverlayReader == INSTANCE ClientBudgets WITH
  NUM_EPOCHS <- 2, EPOCH_DURATION <- 2, ROLLING_WINDOW_SECONDS <- 4

ASSUME Tracker!TrackerAssumption
ASSUME Recipient!RecipientAssumption
ASSUME Protocol!ProtocolAssumption
ASSUME Overlay!OverlayAssumption

\* Recipients, protocols and agents are interchangeable.
LedgerSymmetry ==
  Permutations({r1, r2, r3}) \cup Permutations({p1, p2, p3}) \cup Permutations({a1, a2})

NoTracker ==
  /\ buckets = Unused /\ last_write_epoch = Unused /\ daily_cap = Unused /\ outflow = Unused
NoRecipient == per_recipient = Unused /\ cap = Unused
NoProtocols == protocol_counters = Unused /\ epoch = Unused /\ protocol_caps = Unused
NoOverlay == slots = Unused /\ acted = Unused

Init ==
  \/ /\ part = "tracker" /\ Tracker!Init /\ paid = Unused
     /\ NoRecipient /\ NoProtocols /\ NoOverlay
  \/ /\ part = "recipient" /\ Recipient!Init /\ spent = Unused
     /\ NoTracker /\ NoProtocols /\ NoOverlay
  \/ /\ part = "protocol" /\ Protocol!Init /\ now = Unused /\ paid = Unused
     /\ NoTracker /\ NoRecipient /\ NoOverlay
  \/ /\ part = "overlay" /\ Overlay!Init /\ spent = Unused
     /\ NoTracker /\ NoRecipient /\ NoProtocols

Next ==
  \/ /\ part = "tracker" /\ Tracker!Next
     /\ UNCHANGED <<part, paid, recipientOnly, protocolOnly, overlayOnly>>
  \/ /\ part = "recipient" /\ Recipient!Next
     /\ UNCHANGED <<part, spent, trackerOnly, protocolOnly, overlayOnly>>
  \/ /\ part = "protocol" /\ Protocol!Next
     /\ UNCHANGED <<part, now, paid, trackerOnly, recipientOnly, overlayOnly>>
  \/ /\ part = "overlay" /\ Overlay!Next
     /\ UNCHANGED <<part, spent, trackerOnly, recipientOnly, protocolOnly>>

Spec == Init /\ [][Next]_vars

-----------------------------------------------------------------------------

\* No ledger loses or invents spend: the tracker's ring over its laps, a
\* recipient's and a protocol's live window, and an agent's overlay slot, which
\* never shows one agent another's spending (SpendTracker!RingExact,
\* RecipientCounters!WindowExact, ProtocolCounters!CounterExact,
\* AgentSpendOverlay!TenantIsolation).
LedgersExact ==
  /\ part = "tracker" => Tracker!RingExact
  /\ part = "recipient" => Recipient!WindowExact
  /\ part = "protocol" => Protocol!CounterExact
  /\ part = "overlay" => Overlay!TenantIsolation


\* Any 24 hours see at most two caps' worth of payments to one recipient
\* (RecipientCounters!AtMostTwoCaps).
AtMostTwoCaps == part = "recipient" => Recipient!AtMostTwoCaps

\* A full recipient table recovers by age alone
\* (RecipientCounters!AgeFreesTheTable).
AgeFreesTheTable == part = "recipient" => Recipient!AgeFreesTheTable

\* A spend is accepted only within the live cap of its ledger, whatever caps
\* were in force before, and none escapes a cap by pushing a live window out of
\* the recipient table (SpendTracker!SpendRespectsCap, RecipientCounters!NoChurn,
\* ProtocolCounters!SpendWithinCap, AgentSpendOverlay!SpendWithinLimit).
SpendsRespectCaps ==
  [][/\ part = "tracker" => Tracker!SpendRespectsCap
     /\ part = "recipient" => Recipient!NoChurn
     /\ part = "protocol" => Protocol!SpendWithinCap
     /\ part = "overlay" => Overlay!SpendWithinLimit]_vars

-----------------------------------------------------------------------------

GlobalAt(t) == TrackerReader!globalBudget(buckets, last_write_epoch, daily_cap, t)
AgentAt(a, t) == OverlayReader!agentBudget(slots, a, 3, t)
ProtocolsAt(e) == ProtocolReader!protocolBudgets(protocol_counters, protocol_caps, e)

\* The vault's budget: the program accepts exactly the spends the SDK says
\* remain, an exhausted budget raises the critical alert, and the chart and the
\* rates read the same live buckets as the budget does.
GlobalIsHonest ==
  LET budget == GlobalAt(now)
      chart == TrackerReader!getSpendingHistory(buckets, last_write_epoch, now)
      velocity == TrackerReader!getSpendingVelocity(buckets, now)
  IN  /\ \A usd \in 1 .. 4 :
           usd <= budget.remaining
             <=> Tracker!get_rolling_24h_usd(buckets, last_write_epoch, now) + usd <= daily_cap
      /\ budget.remaining = 0 => TrackerReader!capAlert(budget) = "critical"
      /\ TrackerReader!Charted(chart) >= budget.spent24h
      /\ velocity.currentRate > 0 <=> chart # {}
      /\ velocity.peakRate = Max({0} \cup {p.usdAmount : p \in chart})

\* An agent's budget: the program accepts exactly what remains, and the agent's
\* chart adds up to what the agent really spent in the epochs it shows.
AgentIsHonest(a) ==
  \A i \in Overlay!find_agent_slot(slots, a) :
    /\ \A usd \in 1 .. 3 :
         usd <= AgentAt(a, now).remaining <=> Overlay!WithinLimit(slots[i], usd, now)
    /\ OverlayReader!Charted(OverlayReader!getAgentSpendingHistory(slots[i], now))
         = Overlay!AlignedSpend(a)

\* A capped protocol's budget: the cap check passes for exactly what remains.
ProtocolIsHonest ==
  \A p \in DOMAIN ProtocolsAt(epoch) : \A usd \in 1 .. 2 :
    usd <= ProtocolsAt(epoch)[p].remaining
      <=> Protocol!get_protocol_spend(protocol_counters, p, epoch) + usd <= protocol_caps[p]

\* A budget read before the transaction lands is not invalidated by the delay
\* alone: while nobody spends, what remains never shrinks as the clock moves.
QuoteOutlivesDelay ==
  /\ part = "tracker" =>
       \A t \in now + 1 .. now + 3 : GlobalAt(t).remaining >= GlobalAt(now).remaining
  /\ part = "overlay" => \A a \in {a1, a2} : \A t \in now + 1 .. now + 2 :
       AgentAt(a, t).remaining >= AgentAt(a, now).remaining
  /\ part = "protocol" => \A p \in DOMAIN ProtocolsAt(epoch) :
       ProtocolsAt(epoch + 1)[p].remaining >= ProtocolsAt(epoch)[p].remaining

\* The SDK's budgets (resolveVaultState, getSpendingHistory,
\* getAgentSpendingHistory) agree with the checks finalize_session and
\* agent_transfer make on the same accounts at the same time, in every state the
\* ledgers reach: at the window's edge, after skipped epochs and on a later lap;
\* and a quote is still good when its transaction lands later.
BudgetIsHonest ==
  /\ part = "tracker" => GlobalIsHonest
  /\ part = "overlay" => \A a \in {a1, a2} : AgentIsHonest(a)
  /\ part = "protocol" => ProtocolIsHonest
  /\ QuoteOutlivesDelay

=============================================================================
