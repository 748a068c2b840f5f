------------------------- MODULE AgentSpendOverlay --------------------------
(***************************************************************************)
(* The per-agent overlay: state/agent_spend_overlay.rs.                    *)
(*                                                                         *)
(* A fixed set of slots, each lent to one agent at a time.  A slot holds   *)
(* the agent's rolling spend as a ring of NumEpochs buckets addressed only *)
(* by last_write_epoch (buckets carry no epoch of their own, so skipped    *)
(* ones are zeroed on the next write), and the agent's cooldown.           *)
(* Slots are claimed by register_agent, apply_agent_grant and              *)
(* apply_agent_permissions_update and released by revoke_agent and by a    *)
(* permissions update that removes the limit.                              *)
(*                                                                         *)
(* paid and acted are history variables: what the agent spent, and when it *)
(* last ran a session, since it was given its slot.                        *)
(***************************************************************************)
EXTENDS Integers, FiniteSets, FiniteSetsExt

CONSTANTS
  Agents, NoAgent,  \* agents, and the all-zero key of a free slot
  MaxSlots,         \* MAX_OVERLAY_ENTRIES
  NumEpochs,        \* OVERLAY_NUM_EPOCHS
  EpochDuration,    \* OVERLAY_EPOCH_DURATION
  StartTime,        \* the clock when the vault is initialised
  MaxTime,          \* the clock is not advanced beyond this
  Amounts,          \* spends an agent may attempt
  Limit,            \* spending_limit_usd of an agent that holds a slot
  Cooldowns         \* cooldowns the owner may set; zero means none

OverlayAssumption ==
  /\ NoAgent \notin Agents
  /\ MaxSlots \in Nat \ {0}
  /\ NumEpochs \in Nat \ {0}
  /\ EpochDuration \in Nat \ {0}
  /\ StartTime \in Nat /\ StartTime >= (NumEpochs + 1) * EpochDuration
  /\ MaxTime \in Nat
  /\ Amounts \subseteq Nat \ {0}
  /\ Limit \in Nat \ {0}
  /\ Cooldowns \subseteq Nat

VARIABLES slots, now, paid, acted

vars == <<slots, now, paid, acted>>

Window == NumEpochs * EpochDuration   \* OVERLAY_ROLLING_WINDOW_SECONDS
Times == 0 .. MaxTime
Ring == 0 .. NumEpochs - 1
EpochOf(t) == t \div EpochDuration
FreeSlot ==
  [agent |-> NoAgent, last_write_epoch |-> 0, contributions |-> [i \in Ring |-> 0],
   cooldown_seconds |-> 0, last_action_unix |-> 0]

find_agent_slot(ss, a) == {i \in DOMAIN ss : ss[i].agent = a}

-----------------------------------------------------------------------------

\* Faulty variant: only the bucket about to be written is cleared.
ZeroCurrentOnly(s, epoch) ==
  IF epoch <= s.last_write_epoch THEN s.contributions
  ELSE [s.contributions EXCEPT ![epoch % NumEpochs] = 0]

\* The contributions once the epochs skipped since the last write are cleared.
zero_gap_buckets(s, epoch) ==
  LET gap == epoch - s.last_write_epoch
      skipped == {e % NumEpochs : e \in s.last_write_epoch + 1 .. epoch}
  IN  [i \in Ring |-> IF gap >= NumEpochs \/ i \in skipped THEN 0 ELSE s.contributions[i]]

\* Faulty variant: the epoch is rounded up.
RecordRoundsUp(s, usd, t) ==
  LET epoch == (t + EpochDuration - 1) \div EpochDuration
  IN  [s EXCEPT !.contributions =
                  [zero_gap_buckets(s, epoch) EXCEPT ![epoch % NumEpochs] = @ + usd],
                !.last_write_epoch = epoch]

record_agent_contribution(s, usd, t) ==
  [s EXCEPT !.contributions =
              [zero_gap_buckets(s, EpochOf(t)) EXCEPT ![EpochOf(t) % NumEpochs] = @ + usd],
            !.last_write_epoch = EpochOf(t)]

\* The buckets are read backwards from the last write; the walk stops at the
\* first one that ended before the window, and an edge bucket is scaled.
get_agent_rolling_24h_usd(s, t) ==
  LET window_start == t - Window
      live == {e \in s.last_write_epoch - NumEpochs + 1 .. s.last_write_epoch :
                 e >= 0 /\ (e + 1) * EpochDuration > window_start /\ e <= EpochOf(t)}
      share(e) ==
        IF e * EpochDuration >= window_start THEN s.contributions[e % NumEpochs]
        ELSE (s.contributions[e % NumEpochs] * ((e + 1) * EpochDuration - window_start))
               \div EpochDuration
  IN  IF t <= 0 \/ EpochOf(t) - s.last_write_epoch > NumEpochs THEN 0
      ELSE MapThenSumSet(share, live)

is_cooldown_elapsed(s, t) ==
  \/ s.cooldown_seconds = 0
  \/ s.last_action_unix = 0
  \/ t - s.last_action_unix >= s.cooldown_seconds

-----------------------------------------------------------------------------

Init ==
  /\ slots = [i \in 1 .. MaxSlots |-> FreeSlot]
  /\ now = StartTime
  /\ paid = [a \in Agents |-> [t \in Times |-> 0]]
  /\ acted = [a \in Agents |-> 0]

\* A free slot is lent to an agent that has none.
claim_slot(a) ==
  /\ find_agent_slot(slots, a) = {}
  /\ find_agent_slot(slots, NoAgent) # {}
  /\ slots' = [slots EXCEPT ![Min(find_agent_slot(slots, NoAgent))].agent = a]
  /\ UNCHANGED <<now, paid, acted>>

release_slot(a) ==
  /\ \E i \in find_agent_slot(slots, a) : slots' = [slots EXCEPT ![i] = FreeSlot]
  /\ paid' = [paid EXCEPT ![a] = [t \in Times |-> 0]]
  /\ acted' = [acted EXCEPT ![a] = 0]
  /\ UNCHANGED now

\* apply_agent_permissions_update sets the cooldown.
set_cooldown_seconds(a, c) ==
  /\ \E i \in find_agent_slot(slots, a) :
       slots' = [slots EXCEPT ![i].cooldown_seconds = c]
  /\ UNCHANGED <<now, paid, acted>>

\* The per-agent check finalize_session and agent_transfer share.
WithinLimit(s, usd, t) == get_agent_rolling_24h_usd(s, t) + usd <= Limit

\* A session that spends: validate_and_authorize checks the cooldown and stamps
\* the action, finalize_session checks the limit and records the spend.
Session(a, usd) ==
  /\ \E i \in find_agent_slot(slots, a) :
       /\ is_cooldown_elapsed(slots[i], now)
       /\ WithinLimit(slots[i], usd, now)
       /\ slots' = [slots EXCEPT ![i] =
            [record_agent_contribution(@, usd, now) EXCEPT !.last_action_unix = now]]
  /\ paid' = [paid EXCEPT ![a][now] = @ + usd]
  /\ acted' = [acted EXCEPT ![a] = now]
  /\ UNCHANGED now

\* A session that moves no value only stamps the action.
IdleSession(a) ==
  /\ \E i \in find_agent_slot(slots, a) :
       /\ is_cooldown_elapsed(slots[i], now)
       /\ slots' = [slots EXCEPT ![i].last_action_unix = now]
  /\ acted' = [acted EXCEPT ![a] = now]
  /\ UNCHANGED <<now, paid>>

\* agent_transfer neither consults nor stamps the cooldown.
AgentTransfer(a, usd) ==
  /\ \E i \in find_agent_slot(slots, a) :
       /\ WithinLimit(slots[i], usd, now)
       /\ slots' = [slots EXCEPT ![i] = record_agent_contribution(@, usd, now)]
  /\ paid' = [paid EXCEPT ![a][now] = @ + usd]
  /\ UNCHANGED <<now, acted>>

Tick ==
  /\ now < MaxTime
  /\ now' = now + 1
  /\ UNCHANGED <<slots, paid, acted>>

Next ==
  \/ \E a \in Agents :
       \/ claim_slot(a)
       \/ release_slot(a)
       \/ \E c \in Cooldowns : set_cooldown_seconds(a, c)
       \/ \E usd \in Amounts : Session(a, usd) \/ AgentTransfer(a, usd)
       \/ IdleSession(a)
  \/ Tick

Spec == Init /\ [][Next]_vars

-----------------------------------------------------------------------------

\* The slots, the clock and the history have their types, and no slot was
\* written in the future.
TypeOK ==
  /\ slots \in [1 .. MaxSlots ->
       [agent : Agents \cup {NoAgent}, last_write_epoch : Nat, contributions : [Ring -> Nat],
        cooldown_seconds : Nat, last_action_unix : Nat]]
  /\ \A i \in 1 .. MaxSlots : slots[i].last_write_epoch <= EpochOf(now)
  /\ now \in Times
  /\ paid \in [Agents -> [Times -> Nat]]
  /\ acted \in [Agents -> Nat]

PaidBetween(a, lo, hi) ==
  MapThenSumSet(LAMBDA t : paid[a][t], {t \in Times : lo <= t /\ t <= hi})

AlignedSpend(a) == PaidBetween(a, (EpochOf(now) - NumEpochs + 1) * EpochDuration, now)

\* A slot never serves two agents' numbers: an agent holds at most one slot, the
\* rolling total of a slot is bounded by its own agent's spending since it was
\* given the slot (the last NumEpochs epochs below, one epoch more above), and
\* its last action is that agent's own.  release_slot and zero_gap_buckets must
\* leave nothing of an earlier tenant or an earlier lap behind.
TenantIsolation ==
  \A a \in Agents : \A i \in find_agent_slot(slots, a) :
    LET rolling == get_agent_rolling_24h_usd(slots[i], now)
    IN  /\ find_agent_slot(slots, a) = {i}
        /\ rolling >= AlignedSpend(a)
        /\ rolling <= PaidBetween(a, EpochOf(now - Window) * EpochDuration, now)
        /\ slots[i].last_action_unix = acted[a]

\* A spend accepted from an agent keeps its outflow over the current epoch and
\* the NumEpochs - 1 before it within its spending_limit_usd.
SpendWithinLimit ==
  \A a \in Agents : PaidBetween(a, 0, now)' > PaidBetween(a, 0, now)
    => AlignedSpend(a)' <= Limit

=============================================================================
