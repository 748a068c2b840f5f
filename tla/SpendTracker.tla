---------------------------- MODULE SpendTracker ----------------------------
(***************************************************************************)
(* The vault-wide rolling 24h spend tracker: state/tracker.rs.             *)
(*                                                                         *)
(* The account is a ring of NumEpochs buckets (NUM_EPOCHS = 144), each     *)
(* EpochDuration seconds long (EPOCH_DURATION = 600).  finalize_session    *)
(* and agent_transfer both read the rolling total, compare it with         *)
(* daily_spending_cap_usd and, in the same transaction, record the spend:  *)
(* one action here.  apply_pending_policy may replace the cap at any time. *)
(*                                                                         *)
(* spent and outflow are history variables: what really left the vault,    *)
(* per second and per epoch.  Nothing in the code reads them.              *)
(***************************************************************************)
EXTENDS Integers, FiniteSets, FiniteSetsExt

CONSTANTS
  NumEpochs,      \* buckets in the ring
  EpochDuration,  \* seconds per bucket
  StartTime,      \* the clock when the vault is initialised
  MaxTime,        \* the clock is not advanced beyond this
  Amounts,        \* spends an agent may attempt
  Caps            \* daily caps the owner may set

\* A vault is created long after the unix epoch: its first spend falls more
\* than one full ring after epoch number zero, the number of an unused bucket.
TrackerAssumption ==
  /\ NumEpochs \in Nat \ {0}
  /\ EpochDuration \in Nat \ {0}
  /\ StartTime \in Nat
  /\ MaxTime \in Nat
  /\ StartTime >= (NumEpochs + 1) * EpochDuration
  /\ Amounts \subseteq Nat \ {0}
  /\ Caps \subseteq Nat

VARIABLES buckets, last_write_epoch, now, daily_cap, spent, outflow

vars == <<buckets, last_write_epoch, now, daily_cap, spent, outflow>>

Window == NumEpochs * EpochDuration   \* ROLLING_WINDOW_SECONDS
Slots == 0 .. NumEpochs - 1
Times == 0 .. MaxTime
Epochs == 0 .. MaxTime
EpochOf(t) == t \div EpochDuration
EmptyBucket == [epoch |-> 0, usd |-> 0]

-----------------------------------------------------------------------------

\* What one bucket contributes to the rolling total at time t: nothing once it
\* has left the window, all of it while it lies inside, and the overlapping
\* share, rounded down, while it straddles the window's edge.
Contribution(b, t) ==
  LET bucket_start == b.epoch * EpochDuration
      bucket_end == bucket_start + EpochDuration
      window_start == t - Window
  IN  IF b.usd = 0 \/ bucket_end <= window_start \/ b.epoch > EpochOf(t) THEN 0
      ELSE IF bucket_start >= window_start THEN b.usd
      ELSE (b.usd * (bucket_end - window_start)) \div EpochDuration


get_rolling_24h_usd(bs, lastw, t) ==
  IF t <= 0 \/ EpochOf(t) - lastw > NumEpochs THEN 0
  ELSE MapThenSumSet(LAMBDA i : Contribution(bs[i], t), Slots)

\* Faulty variant: the epoch is rounded up.
RecordRoundsUp(bs, usd, t) ==
  LET epoch == (t + EpochDuration - 1) \div EpochDuration
  IN  [bs EXCEPT ![epoch % NumEpochs] =
         [epoch |-> epoch, usd |-> (IF @.epoch = epoch THEN @.usd ELSE 0) + usd]]

\* The buckets after record_spend: a bucket left over from an earlier lap of
\* the ring is reset before the amount is added.
record_spend(bs, usd, t) ==
  [bs EXCEPT ![EpochOf(t) % NumEpochs] =
     [epoch |-> EpochOf(t),
      usd |-> (IF @.epoch = EpochOf(t) THEN @.usd ELSE 0) + usd]]

-----------------------------------------------------------------------------

Init ==
  /\ buckets = [i \in Slots |-> EmptyBucket]
  /\ last_write_epoch = 0
  /\ now = StartTime
  /\ daily_cap \in Caps
  /\ spent = [t \in Times |-> 0]
  /\ outflow = [e \in Epochs |-> 0]

\* Faulty variant: the spend is recorded without the rolling check.
SpendUnchecked(usd) ==
  /\ usd <= daily_cap
  /\ buckets' = record_spend(buckets, usd, now)
  /\ last_write_epoch' = EpochOf(now)
  /\ spent' = [spent EXCEPT ![now] = @ + usd]
  /\ outflow' = [outflow EXCEPT ![EpochOf(now)] = @ + usd]
  /\ UNCHANGED <<now, daily_cap>>

\* finalize_session and agent_transfer: the rolling check against the live cap
\* and the write, in one transaction.
Spend(usd) ==
  /\ now > 0
  /\ get_rolling_24h_usd(buckets, last_write_epoch, now) + usd <= daily_cap
  /\ buckets' = record_spend(buckets, usd, now)
  /\ last_write_epoch' = EpochOf(now)
  /\ spent' = [spent EXCEPT ![now] = @ + usd]
  /\ outflow' = [outflow EXCEPT ![EpochOf(now)] = @ + usd]
  /\ UNCHANGED <<now, daily_cap>>

\* apply_pending_policy replaces the cap.
SetCap(cap) ==
  /\ daily_cap' = cap
  /\ UNCHANGED <<buckets, last_write_epoch, now, spent, outflow>>

Tick ==
  /\ now < MaxTime
  /\ now' = now + 1
  /\ UNCHANGED <<buckets, last_write_epoch, daily_cap, spent, outflow>>

Next ==
  \/ \E usd \in Amounts : Spend(usd)
  \/ \E cap \in Caps : SetCap(cap)
  \/ Tick

Spec == Init /\ [][Next]_vars

-----------------------------------------------------------------------------

Bucket == [epoch : Nat, usd : Nat]

\* The tracker account and the history have their types, and no bucket carries
\* an epoch that has not happened yet.
TypeOK ==
  /\ buckets \in [Slots -> Bucket]
  /\ last_write_epoch \in Nat
  /\ now \in Times
  /\ \A i \in Slots : buckets[i].epoch <= EpochOf(now)
  /\ daily_cap \in Nat
  /\ spent \in [Times -> Nat]
  /\ outflow \in [Epochs -> Nat]

RECENT == {e \in Epochs : e > EpochOf(now) - NumEpochs /\ e <= EpochOf(now)}

\* record_spend keeps the ring exact: for each of the last NumEpochs epochs the
\* bucket it hashes to holds precisely what left the vault in that epoch, or
\* belongs to an older lap and nothing left in it.  A reset that is missed, or
\* two live epochs sharing a bucket, breaks it.
RingExact ==
  \A e \in RECENT :
    outflow[e] = IF buckets[e % NumEpochs].epoch = e
                   THEN buckets[e % NumEpochs].usd ELSE 0

Between(lo, hi) ==
  MapThenSumSet(LAMBDA t : spent[t], {t \in Times : lo <= t /\ t <= hi})

AlignedOutflow ==
  Between((EpochOf(now) - NumEpochs + 1) * EpochDuration, now)


\* The spend that was just accepted left the vault with no more than the live
\* cap over the current epoch and the NumEpochs - 1 epochs before it, whatever
\* caps were in force when the earlier spends were accepted.
SpendRespectsCap == spent' # spent => AlignedOutflow' <= daily_cap

=============================================================================
