------------------------- MODULE RecipientCounters --------------------------
(***************************************************************************)
(* The per-recipient daily cap: the per_recipient table of SpendTracker    *)
(* (state/tracker.rs) and its two callers, finalize_session and            *)
(* agent_transfer, which check the cap and record the payment in one       *)
(* transaction whenever policy.per_recipient_daily_cap_usd > 0.            *)
(*                                                                         *)
(* The table is the active prefix per_recipient[0 .. per_recipient_count]  *)
(* as a sequence.  An entry is a tumbling window: it opens with a payment  *)
(* and its sum is forgotten as a whole Window seconds later.               *)
(* paid is a history variable: the metered payments per recipient and      *)
(* second.                                                                 *)
(***************************************************************************)
EXTENDS Integers, Sequences, FiniteSets, FiniteSetsExt

CONSTANTS
  Recipients,  \* wallets the vault may pay
  MaxEntries,  \* MAX_PER_RECIPIENT_ENTRIES
  Window,      \* ROLLING_WINDOW_SECONDS
  StartTime,   \* the clock when the vault is initialised
  MaxTime,     \* the clock is not advanced beyond this
  Amounts,     \* payments an agent may attempt
  Caps         \* per-recipient caps the owner may set; zero switches it off

RecipientAssumption ==
  /\ MaxEntries \in Nat \ {0}
  /\ Window \in Nat \ {0}
  /\ StartTime \in Nat \ {0}
  /\ MaxTime \in Nat
  /\ StartTime <= MaxTime
  /\ Amounts \subseteq Nat \ {0}
  /\ Caps \subseteq Nat

VARIABLES per_recipient, now, cap, paid

vars == <<per_recipient, now, cap, paid>>

Times == 0 .. MaxTime
Slots(tbl) == 1 .. Len(tbl)

-----------------------------------------------------------------------------

is_expired(e, t) == t - e.window_start >= Window

\* What reset() writes: a fresh window opened by this payment.
Fresh(r, usd, t) == [recipient |-> r, window_start |-> t, window_spend_usd |-> usd]

get_recipient_spend(tbl, r, t) ==
  LET mine == {i \in Slots(tbl) : tbl[i].recipient = r}
  IN  IF mine = {} \/ is_expired(tbl[Min(mine)], t) THEN 0
      ELSE tbl[Min(mine)].window_spend_usd

\* Faulty variant: no entry is ever evicted.
EvictNever(tbl, t) == {}

\* The entry a full table gives up: among those whose window has elapsed the
\* one opened first, the lowest index on a tie; none when all are live.
Evictable(tbl, t) ==
  LET old == {i \in Slots(tbl) : is_expired(tbl[i], t)}
  IN  {i \in old : \A j \in old :
         tbl[i].window_start < tbl[j].window_start
           \/ (tbl[i].window_start = tbl[j].window_start /\ i <= j)}

\* The tables record_recipient_spend may leave: none when it rejects.
record_recipient_spend(tbl, r, usd, t) ==
  LET mine == {i \in Slots(tbl) : tbl[i].recipient = r}
  IN  IF mine # {}
      THEN {[tbl EXCEPT ![Min(mine)] =
               IF is_expired(@, t) THEN Fresh(r, usd, t)
               ELSE [@ EXCEPT !.window_spend_usd = @ + usd]]}
      ELSE IF Len(tbl) < MaxEntries THEN {Append(tbl, Fresh(r, usd, t))}
      ELSE {[tbl EXCEPT ![i] = Fresh(r, usd, t)] : i \in Evictable(tbl, t)}

-----------------------------------------------------------------------------

Init ==
  /\ per_recipient = <<>>
  /\ now = StartTime
  /\ cap \in Caps
  /\ paid = [r \in Recipients |-> [t \in Times |-> 0]]

\* Faulty variant: only the payment itself is compared with the cap.
PayUncounted(r, usd) ==
  /\ cap > 0
  /\ usd <= cap
  /\ per_recipient' \in record_recipient_spend(per_recipient, r, usd, now)
  /\ paid' = [paid EXCEPT ![r][now] = @ + usd]
  /\ UNCHANGED <<now, cap>>

\* A payment while the per-recipient cap is on.
Pay(r, usd) ==
  /\ cap > 0
  /\ get_recipient_spend(per_recipient, r, now) + usd <= cap
  /\ per_recipient' \in record_recipient_spend(per_recipient, r, usd, now)
  /\ paid' = [paid EXCEPT ![r][now] = @ + usd]
  /\ UNCHANGED <<now, cap>>

\* apply_pending_policy replaces the cap; the table is left alone.
SetCap(c) ==
  /\ cap' = c
  /\ UNCHANGED <<per_recipient, now, paid>>

Tick ==
  /\ now < MaxTime
  /\ now' = now + 1
  /\ UNCHANGED <<per_recipient, cap, paid>>

Next ==
  \/ \E r \in Recipients, usd \in Amounts : Pay(r, usd)
  \/ \E c \in Caps : SetCap(c)
  \/ Tick

Spec == Init /\ [][Next]_vars

-----------------------------------------------------------------------------

Entry == [recipient : Recipients, window_start : Times, window_spend_usd : Nat]

\* The table never outgrows its fixed array and holds well-formed entries.
TypeOK ==
  /\ per_recipient \in Seq(Entry)
  /\ Len(per_recipient) <= MaxEntries
  /\ now \in Times
  /\ cap \in Caps
  /\ paid \in [Recipients -> [Times -> Nat]]

PaidBetween(r, lo, hi) ==
  MapThenSumSet(LAMBDA t : paid[r][t], {t \in Times : lo <= t /\ t <= hi})

\* No recipient holds two entries, and an entry whose window is live holds
\* exactly what its recipient was paid since the window opened.  A recipient
\* evicted and admitted again must not inherit or lose a live sum.
WindowExact ==
  \A i \in Slots(per_recipient) :
    LET e == per_recipient[i]
    IN  /\ \A j \in Slots(per_recipient) : per_recipient[j].recipient = e.recipient => i = j
        /\ ~is_expired(e, now)
             => e.window_spend_usd = PaidBetween(e.recipient, e.window_start, now)

\* The no-churn guarantee of record_recipient_spend: an entry whose window has
\* not elapsed is never handed to another recipient and never restarted.
NoChurn ==
  \A i \in Slots(per_recipient) :
    ~is_expired(per_recipient[i], now')
      => /\ i \in Slots(per_recipient')
         /\ per_recipient'[i].recipient = per_recipient[i].recipient
         /\ per_recipient'[i].window_start = per_recipient[i].window_start
         /\ per_recipient'[i].window_spend_usd >= per_recipient[i].window_spend_usd

\* Tumbling windows of one recipient never overlap, through eviction and
\* re-admission, so any Window seconds see at most two caps' worth of payments
\* to one recipient.
AtMostTwoCaps ==
  \A r \in Recipients : PaidBetween(r, now - Window + 1, now) <= 2 * Max(Caps)

\* Age-based eviction cannot lock the vault out: once nobody has been paid for
\* a full window, every recipient can be recorded again, a full table included.
AgeFreesTheTable ==
  (\A r \in Recipients : PaidBetween(r, now - Window + 1, now) = 0)
    => \A r \in Recipients :
         /\ record_recipient_spend(per_recipient, r, 1, now) # {}
         /\ get_recipient_spend(per_recipient, r, now) = 0

=============================================================================
