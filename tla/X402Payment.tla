---------------------------- MODULE X402Payment ----------------------------
(***************************************************************************)
(* The checks an x402 payment goes through, without the state: the header  *)
(* codec, the option selector, the amount guard and the policy bridge of   *)
(* sdk/kit/src/x402.  An offer is what the server put into its             *)
(* PAYMENT-REQUIRED header: a sequence of payment options.                 *)
(***************************************************************************)
EXTENDS Shield, Integers

CONSTANTS
  Config,           \* X402Config, defaults filled in
  Unlimited,        \* a limit that was not configured
  Malformed,        \* a header that is not base64 JSON of the right shape
  U64Max,
  MaxRecent,        \* MAX_RECENT = 20 payments remembered
  MinRecent,        \* spikes are looked for from 3 remembered payments on
  SpikeMultiplier   \* 10

Exceeds(amount, limit) == limit # Unlimited /\ amount > limit

\* codec.ts: a header decodes when it has at least one option and every
\* amount is an integer of 64 bits.
decodePaymentRequiredHeader(offer) ==
  /\ offer # Malformed
  /\ offer # <<>>
  /\ \A o \in ToSet(offer) : o.amount \in 0 .. U64Max

\* payment-selector.ts: the options on Solana in an allowed token, and among
\* them the first one to an allowed destination.
Compatible(offer) ==
  SelectSeq(offer, LAMBDA o : /\ o.network = "solana"
                              /\ Config.allowedTokens = NoList \/ o.asset \in Config.allowedTokens)

Payable(offer) ==
  SelectSeq(Compatible(offer),
            LAMBDA o : \/ Config.allowedDestinations = NoList
                       \/ o.payTo \in Config.allowedDestinations)

selectPaymentOption(offer) == Head(Payable(offer))

-----------------------------------------------------------------------------
\* amount-guard.ts

\* The mean of the two middle values, rounded down, when there is an even
\* number of payments.
getMedian(recent) ==
  LET sorted == SortSeq(recent, <)
      mid == Len(recent) \div 2
  IN  IF Len(recent) % 2 = 0 THEN (sorted[mid] + sorted[mid + 1]) \div 2 ELSE sorted[mid + 1]

IsSpike(amount, recent) ==
  /\ Len(recent) >= MinRecent
  /\ getMedian(recent) > 0
  /\ amount > getMedian(recent) * SpikeMultiplier

validatePaymentAmount(amount, recent) ==
  /\ amount > 0
  /\ ~Exceeds(amount, Config.maxPaymentPerRequest)
  /\ ~IsSpike(amount, recent)

recordPaymentAmount(recent, amount) ==
  LET all == Append(recent, amount)
  IN  IF Len(all) > MaxRecent THEN Tail(all) ELSE all

-----------------------------------------------------------------------------
\* policy-bridge.ts

\* The synthetic transfer the shield is asked about carries no data, so the
\* inspector sees its program and no amount.
SyntheticIx(signer, o) ==
  <<[program |-> Token, op |-> "no_data", complete |-> FALSE, mint |-> o.asset,
     amount |-> 0, authority |-> signer]>>

\* Faulty variant: the payment itself is not added to what was spent.
EvaluateSpentOnly(o, signer, pol, st, now) ==
  /\ ~Exceeds(getTotalSpendInWindow(st, Config.cumulativeWindow, now), Config.maxCumulativeSpend)
  /\ ~Exceeds(o.amount, Config.maxPaymentPerRequest)
  /\ check(SyntheticIx(signer, o), signer, pol, FALSE, st, now) = {}

\* No violation: the window's spend with this payment, the payment alone, and
\* the shield's own rules.
evaluateX402Payment(o, signer, pol, st, now) ==
  /\ ~Exceeds(getTotalSpendInWindow(st, Config.cumulativeWindow, now) + o.amount,
              Config.maxCumulativeSpend)
  /\ ~Exceeds(o.amount, Config.maxPaymentPerRequest)
  /\ check(SyntheticIx(signer, o), signer, pol, FALSE, st, now) = {}

recordX402Spend(st, asset, amount, now) ==
  recordTransaction(recordSpend(st, asset, amount, now), now)
=============================================================================
