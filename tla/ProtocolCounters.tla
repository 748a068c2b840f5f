-------------------------- MODULE ProtocolCounters --------------------------
(***************************************************************************)
(* The per-protocol daily cap: the protocol_counters array of SpendTracker *)
(* (state/tracker.rs) as finalize_session uses it while                    *)
(* policy.has_protocol_caps holds, and apply_pending_policy, which may     *)
(* replace the protocol allowlist and the caps at any time.                *)
(*                                                                         *)
(* Time is counted in epochs: the counters look at nothing finer.          *)
(* spent is a history variable: the metered spend per protocol and epoch.  *)
(***************************************************************************)
EXTENDS Integers, FiniteSets, FiniteSetsExt

CONSTANTS
  Protocols,     \* every program that may ever be allowlisted
  NoProtocol,    \* the all-zero key of an unused counter
  MaxProtocols,  \* MAX_ALLOWED_PROTOCOLS: allowlist entries and counters
  NumEpochs,     \* epochs in a window
  MaxEpoch,      \* the clock is not advanced beyond this epoch
  Amounts,       \* spends an agent may attempt
  Caps,          \* caps the owner may give a protocol; zero means no cap
  MaxPerEpoch    \* bound on what is spent through an uncapped protocol per epoch

ProtocolAssumption ==
  /\ NoProtocol \notin Protocols
  /\ MaxProtocols \in Nat \ {0}
  /\ NumEpochs \in Nat \ {0}
  /\ MaxEpoch \in Nat
  /\ Amounts \subseteq Nat \ {0}
  /\ Caps \subseteq Nat
  /\ MaxPerEpoch \in Nat

VARIABLES protocol_counters, epoch, protocol_caps, spent

vars == <<protocol_counters, epoch, protocol_caps, spent>>

Slots == 1 .. MaxProtocols
EpochNumbers == 0 .. MaxEpoch
UnusedCounter == [protocol |-> NoProtocol, window_start |-> 0, window_spend |-> 0]
Expired(c, e) == e - c.window_start >= NumEpochs
SlotsOf(cs, p) == {i \in Slots : cs[i].protocol = p}

\* The allowlist is the domain of the caps: protocol_caps is parallel to
\* protocols, and apply_pending_policy keeps their lengths equal.
Allowlists == UNION {[S -> Caps] : S \in {T \in SUBSET Protocols : Cardinality(T) <= MaxProtocols}}

-----------------------------------------------------------------------------

get_protocol_spend(cs, p, e) ==
  IF SlotsOf(cs, p) = {} \/ Expired(cs[Min(SlotsOf(cs, p))], e) THEN 0
  ELSE cs[Min(SlotsOf(cs, p))].window_spend

\* Faulty variant: the protocol's own counter is not looked for.
RecordAlwaysAllocates(cs, p, usd, e) ==
  LET free == SlotsOf(cs, NoProtocol)
  IN  {[cs EXCEPT ![i] = [protocol |-> p, window_start |-> e, window_spend |-> usd]] :
         i \in {j \in free : \A k \in free : j <= k}}

\* The arrays record_protocol_spend may leave: none when it rejects with
\* ProtocolCapExceeded.  A counter once given to a protocol is never freed.
record_protocol_spend(cs, p, usd, e) ==
  LET mine == SlotsOf(cs, p)
      free == SlotsOf(cs, NoProtocol)
      fresh == [protocol |-> p, window_start |-> e, window_spend |-> usd]
  IN  IF mine # {}
      THEN {[cs EXCEPT ![Min(mine)] =
               IF Expired(@, e) THEN fresh ELSE [@ EXCEPT !.window_spend = @ + usd]]}
      ELSE {[cs EXCEPT ![i] = fresh] : i \in {j \in free : \A k \in free : j <= k}}

-----------------------------------------------------------------------------

Init ==
  /\ protocol_counters = [i \in Slots |-> UnusedCounter]
  /\ epoch = NumEpochs
  /\ protocol_caps \in Allowlists
  /\ spent = [p \in Protocols |-> [e \in EpochNumbers |-> 0]]

\* A spend through an allowlisted protocol: checked only where a cap is set,
\* recorded always.
Spend(p, usd) ==
  /\ p \in DOMAIN protocol_caps
  /\ spent[p][epoch] + usd <= MaxPerEpoch
  /\ protocol_caps[p] > 0
       => get_protocol_spend(protocol_counters, p, epoch) + usd <= protocol_caps[p]
  /\ protocol_counters' \in record_protocol_spend(protocol_counters, p, usd, epoch)
  /\ spent' = [spent EXCEPT ![p][epoch] = @ + usd]
  /\ UNCHANGED <<epoch, protocol_caps>>

\* apply_pending_policy replaces protocols and protocol_caps.
SetProtocols(caps) ==
  /\ protocol_caps' = caps
  /\ UNCHANGED <<protocol_counters, epoch, spent>>

Tick ==
  /\ epoch < MaxEpoch
  /\ epoch' = epoch + 1
  /\ UNCHANGED <<protocol_counters, protocol_caps, spent>>

Next ==
  \/ \E p \in Protocols, usd \in Amounts : Spend(p, usd)
  \/ \E caps \in Allowlists : SetProtocols(caps)
  \/ Tick

Spec == Init /\ [][Next]_vars

-----------------------------------------------------------------------------

SpentSince(p, lo) ==
  MapThenSumSet(LAMBDA e : spent[p][e], {e \in EpochNumbers : lo <= e /\ e <= epoch})

\* What was spent through p since its counter's window opened.
InWindow(p) ==
  SpentSince(p, protocol_counters[Min(SlotsOf(protocol_counters, p))].window_start)

\* The counters, the clock, the allowlist and the history have their types, and
\* no window opens in the future.
TypeOK ==
  /\ protocol_counters \in
       [Slots -> [protocol : Protocols \cup {NoProtocol}, window_start : Nat, window_spend : Nat]]
  /\ \A i \in Slots : protocol_counters[i].window_start <= epoch
  /\ epoch \in EpochNumbers
  /\ protocol_caps \in Allowlists
  /\ spent \in [Protocols -> [EpochNumbers -> Nat]]

\* A protocol owns at most one counter, through any change of the allowlist,
\* and while the counter's window is live it holds exactly what was spent
\* through the protocol since the window opened.
CounterExact ==
  \A i \in Slots :
    LET c == protocol_counters[i]
    IN  c.protocol # NoProtocol =>
          /\ SlotsOf(protocol_counters, c.protocol) = {i}
          /\ ~Expired(c, epoch) => c.window_spend = SpentSince(c.protocol, c.window_start)

\* A spend accepted through a capped protocol keeps what was spent through it
\* in the counter's window within the live cap, also after the protocol left
\* the allowlist and came back with another cap.
SpendWithinCap ==
  \A p \in Protocols :
    spent'[p] # spent[p] /\ protocol_caps[p] > 0
      => InWindow(p)' <= protocol_caps[p]

\* The SDK's advice for ProtocolCapExceeded: when the counters are exhausted,
\* wait for an existing one's window to elapse.  So once every window has
\* elapsed any allowlisted protocol can be recorded.
ElapsedWindowFreesCounter ==
  (\A i \in Slots : Expired(protocol_counters[i], epoch))
    => \A p \in DOMAIN protocol_caps :
         record_protocol_spend(protocol_counters, p, 1, epoch) # {}

=============================================================================
