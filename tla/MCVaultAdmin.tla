---------------------------- MODULE MCVaultAdmin ----------------------------
(***************************************************************************)
(* Small instances of VaultAdmin.  o owns the vault; c countersigns, d does*)
(* not; a and b are agents.  Each configuration opens one part of the      *)
(* administration wide and keeps the others narrow.                        *)
(***************************************************************************)
EXTENDS VaultAdmin, TLC

CONSTANTS o, c, d, a, b, w1, w2, p1

MCKeys == {o, c, d, a, b}
MCDestinations == {w1, w2}
OneDestination == {w1}
MCProtocols == {p1}

\* As a vault may be initialised: with an allowlist of wallets, of programs,
\* or, when it is to be observe-only, with neither.
BaseTerms ==
  [daily_spending_cap_usd |-> 1, stable_balance_floor |-> 1,
   per_recipient_daily_cap_usd |-> 1, allowed_destinations |-> {w1},
   protocols |-> {}, timelock_duration |-> 1, operator_grant_delay_seconds |-> 0,
   cosign_required |-> FALSE, cosign_session_pubkey |-> NoKey]

OneTerms == {BaseTerms}
TwoTerms == {BaseTerms, [BaseTerms EXCEPT !.allowed_destinations = {}, !.timelock_duration = 2]}

NoChange ==
  [daily_spending_cap_usd |-> NONE, stable_balance_floor |-> NONE,
   per_recipient_daily_cap_usd |-> NONE, allowed_destinations |-> NONE,
   protocols |-> NONE, timelock_duration |-> NONE, operator_grant_delay_seconds |-> NONE,
   cosign_required |-> NONE, cosign_session_pubkey |-> NONE]

BindCosigner(k) ==
  [NoChange EXCEPT !.cosign_required = TRUE, !.cosign_session_pubkey = k]

CosignUpdates ==
  {BindCosigner(c), BindCosigner(d),
   [NoChange EXCEPT !.cosign_required = TRUE],
   [NoChange EXCEPT !.cosign_required = FALSE],
   [NoChange EXCEPT !.cosign_session_pubkey = NoKey],
   [NoChange EXCEPT !.cosign_session_pubkey = d]}

TermUpdates ==
  {[NoChange EXCEPT !.daily_spending_cap_usd = 2, !.timelock_duration = 2],
   [NoChange EXCEPT !.stable_balance_floor = 0],
   [NoChange EXCEPT !.per_recipient_daily_cap_usd = 0],
   [NoChange EXCEPT !.protocols = {p1}]}

DestinationUpdates ==
  {[NoChange EXCEPT !.allowed_destinations = {w1, w2}],
   [NoChange EXCEPT !.allowed_destinations = {w1}],
   [NoChange EXCEPT !.allowed_destinations = {}, !.protocols = {p1}],
   [NoChange EXCEPT !.allowed_destinations = {}],
   [NoChange EXCEPT !.timelock_duration = 3]}

PolicyUpdates == CosignUpdates \cup TermUpdates \cup DestinationUpdates
NoUpdates == {}
BindOnly == {BindCosigner(c), [BindCosigner(d) EXCEPT !.operator_grant_delay_seconds = 1]}
HandoverUpdates == BindOnly \cup {[NoChange EXCEPT !.timelock_duration = 2]}

\* The two agents are interchangeable.
AgentSymmetry == Permutations({a, b})

NoPerms == {}

SomePerms ==
  {[capability |-> OPERATOR, spending_limit_usd |-> 0, cooldown_seconds |-> 0],
   [capability |-> OBSERVER, spending_limit_usd |-> 1, cooldown_seconds |-> 1]}

=============================================================================
