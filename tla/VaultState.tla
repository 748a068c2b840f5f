----------------------------- MODULE VaultState -----------------------------
(***************************************************************************)
(* The accounts of one vault that the owner's administration instructions  *)
(* read and write, and the helpers those instructions share.               *)
(*                                                                         *)
(*   vault           AgentVault        (state/vault.rs)                    *)
(*   policy          PolicyConfig      (state/policy.rs)                   *)
(*   overlay         for each agent the cooldown stored in its slot of     *)
(*                   AgentSpendOverlay, or NONE while it holds no slot     *)
(*   pending_policy  PendingPolicyUpdate, or NONE while the PDA is closed  *)
(*   pending_perms   one PendingAgentPermissionsUpdate or NONE per agent   *)
(*   pending_grant   PendingAgentGrant or NONE                             *)
(*   pending_owner   PendingOwnershipTransfer or NONE                      *)
(*   now, slot       the Clock sysvar                                      *)
(*                                                                         *)
(* One instruction is one action: a Solana transaction is atomic.  Scalar  *)
(* policy fields that the code treats alike are represented by one of them *)
(* each: daily_spending_cap_usd for those where more is weaker,            *)
(* stable_balance_floor for the one where less is weaker, and              *)
(* per_recipient_daily_cap_usd for those where zero means unlimited.       *)
(* A digest is the record of what it hashes: SHA-256 is taken as injective.*)
(***************************************************************************)
EXTENDS Integers, FiniteSets

CONSTANTS
  Keys, NoKey,          \* principals, and Pubkey::default()
  NONE,                 \* an absent option or a closed PDA
  InitialOwner,         \* who initialised the vault
  AgentKeys,            \* keys that may be proposed as agents
  OwnerKeys,            \* keys ownership may be offered to
  Willing,              \* keys that countersign when the owner asks them to
  Limits,               \* per-agent spending limits; zero means none
  MaxAgents,            \* MAX_AGENTS_PER_VAULT
  MaxSlots,             \* MAX_OVERLAY_ENTRIES
  Threshold,            \* policy.auto_revoke_threshold
  AutoPromote,          \* policy.auto_promote_grays
  Destinations,         \* wallets that may be put on the allowlist
  Protocols,            \* programs that may be put on the allowlist
  MaxGraylist,          \* MAX_ALLOWED_DESTINATIONS
  InitialTerms,         \* the terms a vault may be initialised with
  Updates,              \* the policy updates the owner may queue
  Capabilities,         \* the capabilities the owner may hand out
  Perms,                \* the [capability, limit, cooldown] the owner may queue
  MinTimelock,          \* MIN_TIMELOCK_DURATION
  MaxTimelock,          \* MAX_TIMELOCK_DURATION
  SingleKeyFloor,       \* SINGLE_KEY_OPERATOR_DELAY_FLOOR
  OwnershipDelay,       \* PendingOwnershipTransfer::DEFAULT_MIN_DELAY
  ReactivateCooldown,   \* REACTIVATE_COOLDOWN_SECONDS
  Friction,             \* GRAYLIST_FRICTION_SECONDS
  MaxApplyAge,          \* MAX_APPLY_AGE_SLOTS_TIMELOCKED_ADMIN
  MaxGrantDelay,        \* MAX_OPERATOR_GRANT_DELAY
  MaxSlotRate,          \* slots per unit of time at the 400 ms slot floor
  SlotRates,            \* slots that may pass in one unit of time
  MaxVersion,           \* policy_version is a u64: checked_add fails here
  MaxLives,             \* how often the vault is initialised at its address
  MaxTime               \* the clock is not advanced beyond this

DISABLED == 0
OBSERVER == 1
OPERATOR == 2

TermsType ==
  [daily_spending_cap_usd : Nat, stable_balance_floor : Nat,
   per_recipient_daily_cap_usd : Nat,
   allowed_destinations : SUBSET Destinations, protocols : SUBSET Protocols,
   timelock_duration : Nat, operator_grant_delay_seconds : Nat,
   cosign_required : BOOLEAN, cosign_session_pubkey : Keys \cup {NoKey}]

\* The arguments of queue_policy_update: every field optional.
UpdateType ==
  [daily_spending_cap_usd : Nat \cup {NONE}, stable_balance_floor : Nat \cup {NONE},
   per_recipient_daily_cap_usd : Nat \cup {NONE},
   allowed_destinations : {NONE} \cup SUBSET Destinations,
   protocols : {NONE} \cup SUBSET Protocols,
   timelock_duration : Nat \cup {NONE}, operator_grant_delay_seconds : Nat \cup {NONE},
   cosign_required : BOOLEAN \cup {NONE},
   cosign_session_pubkey : Keys \cup {NoKey, NONE}]

\* NONE is no value of the fields it stands in for.  A timelock is never below
\* the floor a single key must wait for an OPERATOR, and a queued change
\* matures before it goes stale: the two compile-time assertions of the code.
ASSUME VaultAssumption ==
  /\ NoKey \notin Keys
  /\ NONE \notin Nat \cup BOOLEAN \cup Keys \cup {NoKey}
  /\ \A S \in (SUBSET Destinations) \cup (SUBSET Protocols) : S # NONE
  /\ InitialOwner \in Keys
  /\ AgentKeys \subseteq Keys /\ IsFiniteSet(AgentKeys)
  /\ OwnerKeys \subseteq Keys
  /\ Willing \subseteq Keys
  /\ Limits \subseteq Nat
  /\ MaxAgents \in Nat /\ MaxSlots \in Nat /\ MaxAgents <= MaxSlots
  /\ Threshold \in Nat \ {0}
  /\ AutoPromote \in BOOLEAN
  /\ MaxGraylist \in Nat
  /\ Capabilities \subseteq DISABLED .. OPERATOR
  /\ Perms \subseteq [capability : DISABLED .. OPERATOR, spending_limit_usd : Nat,
                     cooldown_seconds : Nat]
  /\ MinTimelock \in Nat /\ MaxTimelock \in Nat
  /\ SingleKeyFloor \in Nat /\ SingleKeyFloor <= MinTimelock /\ SingleKeyFloor <= MaxGrantDelay
  /\ OwnershipDelay \in Nat /\ ReactivateCooldown \in Nat /\ Friction \in Nat
  /\ MaxApplyAge \in Nat
  /\ MaxGrantDelay \in Nat /\ MaxSlotRate \in Nat
  /\ SlotRates \subseteq 0 .. MaxSlotRate
  /\ MaxSlotRate * MaxTimelock < MaxApplyAge
  /\ MaxSlotRate * MaxGrantDelay < MaxApplyAge
  /\ MaxSlotRate * OwnershipDelay < MaxApplyAge
  /\ MaxVersion \in Nat /\ MaxLives \in Nat /\ MaxTime \in Nat

\* initialize_vault accepts these terms and no others; queue_policy_update
\* bounds the timelock the same way.
ASSUME TermsAssumption ==
  /\ InitialTerms \subseteq TermsType
  /\ \A t \in InitialTerms :
       /\ t.timelock_duration \in MinTimelock .. MaxTimelock
       /\ ~t.cosign_required /\ t.cosign_session_pubkey = NoKey
       /\ t.operator_grant_delay_seconds = 0
  /\ Updates \subseteq UpdateType

VARIABLES vault, policy, overlay, pending_policy, pending_perms, pending_grant,
          pending_owner, now, slot

clock == <<now, slot>>
pendings == <<pending_policy, pending_perms, pending_grant, pending_owner>>
vars == <<vault, policy, overlay, pending_policy, pending_perms, pending_grant,
          pending_owner, now, slot>>

-----------------------------------------------------------------------------

AgentEntry ==
  [registered : BOOLEAN, capability : DISABLED .. OPERATOR, spending_limit_usd : Nat,
   paused : BOOLEAN, consecutive_failures : Nat]

NotAnAgent ==
  [registered |-> FALSE, capability |-> DISABLED, spending_limit_usd |-> 0,
   paused |-> FALSE, consecutive_failures |-> 0]

NewAgent(capability, limit) ==
  [registered |-> TRUE, capability |-> capability, spending_limit_usd |-> limit,
   paused |-> FALSE, consecutive_failures |-> 0]

Agents(v) == {a \in AgentKeys : v.agents[a].registered}

\* The sorted (pubkey, capability) pairs that are hashed.
compute_agent_set_hash(v) ==
  [a \in AgentKeys |-> IF v.agents[a].registered THEN v.agents[a].capability ELSE NONE]

compute_policy_preview_digest(v, p) ==
  [terms |-> p.terms, has_post_assertions |-> p.has_post_assertions,
   observe_only |-> v.observe_only, agent_set_hash |-> compute_agent_set_hash(v)]

\* The bound cosigner signs along; an unbound one never does.
has_bound_cosigner == policy.terms.cosign_session_pubkey \in Willing

\* The check on every instruction that gives power back: on a vault that
\* requires a cosigner the bound one must sign along.
CosignGate == policy.terms.cosign_required => has_bound_cosigner

\* classify_operator_grant_tier: an owner is always a single key here, because
\* no instruction ever stores OWNER_TYPE_MULTISIG.
CosignBound ==
  policy.terms.cosign_required /\ policy.terms.cosign_session_pubkey # NoKey

effective_operator_grant_delay ==
  IF CosignBound \/ policy.terms.operator_grant_delay_seconds >= SingleKeyFloor
    THEN policy.terms.operator_grant_delay_seconds ELSE SingleKeyFloor

operator_grant_is_instant_eligible ==
  CosignBound /\ effective_operator_grant_delay = 0

freeze_internal(v) == [v EXCEPT !.status = "Frozen", !.frozen_at_timestamp = now]

\* The tail of every instruction that changes the policy or the agent set:
\* recompute the digest over the new state and bump the version.
Publish(v, p) ==
  /\ p.policy_version < MaxVersion
  /\ vault' = v
  /\ policy' = [p EXCEPT !.policy_version = @ + 1,
                         !.policy_preview_digest = compute_policy_preview_digest(v, p)]

\* Faulty variant: a window sized for the shortest timelock.
FreshNarrow(since_slot) == slot - since_slot < MaxSlotRate * MinTimelock

\* Too old to apply: the slots since it was queued (or approved).
Fresh(since_slot) == slot - since_slot < MaxApplyAge

SlotHolders(ov) == {a \in AgentKeys : ov[a] # NONE}

\* The overlay after agent a is added: a slot without cooldown is claimed while
\* one is free; when none is, only an agent without a limit may be added.
WithSlot(ov, a, limit) ==
  IF ov[a] # NONE THEN {ov}
  ELSE IF Cardinality(SlotHolders(ov)) < MaxSlots THEN {[ov EXCEPT ![a] = 0]}
  ELSE IF limit = 0 THEN {ov} ELSE {}

-----------------------------------------------------------------------------

\* The accounts initialize_vault creates: no agents, no cosigner, an allowlist
\* unless the vault is observe-only, and the digest of exactly that.
FreshVault(life, observe_only) ==
  [owner |-> InitialOwner, status |-> "Active", observe_only |-> observe_only,
   frozen_at_timestamp |-> 0, agents |-> [a \in AgentKeys |-> NotAnAgent], life |-> life]

FreshPolicy(t, observe_only) ==
  [terms |-> t, destination_graylist |-> [d \in Destinations |-> NONE],
   has_pending_policy |-> FALSE, has_post_assertions |-> FALSE, policy_version |-> 0,
   policy_preview_digest |->
     [terms |-> t, has_post_assertions |-> FALSE, observe_only |-> observe_only,
      agent_set_hash |-> [a \in AgentKeys |-> NONE]]]

HasAllowlist(t) == t.protocols # {} \/ t.allowed_destinations # {}

Init ==
  /\ \E t \in InitialTerms, o \in BOOLEAN :
       /\ o \/ HasAllowlist(t)
       /\ vault = FreshVault(1, o)
       /\ policy = FreshPolicy(t, o)
  /\ overlay = [a \in AgentKeys |-> NONE]
  /\ pending_policy = NONE
  /\ pending_perms = [a \in AgentKeys |-> NONE]
  /\ pending_grant = NONE
  /\ pending_owner = NONE
  /\ now = 1
  /\ slot = 0

\* Time passes, and with it some number of slots.
Tick ==
  /\ now < MaxTime
  /\ now' = now + 1
  /\ \E r \in SlotRates : slot' = slot + r
  /\ UNCHANGED <<vault, policy, overlay, pendings>>

=============================================================================
