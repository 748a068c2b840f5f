----------------------------- MODULE VaultAdmin -----------------------------
(***************************************************************************)
(* The administration of one vault: every instruction of the owner, of the *)
(* cosigner and of the incoming owner, interleaved in any order with the   *)
(* passing of time, and what they promise together.                        *)
(***************************************************************************)
EXTENDS AgentAdmin, PolicyAdmin, OwnershipAdmin

Next == AgentStep \/ PolicyStep \/ OwnershipStep \/ Tick

Spec == Init /\ [][Next]_vars

-----------------------------------------------------------------------------
(* Types.                                                                  *)

DigestType ==
  [terms : TermsType, has_post_assertions : BOOLEAN, observe_only : BOOLEAN,
   agent_set_hash : [AgentKeys -> (DISABLED .. OPERATOR) \cup {NONE}]]

VaultType ==
  [owner : Keys, status : {"Active", "Frozen", "Closed"}, observe_only : BOOLEAN,
   frozen_at_timestamp : Nat, agents : [AgentKeys -> AgentEntry], life : Nat]

PolicyType ==
  [terms : TermsType, destination_graylist : [Destinations -> Nat \cup {NONE}],
   has_pending_policy : BOOLEAN, has_post_assertions : BOOLEAN, policy_version : Nat,
   policy_preview_digest : DigestType]

PendingPolicyUpdate ==
  [update : UpdateType, queued_at : Nat, queued_at_slot : Nat, executes_at : Nat,
   cosign_session : Keys \cup {NoKey}, cosign_approved : BOOLEAN, approved_at_slot : Nat,
   queued_policy_version : Nat, new_policy_preview_digest : DigestType]

PermsType ==
  [capability : DISABLED .. OPERATOR, spending_limit_usd : Nat, cooldown_seconds : Nat]

PendingAgentPermissionsUpdate ==
  [perms : PermsType, queued_at : Nat, queued_at_slot : Nat, executes_at : Nat]

PendingAgentGrant ==
  [agent : AgentKeys, spending_limit_usd : Nat, queued_at : Nat, queued_at_slot : Nat,
   min_delay_seconds : Nat, cosigner : Keys \cup {NoKey, NONE}]

PendingOwnershipTransfer ==
  [current_owner : Keys, new_owner : Keys, queued_at : Nat, queued_at_slot : Nat,
   min_delay_seconds : Nat]

\* A closed account is told apart from an open one.
ASSUME NoneAssumption == NONE \notin PendingPolicyUpdate

\* Every account holds a value of its declared type, whatever the order of
\* the instructions; the policy version never leaves its integer range.
TypeOK ==
  /\ vault \in VaultType
  /\ policy \in PolicyType /\ policy.policy_version <= MaxVersion
  /\ overlay \in [AgentKeys -> Nat \cup {NONE}]
  /\ pending_policy \in PendingPolicyUpdate \cup {NONE}
  /\ pending_perms \in [AgentKeys -> PendingAgentPermissionsUpdate \cup {NONE}]
  /\ pending_grant \in PendingAgentGrant \cup {NONE}
  /\ pending_owner \in PendingOwnershipTransfer \cup {NONE}
  /\ now \in Nat /\ slot \in Nat

-----------------------------------------------------------------------------
(* Invariants.                                                             *)

\* policy_preview_digest always is the digest of the live policy, assertions
\* flag, observe-only flag and agent set: each of the sixteen instructions
\* that writes one of them recomputes it, and the one that only bumps the
\* version may leave it.
DigestInSync == policy.policy_preview_digest = compute_policy_preview_digest(vault, policy)

\* What several instructions keep up together: a vault that requires a cosigner
\* has one, and it is not the owner's own key, across updates, rotations and
\* ownership transfers; a vault that may execute has an allowlist, whichever of
\* initialize_vault, apply_pending_policy and set_observe_only came last; and
\* has_pending_policy, on which close_vault relies to drain the pending update,
\* says whether the pending account exists.
PolicyWellFormed ==
  /\ policy.terms.cosign_required => policy.terms.cosign_session_pubkey # NoKey
  /\ policy.terms.cosign_session_pubkey # vault.owner
  /\ vault.observe_only \/ HasAllowlist(policy.terms)
  /\ vault.status # "Closed" => (policy.has_pending_policy <=> pending_policy # NONE)

\* The overlay and the agent list agree: only agents hold slots, an agent with
\* a limit has the slot its spending is counted in, and whenever there is room
\* for an agent there is a free slot, so OverlaySlotExhausted never happens.
OverlayConsistent ==
  /\ SlotHolders(overlay) \subseteq Agents(vault)
  /\ \A a \in Agents(vault) : vault.agents[a].spending_limit_usd > 0 => overlay[a] # NONE
  /\ Cardinality(Agents(vault)) < MaxAgents => Cardinality(SlotHolders(overlay)) < MaxSlots

\* No queued change goes stale before it matures: when its delay has just
\* passed, fewer than MaxApplyAge slots have, even at the fastest slot rate.
MaturesFresh ==
  /\ pending_policy # NONE /\ now <= pending_policy.executes_at =>
       Fresh(pending_policy.queued_at_slot)
  /\ \A a \in AgentKeys :
       pending_perms[a] # NONE /\ now <= pending_perms[a].executes_at =>
         Fresh(pending_perms[a].queued_at_slot)
  /\ pending_grant # NONE
     /\ now <= pending_grant.queued_at + pending_grant.min_delay_seconds =>
       Fresh(pending_grant.queued_at_slot)
  /\ pending_owner # NONE
     /\ now <= pending_owner.queued_at + pending_owner.min_delay_seconds =>
       Fresh(pending_owner.queued_at_slot)

-----------------------------------------------------------------------------
(* What a step may do.                                                     *)

SameLife == vault'.life = vault.life

Gains(a) ==
  \/ ~vault.agents[a].registered /\ vault'.agents[a].registered
  \/ vault'.agents[a].capability > vault.agents[a].capability
  \/ vault'.agents[a].registered
     /\ vault'.agents[a].spending_limit_usd # vault.agents[a].spending_limit_usd
  \/ vault'.agents[a].registered /\ vault.agents[a].paused /\ ~vault'.agents[a].paused

Looser(t, t2) ==
  \/ t2.daily_spending_cap_usd > t.daily_spending_cap_usd
  \/ t2.stable_balance_floor < t.stable_balance_floor
  \/ t.per_recipient_daily_cap_usd # 0
     /\ t2.per_recipient_daily_cap_usd \notin 1 .. t.per_recipient_daily_cap_usd
  \/ ~(t2.allowed_destinations \subseteq t.allowed_destinations)
  \/ ~(t2.protocols \subseteq t.protocols)
  \/ ~t2.cosign_required
  \/ t2.cosign_session_pubkey # t.cosign_session_pubkey

NothingGivenBack ==
  policy.terms.cosign_required /\ ~has_bound_cosigner /\ SameLife =>
    /\ Looser(policy.terms, policy'.terms) =>
         vault.owner # vault'.owner /\ vault'.owner = policy.terms.cosign_session_pubkey
    /\ \A a \in AgentKeys : ~Gains(a)
    /\ vault.status = "Frozen" => vault'.status = "Frozen"
    /\ vault'.status # "Closed" \/ vault.status = "Closed"
    /\ vault.observe_only => vault'.observe_only
    /\ policy.has_post_assertions => policy'.has_post_assertions

\* On a vault that requires a cosigner nothing that gives power back happens
\* unless the bound cosigner is one that signs: no looser terms, no agent with
\* more rights, no reactivation, no end of observe-only or of the assertions,
\* no closing.  Only when the cosigner becomes the owner do the cosign
\* settings go without it.
CosignRatchet == [][NothingGivenBack]_vars

EveryPowerWaited ==
  SameLife =>
    /\ policy'.terms # policy.terms =>
         \/ vault'.owner # vault.owner
         \/ /\ pending_policy # NONE
            /\ now >= pending_policy.queued_at + policy.terms.timelock_duration
    /\ \A a \in AgentKeys :
         Gains(a) /\ vault.agents[a].registered =>
           \/ vault.agents[a].paused /\ ~vault'.agents[a].paused
           \/ /\ pending_perms[a] # NONE
              /\ now >= pending_perms[a].queued_at + MinTimelock
    /\ vault'.owner # vault.owner =>
         /\ pending_owner # NONE
         /\ pending_owner.current_owner = vault.owner
         /\ pending_owner.new_owner = vault'.owner
         /\ now >= pending_owner.queued_at + OwnershipDelay
    /\ vault'.status = "Active" /\ vault'.frozen_at_timestamp > 0 =>
         now >= vault'.frozen_at_timestamp + ReactivateCooldown

\* Every power that is meant to wait has waited.  The terms change only when an
\* update has waited out the timelock in force when it is applied, although
\* that timelock is itself one of the terms; an agent's rights only when an
\* update of them has waited the least timelock (losing them, or being
\* registered, aside); the owner only when the transfer was initiated
\* OwnershipDelay ago by the owner of this moment; and a vault is active again
\* only after the whole cooldown, counted from the last freeze, be it manual or
\* by the revocation of the last agent of a vault already frozen.
TimelockHonored == [][EveryPowerWaited]_vars

NewOperatorWaited ==
  \A a \in AgentKeys :
    vault'.agents[a].capability = OPERATOR /\ vault.agents[a].capability # OPERATOR =>
      \/ policy.terms.cosign_required /\ has_bound_cosigner
      \/ /\ pending_grant # NONE /\ pending_grant.agent = a
         /\ \/ pending_grant.cosigner \in Willing
            \/ now >= pending_grant.queued_at + SingleKeyFloor
      \/ /\ pending_perms[a] # NONE
         /\ now >= pending_perms[a].queued_at + SingleKeyFloor

\* Nobody becomes an OPERATOR at once on the owner's signature alone: either a
\* countersigning key is bound now or was when the grant was queued, or what
\* makes the agent an OPERATOR was queued at least SingleKeyFloor ago.
OperatorNeverInstant == [][NewOperatorWaited]_vars

PinnedByVersion ==
  SameLife /\ policy'.policy_version = policy.policy_version =>
    /\ policy'.terms = policy.terms
    /\ policy'.has_post_assertions = policy.has_post_assertions
    /\ vault'.observe_only = vault.observe_only /\ vault'.owner = vault.owner
    /\ \A a \in AgentKeys :
         vault'.agents[a] = [vault.agents[a] EXCEPT !.consecutive_failures =
                               vault'.agents[a].consecutive_failures]

\* Whatever a session is checked against cannot change under its expected
\* policy version: terms, agents, owner, observe-only and assertions move the
\* version (freezing and the violation counter do not).
VersionPins == [][PinnedByVersion]_vars

OnlyTighterWhileFrozen ==
  vault.status = "Frozen" /\ vault'.status = "Frozen" =>
    /\ policy'.terms = policy.terms
    /\ policy'.destination_graylist = policy.destination_graylist
    /\ vault'.owner = vault.owner
    /\ vault.observe_only => vault'.observe_only
    /\ \A a \in AgentKeys : ~Gains(a)

\* A frozen vault can only be made safer until it is reactivated: no terms
\* change, no agent gains anything, observe-only is not left, nothing is
\* promoted off the graylist and the owner stays.
FrozenOnlyTightens == [][OnlyTighterWhileFrozen]_vars

Payable(p, t, d) ==
  /\ d \in p.terms.allowed_destinations
  /\ p.destination_graylist[d] # NONE => t >= p.destination_graylist[d]

NoNewlyPayable ==
  SameLife /\ ~AutoPromote /\ Friction > 0 =>
    \A d \in Destinations :
      Payable(policy', now', d) /\ ~Payable(policy, now, d) =>
        d \in policy.terms.allowed_destinations /\ policy'.terms = policy.terms

\* The update that allows a destination never makes it payable at once, even
\* when the destination had been allowed, and had waited, before: only time or
\* a promotion does (unless the vault promotes automatically).
NewDestinationWaits == [][NoNewlyPayable]_vars

-----------------------------------------------------------------------------
(* What comments and error messages of the program say, and the runs refute.*)

\* errors.rs: "Invalid agent: agent cannot be the vault owner".
OwnerIsNoAgent == vault.status # "Closed" => vault.owner \notin Agents(vault)

\* policy.rs: when the graylist is full, adds reject "until an existing entry
\* unlocks or is promoted": a full graylist has an entry that is still locked.
UnlockingFreesGraylist ==
  Cardinality({d \in Destinations : policy.destination_graylist[d] # NONE}) >= MaxGraylist
    => \E d \in Destinations : policy.destination_graylist[d] # NONE
                               /\ policy.destination_graylist[d] > now

=============================================================================
