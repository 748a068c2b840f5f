----------------------------- MODULE AgentAdmin -----------------------------
(***************************************************************************)
(* The instructions that change the agent set of a vault: register and     *)
(* revoke, the timelocked OPERATOR grant, the timelocked permissions       *)
(* update, pause and unpause, the violation counter, freeze and reactivate.*)
(* The owner signs each of them; the bound cosigner signs along where the  *)
(* code asks for it.                                                       *)
(***************************************************************************)
EXTENDS VaultState

Put(v, a, entry) == [v EXCEPT !.agents[a] = entry]

\* The checks every way of adding an agent makes.
MayJoin(a) == a \notin Agents(vault) /\ Cardinality(Agents(vault)) < MaxAgents

\* Who may add an agent on the spot: an OPERATOR only where the bound cosigner
\* signs along and no delay is configured.
InstantGrantAllowed(capability) ==
  IF capability = OPERATOR
    THEN operator_grant_is_instant_eligible /\ has_bound_cosigner
    ELSE CosignGate

\* Faulty variant: an OPERATOR is registered on the owner's signature alone.
RegisterAnyCapability(a, capability, limit) ==
  /\ vault.status = "Active"
  /\ MayJoin(a) /\ a # vault.owner
  /\ CosignGate
  /\ overlay' \in WithSlot(overlay, a, limit)
  /\ Publish(Put(vault, a, NewAgent(capability, limit)), policy)
  /\ UNCHANGED <<pendings, clock>>

register_agent(a, capability, limit) ==
  /\ vault.status = "Active"
  /\ MayJoin(a) /\ a # vault.owner
  /\ InstantGrantAllowed(capability)
  /\ overlay' \in WithSlot(overlay, a, limit)
  /\ Publish(Put(vault, a, NewAgent(capability, limit)), policy)
  /\ UNCHANGED <<pendings, clock>>

\* Faulty variant: the slot of a revoked agent stays occupied.
RevokeKeepsSlot(a) ==
  /\ vault.status # "Closed"
  /\ a \in Agents(vault)
  /\ Publish(IF Agents(vault) = {a} THEN freeze_internal(Put(vault, a, NotAnAgent))
             ELSE Put(vault, a, NotAnAgent), policy)
  /\ UNCHANGED <<overlay, pendings, clock>>

\* Revoking the last agent freezes the vault, also one already frozen.
revoke_agent(a) ==
  /\ vault.status # "Closed"
  /\ a \in Agents(vault)
  /\ overlay' = [overlay EXCEPT ![a] = NONE]
  /\ Publish(IF Agents(vault) = {a} THEN freeze_internal(Put(vault, a, NotAnAgent))
             ELSE Put(vault, a, NotAnAgent), policy)
  /\ UNCHANGED <<pendings, clock>>

-----------------------------------------------------------------------------
(* The timelocked grant of an OPERATOR: one pending PDA per vault.         *)

\* Ghost field cosigner: who countersigned the queueing, NONE if nobody did.
queue_agent_grant(a, limit) ==
  /\ vault.status = "Active"
  /\ pending_grant = NONE
  /\ MayJoin(a) /\ a # vault.owner
  /\ CosignGate
  /\ pending_grant' =
       [agent |-> a, spending_limit_usd |-> limit, queued_at |-> now, queued_at_slot |-> slot,
        min_delay_seconds |-> effective_operator_grant_delay,
        cosigner |-> IF policy.terms.cosign_required
                       THEN policy.terms.cosign_session_pubkey ELSE NONE]
  /\ UNCHANGED <<vault, policy, overlay, pending_policy, pending_perms, pending_owner, clock>>

\* The agent is not compared with the owner again, who may have changed since.
apply_agent_grant ==
  /\ pending_grant # NONE
  /\ Fresh(pending_grant.queued_at_slot)
  /\ now - pending_grant.queued_at >= pending_grant.min_delay_seconds
  /\ CosignGate
  /\ vault.status = "Active"
  /\ MayJoin(pending_grant.agent)
  /\ overlay' \in WithSlot(overlay, pending_grant.agent, pending_grant.spending_limit_usd)
  /\ Publish(Put(vault, pending_grant.agent,
                 NewAgent(OPERATOR, pending_grant.spending_limit_usd)), policy)
  /\ pending_grant' = NONE
  /\ UNCHANGED <<pending_policy, pending_perms, pending_owner, clock>>

cancel_agent_grant ==
  /\ vault.status # "Closed"
  /\ pending_grant # NONE
  /\ CosignGate
  /\ pending_grant' = NONE
  /\ UNCHANGED <<vault, policy, overlay, pending_policy, pending_perms, pending_owner, clock>>

-----------------------------------------------------------------------------
(* The timelocked permissions update: one pending PDA per agent, which     *)
(* outlives the agent's revocation.                                        *)

\* On a vault with a cosigner an update that gives more is countersigned.
PermsElevated(a, p) ==
  /\ policy.terms.cosign_required
  /\ \/ p.capability > vault.agents[a].capability
     \/ p.spending_limit_usd > vault.agents[a].spending_limit_usd
     \/ p.cooldown_seconds # 0

queue_agent_permissions_update(a, p) ==
  /\ vault.status = "Active"
  /\ policy.terms.timelock_duration > 0
  /\ pending_perms[a] = NONE
  /\ a \in Agents(vault)
  /\ PermsElevated(a, p) =>
       has_bound_cosigner /\ policy.terms.cosign_session_pubkey # vault.owner
  /\ pending_perms' = [pending_perms EXCEPT ![a] =
       [perms |-> p, queued_at |-> now, queued_at_slot |-> slot,
        executes_at |-> now + policy.terms.timelock_duration]]
  /\ UNCHANGED <<vault, policy, overlay, pending_policy, pending_grant, pending_owner, clock>>

\* A positive limit claims a slot, going back to no limit releases it, and the
\* cooldown is written to the slot the agent then has.
OverlayAfterPerms(ov, a, old_limit, p) ==
  IF p.spending_limit_usd > 0
    THEN IF ov[a] # NONE \/ Cardinality(SlotHolders(ov)) < MaxSlots
           THEN {[ov EXCEPT ![a] = p.cooldown_seconds]} ELSE {}
    ELSE {[ov EXCEPT ![a] = IF old_limit > 0 \/ @ = NONE THEN NONE ELSE p.cooldown_seconds]}

WithPerms(entry, p) ==
  [entry EXCEPT !.capability = p.capability, !.spending_limit_usd = p.spending_limit_usd]

PermsDue(a) ==
  /\ vault.status = "Active"
  /\ pending_perms[a] # NONE
  /\ now >= pending_perms[a].executes_at
  /\ Fresh(pending_perms[a].queued_at_slot)

apply_agent_permissions_update(a) ==
  /\ PermsDue(a)
  /\ CosignGate
  /\ a \in Agents(vault)
  /\ overlay' \in OverlayAfterPerms(overlay, a, vault.agents[a].spending_limit_usd,
                                    pending_perms[a].perms)
  /\ Publish(Put(vault, a, WithPerms(vault.agents[a], pending_perms[a].perms)), policy)
  /\ pending_perms' = [pending_perms EXCEPT ![a] = NONE]
  /\ UNCHANGED <<pending_policy, pending_grant, pending_owner, clock>>

cancel_agent_permissions_update(a) ==
  /\ vault.status # "Closed"
  /\ pending_perms[a] # NONE
  /\ CosignGate
  /\ pending_perms' = [pending_perms EXCEPT ![a] = NONE]
  /\ UNCHANGED <<vault, policy, overlay, pending_policy, pending_grant, pending_owner, clock>>

-----------------------------------------------------------------------------

\* Pausing bumps the version and leaves the digest alone: it hashes no flag of
\* this kind.
BumpVersion(v) ==
  /\ policy.policy_version < MaxVersion
  /\ vault' = v
  /\ policy' = [policy EXCEPT !.policy_version = @ + 1]

pause_agent(a) ==
  /\ vault.status # "Closed"
  /\ a \in Agents(vault) /\ ~vault.agents[a].paused
  /\ BumpVersion(Put(vault, a, [vault.agents[a] EXCEPT !.paused = TRUE]))
  /\ UNCHANGED <<overlay, pendings, clock>>

\* Faulty variant: a frozen vault lets its agents be unpaused.
UnpauseFrozen(a) ==
  /\ vault.status # "Closed"
  /\ CosignGate
  /\ a \in Agents(vault) /\ vault.agents[a].paused
  /\ BumpVersion(Put(vault, a, [vault.agents[a] EXCEPT !.paused = FALSE]))
  /\ UNCHANGED <<overlay, pendings, clock>>

unpause_agent(a) ==
  /\ vault.status = "Active"
  /\ CosignGate
  /\ a \in Agents(vault) /\ vault.agents[a].paused
  /\ BumpVersion(Put(vault, a, [vault.agents[a] EXCEPT !.paused = FALSE]))
  /\ UNCHANGED <<overlay, pendings, clock>>

\* Faulty variant: the trip leaves version and digest as they were.
ViolationUnpublished(a) ==
  /\ vault.status # "Closed"
  /\ a \in Agents(vault) /\ vault.agents[a].capability # DISABLED
  /\ LET failures == vault.agents[a].consecutive_failures + 1 IN
       vault' = Put(vault, a, [vault.agents[a] EXCEPT
                                 !.consecutive_failures = failures,
                                 !.capability = IF failures >= Threshold THEN DISABLED ELSE @])
  /\ UNCHANGED <<policy, overlay, pendings, clock>>

\* A violation is counted; the threshold-th in a row disables the agent.
record_agent_violation(a) ==
  /\ vault.status # "Closed"
  /\ a \in Agents(vault) /\ vault.agents[a].capability # DISABLED
  /\ LET failures == vault.agents[a].consecutive_failures + 1
         counted == [vault.agents[a] EXCEPT !.consecutive_failures = failures]
     IN IF failures >= Threshold
          THEN Publish(Put(vault, a, [counted EXCEPT !.capability = DISABLED]), policy)
          ELSE vault' = Put(vault, a, counted) /\ UNCHANGED policy
  /\ UNCHANGED <<overlay, pendings, clock>>

\* A session that validate_and_authorize admits ends the row of violations.
validate_and_authorize(a) ==
  /\ vault.status = "Active" /\ ~vault.observe_only
  /\ a \in Agents(vault)
  /\ ~vault.agents[a].paused /\ vault.agents[a].capability >= OBSERVER
  /\ vault' = Put(vault, a, [vault.agents[a] EXCEPT !.consecutive_failures = 0])
  /\ UNCHANGED <<policy, overlay, pendings, clock>>

-----------------------------------------------------------------------------

\* The owner may pass the pending ownership transfer along to be closed.
freeze_vault ==
  /\ vault.status = "Active"
  /\ vault' = freeze_internal(vault)
  /\ pending_owner' \in {pending_owner, NONE}
  /\ UNCHANGED <<policy, overlay, pending_policy, pending_perms, pending_grant, clock>>

\* Faulty variant: the vault comes back before the cooldown is over.
ReactivateAtOnce(a, capability) ==
  /\ vault.status = "Frozen"
  /\ CosignGate
  /\ vault.frozen_at_timestamp > 0
  /\ a # NONE => MayJoin(a) /\ a # vault.owner /\ InstantGrantAllowed(capability)
  /\ a = NONE => Agents(vault) # {}
  /\ HasAllowlist(policy.terms)
  /\ LET v == [vault EXCEPT !.status = "Active"] IN
       Publish(IF a = NONE THEN v ELSE Put(v, a, NewAgent(capability, 0)), policy)
  /\ UNCHANGED <<overlay, pendings, clock>>

\* Reactivation may add one agent (a # NONE), without a limit and without a slot.
reactivate_vault(a, capability) ==
  /\ vault.status = "Frozen"
  /\ CosignGate
  /\ vault.frozen_at_timestamp > 0
  /\ now - vault.frozen_at_timestamp >= ReactivateCooldown
  /\ a # NONE => MayJoin(a) /\ a # vault.owner /\ InstantGrantAllowed(capability)
  /\ a = NONE => Agents(vault) # {}
  /\ HasAllowlist(policy.terms)
  /\ LET v == [vault EXCEPT !.status = "Active"] IN
       Publish(IF a = NONE THEN v ELSE Put(v, a, NewAgent(capability, 0)), policy)
  /\ UNCHANGED <<overlay, pendings, clock>>

-----------------------------------------------------------------------------

AgentStep ==
  \/ \E a \in AgentKeys :
       \/ \E c \in Capabilities, l \in Limits : register_agent(a, c, l)
       \/ revoke_agent(a)
       \/ \E l \in Limits : queue_agent_grant(a, l)
       \/ \E p \in Perms : queue_agent_permissions_update(a, p)
       \/ apply_agent_permissions_update(a)
       \/ cancel_agent_permissions_update(a)
       \/ pause_agent(a)
       \/ unpause_agent(a)
       \/ record_agent_violation(a)
       \/ validate_and_authorize(a)
       \/ \E c \in Capabilities : reactivate_vault(a, c)
  \/ reactivate_vault(NONE, DISABLED)
  \/ apply_agent_grant
  \/ cancel_agent_grant
  \/ freeze_vault

=============================================================================
