--------------------------- MODULE OwnershipAdmin ---------------------------
(***************************************************************************)
(* The two-step ownership transfer of a vault, closing the vault, and      *)
(* initialising it again at the same address.                              *)
(***************************************************************************)
EXTENDS VaultState

\* The key that countersigns cannot be the one that is to become the owner.
initiate_ownership_transfer(k) ==
  /\ vault.status = "Active"
  /\ pending_owner = NONE
  /\ k # vault.owner
  /\ CosignGate
  /\ policy.terms.cosign_required => policy.terms.cosign_session_pubkey # k
  /\ pending_owner' = [current_owner |-> vault.owner, new_owner |-> k, queued_at |-> now,
                       queued_at_slot |-> slot, min_delay_seconds |-> OwnershipDelay]
  /\ UNCHANGED <<vault, policy, overlay, pending_policy, pending_perms, pending_grant, clock>>

\* The new owner cannot be the cosigner as well: such a cosigner is unbound.
TermsFor(new_owner, t) ==
  IF t.cosign_session_pubkey = new_owner
    THEN [t EXCEPT !.cosign_session_pubkey = NoKey, !.cosign_required = FALSE]
    ELSE t

\* Faulty variant: an offer made by an earlier owner is still good.
AcceptStaleOffer ==
  /\ vault.status = "Active"
  /\ pending_owner # NONE
  /\ Fresh(pending_owner.queued_at_slot)
  /\ now - pending_owner.queued_at >= pending_owner.min_delay_seconds
  /\ Publish([vault EXCEPT !.owner = pending_owner.new_owner],
             [policy EXCEPT !.terms = TermsFor(pending_owner.new_owner, @)])
  /\ pending_owner' = NONE
  /\ UNCHANGED <<overlay, pending_policy, pending_perms, pending_grant, clock>>

\* The new owner signs; the cosigner is not asked again.
accept_ownership_transfer ==
  /\ vault.status = "Active"
  /\ pending_owner # NONE
  /\ pending_owner.current_owner = vault.owner
  /\ Fresh(pending_owner.queued_at_slot)
  /\ now - pending_owner.queued_at >= pending_owner.min_delay_seconds
  /\ Publish([vault EXCEPT !.owner = pending_owner.new_owner],
             [policy EXCEPT !.terms = TermsFor(pending_owner.new_owner, @)])
  /\ pending_owner' = NONE
  /\ UNCHANGED <<overlay, pending_policy, pending_perms, pending_grant, clock>>

cancel_ownership_transfer ==
  /\ vault.status = "Active"
  /\ pending_owner # NONE
  /\ pending_owner.current_owner = vault.owner
  /\ CosignGate
  /\ pending_owner' = NONE
  /\ UNCHANGED <<vault, policy, overlay, pending_policy, pending_perms, pending_grant, clock>>

-----------------------------------------------------------------------------

\* The pending policy must be drained along; the pending permissions of the
\* present agents, the grant and the transfer only if the caller passes them.
close_vault ==
  /\ vault.status # "Closed"
  /\ ~policy.has_post_assertions
  /\ CosignGate
  /\ vault' = [vault EXCEPT !.status = "Closed"]
  /\ pending_policy' = NONE
  /\ \E drained \in SUBSET Agents(vault) :
       pending_perms' = [a \in AgentKeys |-> IF a \in drained THEN NONE ELSE pending_perms[a]]
  /\ pending_grant' \in {pending_grant, NONE}
  /\ pending_owner' \in {pending_owner, NONE}
  /\ UNCHANGED <<policy, overlay, clock>>

\* The address is derived from the first owner's key, who may use it again.
initialize_vault(t, observe_only) ==
  /\ vault.status = "Closed" /\ vault.life < MaxLives
  /\ observe_only \/ HasAllowlist(t)
  /\ vault' = FreshVault(vault.life + 1, observe_only)
  /\ policy' = FreshPolicy(t, observe_only)
  /\ overlay' = [a \in AgentKeys |-> NONE]
  /\ UNCHANGED <<pendings, clock>>

-----------------------------------------------------------------------------

OwnershipStep ==
  \/ \E k \in OwnerKeys : initiate_ownership_transfer(k)
  \/ accept_ownership_transfer
  \/ cancel_ownership_transfer
  \/ close_vault
  \/ \E t \in InitialTerms, o \in BOOLEAN : initialize_vault(t, o)

=============================================================================
