---------------------------- MODULE PolicyAdmin ----------------------------
(***************************************************************************)
(* The instructions that change the policy of a vault: the timelocked      *)
(* update (queue, approve, apply, cancel), the promotion of a graylisted   *)
(* destination, the observe-only switch and the post-execution assertions. *)
(***************************************************************************)
EXTENDS VaultState

Or(option, value) == IF option = NONE THEN value ELSE option

\* The terms t after update u: unwrap_or on every field.
Merge(t, u) ==
  [daily_spending_cap_usd |-> Or(u.daily_spending_cap_usd, t.daily_spending_cap_usd),
   stable_balance_floor |-> Or(u.stable_balance_floor, t.stable_balance_floor),
   per_recipient_daily_cap_usd |->
     Or(u.per_recipient_daily_cap_usd, t.per_recipient_daily_cap_usd),
   allowed_destinations |-> Or(u.allowed_destinations, t.allowed_destinations),
   protocols |-> Or(u.protocols, t.protocols),
   timelock_duration |-> Or(u.timelock_duration, t.timelock_duration),
   operator_grant_delay_seconds |->
     Or(u.operator_grant_delay_seconds, t.operator_grant_delay_seconds),
   cosign_required |-> Or(u.cosign_required, t.cosign_required),
   cosign_session_pubkey |-> Or(u.cosign_session_pubkey, t.cosign_session_pubkey)]

\* Zero is "no cap": going there, or up from a cap, weakens.
weakens_per_recipient_cap(new, live) == live # 0 /\ (new = 0 \/ new > live)

\* Faulty variant: only a higher number counts as weaker, so lifting a cap to
\* "unlimited" does not.
WeakensIgnoresZero(t, u) ==
  \/ u.daily_spending_cap_usd # NONE /\ u.daily_spending_cap_usd > t.daily_spending_cap_usd
  \/ u.allowed_destinations # NONE /\ ~(u.allowed_destinations \subseteq t.allowed_destinations)
  \/ u.protocols # NONE /\ ~(u.protocols \subseteq t.protocols)
  \/ u.stable_balance_floor # NONE /\ u.stable_balance_floor < t.stable_balance_floor
  \/ /\ u.per_recipient_daily_cap_usd # NONE
     /\ u.per_recipient_daily_cap_usd > t.per_recipient_daily_cap_usd

\* The predicates of queue_policy_update that find an update weakening t.
Weakens(t, u) ==
  \/ u.daily_spending_cap_usd # NONE /\ u.daily_spending_cap_usd > t.daily_spending_cap_usd
  \/ u.allowed_destinations # NONE /\ ~(u.allowed_destinations \subseteq t.allowed_destinations)
  \/ u.protocols # NONE /\ ~(u.protocols \subseteq t.protocols)
  \/ u.stable_balance_floor # NONE /\ u.stable_balance_floor < t.stable_balance_floor
  \/ /\ u.per_recipient_daily_cap_usd # NONE
     /\ weakens_per_recipient_cap(u.per_recipient_daily_cap_usd, t.per_recipient_daily_cap_usd)

\* An update that needs the cosigner: one that weakens a vault with a cosigner,
\* turns the cosigner off or binds another one.
is_elevated(t, u) ==
  /\ t.cosign_required
  /\ \/ Weakens(t, u)
     \/ u.cosign_required = FALSE
     \/ u.cosign_session_pubkey # NONE /\ u.cosign_session_pubkey # t.cosign_session_pubkey

-----------------------------------------------------------------------------

\* The bounds on the arguments of queue_policy_update.
WithinBounds(u) ==
  /\ u.timelock_duration # NONE => u.timelock_duration \in MinTimelock .. MaxTimelock
  /\ u.operator_grant_delay_seconds # NONE => u.operator_grant_delay_seconds <= MaxGrantDelay
  /\ u.cosign_session_pubkey # vault.owner

PreviewDigest(u) ==
  compute_policy_preview_digest(vault, [policy EXCEPT !.terms = Merge(policy.terms, u)])

\* An elevated update names the bound cosigner, any other one names nobody.
queue_policy_update(u) ==
  /\ vault.status = "Active"
  /\ policy.terms.timelock_duration > 0
  /\ pending_policy = NONE
  /\ WithinBounds(u)
  /\ LET bound == policy.terms.cosign_session_pubkey
         elevated == is_elevated(policy.terms, u) IN
       /\ elevated => bound # NoKey /\ bound # vault.owner
       /\ pending_policy' =
            [update |-> u, queued_at |-> now, queued_at_slot |-> slot,
             executes_at |-> now + policy.terms.timelock_duration,
             cosign_session |-> IF elevated THEN bound ELSE NoKey,
             cosign_approved |-> FALSE, approved_at_slot |-> 0,
             queued_policy_version |-> policy.policy_version,
             new_policy_preview_digest |-> PreviewDigest(u)]
  /\ policy' = [policy EXCEPT !.has_pending_policy = TRUE]
  /\ UNCHANGED <<vault, overlay, pending_perms, pending_grant, pending_owner, clock>>

\* The cosigner that is bound now approves, once, what was queued at this
\* version, and only after the timelock.
approve_pending_policy ==
  /\ vault.status = "Active"
  /\ pending_policy # NONE
  /\ pending_policy.cosign_session # NoKey
  /\ has_bound_cosigner
  /\ ~pending_policy.cosign_approved
  /\ pending_policy.queued_policy_version = policy.policy_version
  /\ now >= pending_policy.executes_at
  /\ pending_policy' = [pending_policy EXCEPT !.cosign_approved = TRUE, !.approved_at_slot = slot]
  /\ UNCHANGED <<vault, policy, overlay, pending_perms, pending_grant, pending_owner, clock>>

\* Mature, approved if it had to be, and not stale.
PolicyDue ==
  /\ vault.status = "Active"
  /\ pending_policy # NONE
  /\ now >= pending_policy.executes_at
  /\ pending_policy.cosign_session # NoKey =>
       /\ pending_policy.cosign_approved
       /\ policy.policy_version = pending_policy.queued_policy_version
  /\ Fresh(IF pending_policy.cosign_session = NoKey THEN pending_policy.queued_at_slot
           ELSE pending_policy.approved_at_slot)

\* Faulty variant: an entry left by an earlier stay on the allowlist keeps its
\* unlock time.
GraylistKeepsOldEntry(gray, allowed, dests) ==
  LET new == {d \in dests \ allowed : gray[d] = NONE}
      unlock == IF AutoPromote THEN now ELSE now + Friction
      after == [d \in Destinations |-> IF d \in new THEN unlock ELSE gray[d]]
  IN {g \in {after} : Cardinality({d \in Destinations : g[d] # NONE}) <= MaxGraylist}

\* Every destination that was not allowed before is put on the graylist, or
\* has its entry there stamped anew; the list never shrinks, and is full at
\* MaxGraylist.
EnterGraylist(gray, allowed, dests) ==
  LET new == dests \ allowed
      unlock == IF AutoPromote THEN now ELSE now + Friction
      after == [d \in Destinations |-> IF d \in new THEN unlock ELSE gray[d]]
  IN {g \in {after} : Cardinality({d \in Destinations : g[d] # NONE}) <= MaxGraylist}

\* The cosign settings after the update are sane: turning the cosigner on
\* brings its key along, the bound key is not the owner's, and a vault that
\* requires a cosigner has one.
CosignMergeAllowed(u, t) ==
  /\ u.cosign_required = FALSE /\ policy.terms.cosign_required =>
       /\ pending_policy.cosign_session = policy.terms.cosign_session_pubkey
       /\ pending_policy.cosign_session # NoKey
  /\ t.cosign_session_pubkey # vault.owner
  /\ u.cosign_required = TRUE => u.cosign_session_pubkey \notin {NONE, NoKey}
  /\ t.cosign_required => t.cosign_session_pubkey # NoKey

\* Applied over the live policy: the digest must still be the one previewed.
apply_pending_policy ==
  /\ PolicyDue
  /\ LET u == pending_policy.update
         t == Merge(policy.terms, u) IN
       /\ u.timelock_duration # NONE => u.timelock_duration \in MinTimelock .. MaxTimelock
       /\ u.operator_grant_delay_seconds # NONE =>
            u.operator_grant_delay_seconds <= MaxGrantDelay
       /\ CosignMergeAllowed(u, t)
       /\ vault.observe_only \/ HasAllowlist(t)
       /\ \E g \in EnterGraylist(policy.destination_graylist, policy.terms.allowed_destinations,
                                 t.allowed_destinations) :
            LET p == [policy EXCEPT !.terms = t, !.destination_graylist = g,
                                    !.has_pending_policy = FALSE] IN
            /\ compute_policy_preview_digest(vault, p) = pending_policy.new_policy_preview_digest
            /\ Publish(vault, p)
  /\ pending_policy' = NONE
  /\ UNCHANGED <<overlay, pending_perms, pending_grant, pending_owner, clock>>

\* Faulty variant: the flag of the cancelled update stays up.
CancelKeepsFlag ==
  /\ vault.status # "Closed"
  /\ pending_policy # NONE
  /\ pending_policy' = NONE
  /\ UNCHANGED <<vault, policy, overlay, pending_perms, pending_grant, pending_owner, clock>>

\* Needs neither the cosigner nor an active vault.
cancel_pending_policy ==
  /\ vault.status # "Closed"
  /\ pending_policy # NONE
  /\ pending_policy' = NONE
  /\ policy' = [policy EXCEPT !.has_pending_policy = FALSE]
  /\ UNCHANGED <<vault, overlay, pending_perms, pending_grant, pending_owner, clock>>

-----------------------------------------------------------------------------

promote_graylist_destination(d) ==
  /\ vault.status = "Active"
  /\ CosignGate
  /\ d \in policy.terms.allowed_destinations
  /\ policy' = [policy EXCEPT !.destination_graylist[d] = IF @ = NONE THEN NONE ELSE now]
  /\ UNCHANGED <<vault, overlay, pendings, clock>>

\* Leaving observe-only needs an active vault with an allowlist, and the
\* cosigner; entering it needs none of them.
set_observe_only(on) ==
  /\ vault.status # "Closed"
  /\ ~on => vault.status = "Active" /\ CosignGate /\ HasAllowlist(policy.terms)
  /\ Publish([vault EXCEPT !.observe_only = on], policy)
  /\ UNCHANGED <<overlay, pendings, clock>>

create_post_assertions ==
  /\ vault.status # "Closed"
  /\ ~policy.has_post_assertions
  /\ Publish(vault, [policy EXCEPT !.has_post_assertions = TRUE])
  /\ UNCHANGED <<overlay, pendings, clock>>

close_post_assertions ==
  /\ vault.status # "Closed"
  /\ policy.has_post_assertions
  /\ CosignGate
  /\ Publish(vault, [policy EXCEPT !.has_post_assertions = FALSE])
  /\ UNCHANGED <<overlay, pendings, clock>>

-----------------------------------------------------------------------------

PolicyStep ==
  \/ \E u \in Updates : queue_policy_update(u)
  \/ approve_pending_policy
  \/ apply_pending_policy
  \/ cancel_pending_policy
  \/ \E d \in Destinations : promote_graylist_destination(d)
  \/ \E on \in BOOLEAN : set_observe_only(on)
  \/ create_post_assertions
  \/ close_post_assertions

=============================================================================
