-------------------------- MODULE VaultDelayProofs --------------------------
(***************************************************************************)
(* Theorems about what has to wait, and for how long: the timelocked       *)
(* changes of a vault, the grant of an OPERATOR, the cooldown after a      *)
(* freeze, and that a change which has waited is not yet too old.          *)
(***************************************************************************)
EXTENDS VaultRuleProofs

-----------------------------------------------------------------------------
(* Which instruction may do what to a pending account.                     *)

\* A pending update of permissions stays, is closed, or is queued anew.
LEMMA PermsMoves ==
  ASSUME TypeOK, [Next]_vars, NEW a \in AgentKeys
  PROVE  \/ pending_perms'[a] \in {pending_perms[a], NONE}
         \/ \E p \in Perms : queue_agent_permissions_update(a, p)
<1>0. pending_perms \in [AgentKeys -> PendingAgentPermissionsUpdate \cup {NONE}]
  BY DEF TypeOK
<1>1. CASE AgentStep
  <2>1. ASSUME NEW b \in AgentKeys, NEW p \in Perms, queue_agent_permissions_update(b, p)
        PROVE  pending_perms'[a] = pending_perms[a] \/ a = b
    BY <1>0, <2>1 DEF queue_agent_permissions_update
  <2>2. ASSUME NEW b \in AgentKeys,
               pending_perms' = [pending_perms EXCEPT ![b] = NONE]
        PROVE  pending_perms'[a] \in {pending_perms[a], NONE}
    BY <1>0, <2>2
  <2>3. \/ \E b \in AgentKeys : \E p \in Perms : queue_agent_permissions_update(b, p)
        \/ \E b \in AgentKeys : pending_perms' = [pending_perms EXCEPT ![b] = NONE]
        \/ pending_perms' = pending_perms
    BY Zenon, <1>1 DEF AgentStep, register_agent, revoke_agent, queue_agent_grant,
         apply_agent_permissions_update, cancel_agent_permissions_update, pause_agent,
         unpause_agent, record_agent_violation, validate_and_authorize, reactivate_vault,
         apply_agent_grant, cancel_agent_grant, freeze_vault, pendings
  <2> QED BY <2>1, <2>2, <2>3
<1>2. CASE PolicyStep
  BY <1>2, PolicyStepFrame DEF PolicyFrame
<1>3. CASE OwnershipStep
  BY <1>0, <1>3 DEF OwnershipStep, initiate_ownership_transfer, accept_ownership_transfer,
                    cancel_ownership_transfer, close_vault, initialize_vault, pendings
<1>4. CASE Tick \/ UNCHANGED vars
  BY <1>4 DEF Tick, vars, pendings
<1> QED BY <1>1, <1>2, <1>3, <1>4 DEF Next

LEMMA GrantMoves ==
  ASSUME TypeOK, [Next]_vars
  PROVE  \/ pending_grant' \in {pending_grant, NONE}
         \/ \E a \in AgentKeys, l \in Limits : queue_agent_grant(a, l)
<1>1. CASE AgentStep
  BY Zenon, <1>1 DEF AgentStep, register_agent, revoke_agent, queue_agent_permissions_update,
       apply_agent_permissions_update, cancel_agent_permissions_update, pause_agent,
       unpause_agent, record_agent_violation, validate_and_authorize, reactivate_vault,
       apply_agent_grant, cancel_agent_grant, freeze_vault, pendings
<1>2. CASE PolicyStep
  BY <1>2, PolicyStepFrame DEF PolicyFrame
<1>3. CASE OwnershipStep
  BY Zenon, <1>3 DEF OwnershipStep, initiate_ownership_transfer, accept_ownership_transfer,
                    cancel_ownership_transfer, close_vault, initialize_vault, pendings
<1>4. CASE Tick \/ UNCHANGED vars
  BY <1>4 DEF Tick, vars, pendings
<1> QED BY <1>1, <1>2, <1>3, <1>4 DEF Next

LEMMA OfferMoves ==
  ASSUME TypeOK, [Next]_vars
  PROVE  \/ pending_owner' \in {pending_owner, NONE}
         \/ \E k \in OwnerKeys : initiate_ownership_transfer(k)
<1>1. CASE AgentStep
  BY <1>1, AgentStepFrame DEF AgentFrame
<1>2. CASE PolicyStep
  BY <1>2, PolicyStepFrame DEF PolicyFrame
<1>3. CASE OwnershipStep
  BY Zenon, <1>3 DEF OwnershipStep, accept_ownership_transfer,
                    cancel_ownership_transfer, close_vault, initialize_vault, pendings
<1>4. CASE Tick \/ UNCHANGED vars
  BY <1>4 DEF Tick, vars, pendings
<1> QED BY <1>1, <1>2, <1>3, <1>4 DEF Next

LEMMA UpdateMoves ==
  ASSUME TypeOK, [Next]_vars
  PROVE  \/ pending_policy' \in {pending_policy, NONE}
         \/ \E u \in Updates : queue_policy_update(u)
         \/ approve_pending_policy
<1>1. CASE AgentStep
  BY <1>1, AgentStepFrame DEF AgentFrame
<1>2. CASE PolicyStep
  BY Zenon, <1>2 DEF PolicyStep, apply_pending_policy, cancel_pending_policy,
       promote_graylist_destination, set_observe_only, create_post_assertions,
       close_post_assertions, pendings
<1>3. CASE OwnershipStep
  BY Zenon, <1>3 DEF OwnershipStep, initiate_ownership_transfer, accept_ownership_transfer,
                    cancel_ownership_transfer, close_vault, initialize_vault, pendings
<1>4. CASE Tick \/ UNCHANGED vars
  BY <1>4 DEF Tick, vars, pendings
<1> QED BY <1>1, <1>2, <1>3, <1>4 DEF Next

\* Only Tick moves the clock, and MaxSlotRate slots at most.
LEMMA ClockMoves ==
  ASSUME TypeOK, [Next]_vars
  PROVE  \/ now' = now /\ slot' = slot
         \/ /\ now' = now + 1
            /\ \E r \in 0 .. MaxSlotRate : slot' = slot + r
            /\ UNCHANGED <<vault, policy, pendings>>
<1>1. CASE AgentStep
  BY <1>1, AgentStepFrame DEF AgentFrame
<1>2. CASE PolicyStep
  BY <1>2, PolicyStepFrame DEF PolicyFrame
<1>3. CASE OwnershipStep
  BY Zenon, <1>3 DEF OwnershipStep, initiate_ownership_transfer, accept_ownership_transfer,
                    cancel_ownership_transfer, close_vault, initialize_vault, clock
<1>4. CASE Tick
  <2>1. SlotRates \subseteq 0 .. MaxSlotRate
    BY VaultAssumption
  <2> QED BY <1>4, <2>1 DEF Tick
<1>5. CASE UNCHANGED vars
  BY <1>5 DEF vars
<1> QED BY <1>1, <1>2, <1>3, <1>4, <1>5 DEF Next

\* What may happen to the status: nothing, a freeze now, or the reactivation
\* of a vault whose cooldown is over.
LEMMA AgentStepStatus ==
  ASSUME TypeOK, AgentStep
  PROVE  \/ /\ vault'.status = vault.status
            /\ vault'.frozen_at_timestamp = vault.frozen_at_timestamp
         \/ vault'.status = "Frozen" /\ vault'.frozen_at_timestamp = now
         \/ /\ vault.status = "Frozen" /\ vault'.status = "Active" /\ CosignGate
            /\ vault'.frozen_at_timestamp = vault.frozen_at_timestamp
            /\ now - vault.frozen_at_timestamp >= ReactivateCooldown
<1> DEFINE Same == /\ vault'.status = vault.status
                   /\ vault'.frozen_at_timestamp = vault.frozen_at_timestamp
           Frozen == vault'.status = "Frozen" /\ vault'.frozen_at_timestamp = now
           Thawed == /\ vault.status = "Frozen" /\ vault'.status = "Active" /\ CosignGate
                     /\ vault'.frozen_at_timestamp = vault.frozen_at_timestamp
                     /\ now - vault.frozen_at_timestamp >= ReactivateCooldown
<1> SUFFICES Same \/ Frozen \/ Thawed
  OBVIOUS
<1>0. vault \in VaultType
  BY Fields
<1>1. ASSUME NEW a \in AgentKeys, NEW e, vault' = Put(vault, a, e)
      PROVE  Same
  BY <1>0, <1>1, PutFields
<1>2. ASSUME NEW a \in AgentKeys, revoke_agent(a)
      PROVE  Same \/ Frozen
  <2> DEFINE v == Put(vault, a, NotAnAgent)
  <2>1. v \in VaultType
    BY <1>0, EntriesTyped, PutTyped
  <2>2. vault' = freeze_internal(v) \/ vault' = v
    BY <1>2 DEF revoke_agent, Publish
  <2>3. v.status = vault.status /\ v.frozen_at_timestamp = vault.frozen_at_timestamp
    BY <1>0, PutFields
  <2> HIDE DEF v
  <2> QED BY Zenon, <2>1, <2>2, <2>3 DEF freeze_internal, VaultType
<1>3. CASE freeze_vault
  BY <1>0, <1>3 DEF freeze_vault, freeze_internal, VaultType
<1>4. ASSUME NEW a \in AgentKeys \cup {NONE}, NEW c, reactivate_vault(a, c)
      PROVE  Thawed
  <2> DEFINE v == [vault EXCEPT !.status = "Active"]
  <2>1. /\ v \in VaultType /\ v.status = "Active"
        /\ v.frozen_at_timestamp = vault.frozen_at_timestamp
    BY <1>0 DEF VaultType
  <2>2. \/ vault' = v
        \/ a \in AgentKeys /\ vault' = Put(v, a, NewAgent(c, 0))
    BY <1>4 DEF reactivate_vault, Publish
  <2> HIDE DEF v
  <2>3. vault'.status = "Active" /\ vault'.frozen_at_timestamp = vault.frozen_at_timestamp
    BY <2>1, <2>2, PutFields
  <2> QED BY <1>4, <2>3 DEF reactivate_vault
<1>5. ASSUME NEW a \in AgentKeys, NEW c, NEW l, register_agent(a, c, l)
      PROVE  Same
  BY <1>1, <1>5 DEF register_agent, Publish
<1>6. ASSUME NEW a \in AgentKeys,
             \/ apply_agent_permissions_update(a) \/ pause_agent(a) \/ unpause_agent(a)
             \/ record_agent_violation(a) \/ validate_and_authorize(a)
      PROVE  Same
  <2>1. \E e : vault' = Put(vault, a, e)
    BY Zenon, <1>6 DEF apply_agent_permissions_update, pause_agent, unpause_agent,
                record_agent_violation, validate_and_authorize, BumpVersion, Publish
  <2> QED BY Zenon, <1>1, <2>1
<1>7. CASE apply_agent_grant
  <2>1. pending_grant.agent \in AgentKeys
    BY <1>7 DEF apply_agent_grant, TypeOK, PendingAgentGrant
  <2> QED BY <1>1, <1>7, <2>1 DEF apply_agent_grant, Publish
<1>8. CASE \/ \E a \in AgentKeys : \/ \E l \in Limits : queue_agent_grant(a, l)
                                   \/ \E p \in Perms : queue_agent_permissions_update(a, p)
                                   \/ cancel_agent_permissions_update(a)
           \/ cancel_agent_grant
  BY Zenon, <1>8 DEF queue_agent_grant, queue_agent_permissions_update, cancel_agent_grant,
               cancel_agent_permissions_update
<1> HIDE DEF Same, Frozen, Thawed
<1> QED BY Zenon, <1>2, <1>3, <1>4, <1>5, <1>6, <1>7, <1>8 DEF AgentStep

-----------------------------------------------------------------------------
(* The delays.                                                             *)

\* At time n and slot s, no more slots have passed since t and ts than the
\* fastest slot rate allows.
Elapsed(n, s, t, ts) == t <= n /\ s - ts <= MaxSlotRate * (n - t)

TermsBounded ==
  /\ policy.terms.timelock_duration \in MinTimelock .. MaxTimelock
  /\ policy.terms.operator_grant_delay_seconds <= MaxGrantDelay

\* The update matures by the timelock that is in force, not by the one that was
\* when it was queued: they are the same.
UpdateWaits ==
  pending_policy # NONE =>
    /\ pending_policy.executes_at = pending_policy.queued_at + policy.terms.timelock_duration
    /\ Elapsed(now, slot, pending_policy.queued_at, pending_policy.queued_at_slot)

PermsWait ==
  \A a \in AgentKeys : pending_perms[a] # NONE =>
    /\ pending_perms[a].executes_at >= pending_perms[a].queued_at + MinTimelock
    /\ pending_perms[a].executes_at <= pending_perms[a].queued_at + MaxTimelock
    /\ Elapsed(now, slot, pending_perms[a].queued_at, pending_perms[a].queued_at_slot)

\* What nobody countersigned waits for the floor.
GrantWaits ==
  pending_grant # NONE =>
    /\ pending_grant.cosigner \in Willing \/ pending_grant.min_delay_seconds >= SingleKeyFloor
    /\ pending_grant.min_delay_seconds <= MaxGrantDelay
    /\ Elapsed(now, slot, pending_grant.queued_at, pending_grant.queued_at_slot)

OfferWaits ==
  pending_owner # NONE =>
    /\ pending_owner.min_delay_seconds = OwnershipDelay
    /\ pending_owner.new_owner # pending_owner.current_owner
    /\ Elapsed(now, slot, pending_owner.queued_at, pending_owner.queued_at_slot)

ThawWaited ==
  vault.status = "Active" /\ vault.frozen_at_timestamp > 0 =>
    now >= vault.frozen_at_timestamp + ReactivateCooldown

DelayInv ==
  TermsBounded /\ UpdateWaits /\ PermsWait /\ GrantWaits /\ OfferWaits /\ ThawWaited

LEMMA Distribute == ASSUME NEW m \in Nat, NEW n \in Nat PROVE m * (n + 1) = m * n + m
OBVIOUS

LEMMA Monotone ==
  ASSUME NEW m \in Nat, NEW n \in Nat, NEW k \in Nat, n <= k
  PROVE  m * n <= m * k
OBVIOUS

\* The clock keeps within the fastest slot rate as it moves.
LEMMA ElapsedKept ==
  ASSUME TypeOK, [Next]_vars, NEW t \in Nat, NEW ts \in Nat, Elapsed(now, slot, t, ts)
  PROVE  Elapsed(now', slot', t, ts)
<1>0. now \in Nat /\ slot \in Nat /\ MaxSlotRate \in Nat
  BY VaultAssumption DEF TypeOK
<1>1. CASE now' = now /\ slot' = slot
  BY <1>1
<1>2. ASSUME NEW r \in 0 .. MaxSlotRate, now' = now + 1, slot' = slot + r
      PROVE  Elapsed(now', slot', t, ts)
  <2>1. now - t \in Nat /\ now' - t = (now - t) + 1
    BY <1>0, <1>2 DEF Elapsed
  <2>2. MaxSlotRate * (now' - t) = MaxSlotRate * (now - t) + MaxSlotRate
    BY <1>0, <2>1, Distribute
  <2>3. MaxSlotRate * (now - t) \in Nat
    BY <1>0, <2>1
  <2> QED BY <1>0, <1>2, <2>2, <2>3 DEF Elapsed
<1> QED BY <1>1, <1>2, ClockMoves

\* What is queued now has waited for nothing, and no slot has passed.
LEMMA ElapsedNow ==
  ASSUME TypeOK, now' = now, slot' = slot
  PROVE  Elapsed(now', slot', now, slot)
<1>1. now \in Nat /\ slot \in Nat /\ MaxSlotRate * 0 = 0
  BY VaultAssumption DEF TypeOK
<1> QED BY <1>1 DEF Elapsed

\* The times of an open account are numbers.
LEMMA PendingFields ==
  ASSUME TypeOK
  PROVE  /\ pending_policy # NONE => /\ pending_policy.queued_at \in Nat
                                     /\ pending_policy.queued_at_slot \in Nat
                                     /\ pending_policy.executes_at \in Nat
                                     /\ pending_policy.update \in UpdateType
         /\ \A a \in AgentKeys :
              pending_perms[a] # NONE => /\ pending_perms[a].queued_at \in Nat
                                         /\ pending_perms[a].queued_at_slot \in Nat
                                         /\ pending_perms[a].executes_at \in Nat
         /\ pending_grant # NONE => /\ pending_grant.queued_at \in Nat
                                    /\ pending_grant.queued_at_slot \in Nat
                                    /\ pending_grant.min_delay_seconds \in Nat
         /\ pending_owner # NONE => /\ pending_owner.queued_at \in Nat
                                    /\ pending_owner.queued_at_slot \in Nat
                                    /\ pending_owner.min_delay_seconds \in Nat
<1>1. pending_policy # NONE => pending_policy \in PendingPolicyUpdate
  BY DEF TypeOK
<1>2. \A a \in AgentKeys : pending_perms[a] # NONE =>
        pending_perms[a] \in PendingAgentPermissionsUpdate
  BY DEF TypeOK
<1>3. pending_grant # NONE => pending_grant \in PendingAgentGrant
  BY DEF TypeOK
<1>4. pending_owner # NONE => pending_owner \in PendingOwnershipTransfer
  BY DEF TypeOK
<1> QED BY <1>1, <1>2, <1>3, <1>4 DEF PendingPolicyUpdate, PendingAgentPermissionsUpdate,
                                      PendingAgentGrant, PendingOwnershipTransfer

\* Only an applied update and an accepted transfer change the terms of a vault.
LEMMA TermsMoves ==
  ASSUME TypeOK, [Next]_vars
  PROVE  \/ policy'.terms = policy.terms
         \/ apply_pending_policy
         \/ /\ accept_ownership_transfer
            /\ policy'.terms = TermsFor(pending_owner.new_owner, policy.terms)
         \/ \E t \in InitialTerms, o \in BOOLEAN : initialize_vault(t, o) /\ policy'.terms = t
<1>1. CASE AgentStep
  BY <1>1, AgentStepFrame DEF AgentFrame, PolicyKept
<1>2. CASE PolicyStep
  BY <1>2, PolicyStepTerms
<1>3. CASE accept_ownership_transfer
  BY <1>3, AcceptFields
<1>4. ASSUME NEW t \in InitialTerms, NEW o \in BOOLEAN, initialize_vault(t, o)
      PROVE  policy'.terms = t
  BY <1>4 DEF initialize_vault, FreshPolicy
<1>5. CASE \/ \E k \in OwnerKeys : initiate_ownership_transfer(k)
           \/ cancel_ownership_transfer \/ close_vault
  BY <1>5 DEF initiate_ownership_transfer, cancel_ownership_transfer, close_vault
<1>6. CASE Tick \/ UNCHANGED vars
  BY <1>6 DEF Tick, vars
<1> QED BY Zenon, <1>1, <1>2, <1>3, <1>4, <1>5, <1>6 DEF Next, OwnershipStep

\* Of the delays only the update changes any.
LEMMA DelayTerms ==
  ASSUME TypeOK, [Next]_vars
  PROVE  \/ apply_pending_policy
         \/ \E t \in InitialTerms, o \in BOOLEAN : initialize_vault(t, o) /\ policy'.terms = t
         \/ /\ policy'.terms.timelock_duration = policy.terms.timelock_duration
            /\ policy'.terms.operator_grant_delay_seconds
                 = policy.terms.operator_grant_delay_seconds
<1>1. \A k : /\ TermsFor(k, policy.terms).timelock_duration = policy.terms.timelock_duration
             /\ TermsFor(k, policy.terms).operator_grant_delay_seconds
                  = policy.terms.operator_grant_delay_seconds
  BY Fields DEF TermsFor, TermsType
<1> QED BY Zenon, <1>1, TermsMoves

LEMMA TermsBoundedStep ==
  ASSUME TypeOK, TermsBounded, [Next]_vars
  PROVE  TermsBounded'
<1>0. MinTimelock \in Nat /\ MaxTimelock \in Nat /\ MaxGrantDelay \in Nat
      /\ policy.terms \in TermsType
  BY Fields, VaultAssumption
<1>1. CASE apply_pending_policy
  <2> DEFINE u == pending_policy.update
  <2>1. /\ u.timelock_duration # NONE => u.timelock_duration \in MinTimelock .. MaxTimelock
        /\ u.operator_grant_delay_seconds # NONE =>
             u.operator_grant_delay_seconds <= MaxGrantDelay
    BY Zenon, <1>1 DEF apply_pending_policy
  <2>2. policy'.terms = Merge(policy.terms, u)
    BY <1>1, ApplyFields
  <2> HIDE DEF u
  <2>3. /\ policy'.terms.timelock_duration
             = Or(u.timelock_duration, policy.terms.timelock_duration)
        /\ policy'.terms.operator_grant_delay_seconds
             = Or(u.operator_grant_delay_seconds, policy.terms.operator_grant_delay_seconds)
    BY <2>2 DEF Merge
  <2> QED BY Zenon, <2>1, <2>3 DEF Or, TermsBounded
<1>2. ASSUME NEW t \in InitialTerms, policy'.terms = t
      PROVE  TermsBounded'
  <2>1. t.timelock_duration \in MinTimelock .. MaxTimelock /\ t.operator_grant_delay_seconds = 0
    BY TermsAssumption
  <2> QED BY <1>0, <1>2, <2>1 DEF TermsBounded
<1> QED BY <1>1, <1>2, DelayTerms DEF TermsBounded

LEMMA UpdateWaitsStep ==
  ASSUME TypeOK, ClosedIsDrained, UpdateWaits, [Next]_vars
  PROVE  UpdateWaits'
<1>0. policy \in PolicyType
  BY Fields
<1>1. ASSUME NEW u \in Updates, queue_policy_update(u)
      PROVE  UpdateWaits'
  <2>1. /\ now' = now /\ slot' = slot
        /\ pending_policy'.queued_at = now /\ pending_policy'.queued_at_slot = slot
        /\ pending_policy'.executes_at = now + policy.terms.timelock_duration
    BY <1>1 DEF queue_policy_update, clock
  <2>2. policy'.terms = policy.terms
    BY <1>0, <1>1 DEF queue_policy_update, PolicyType
  <2> QED BY <2>1, <2>2, ElapsedNow DEF UpdateWaits
<1>2. CASE approve_pending_policy
  <2>1. /\ pending_policy # NONE /\ UNCHANGED policy
        /\ pending_policy'.queued_at = pending_policy.queued_at
        /\ pending_policy'.queued_at_slot = pending_policy.queued_at_slot
        /\ pending_policy'.executes_at = pending_policy.executes_at
    BY <1>2, ApprovedTyped DEF approve_pending_policy, PendingPolicyUpdate
  <2> QED BY <2>1, PendingFields, ElapsedKept DEF UpdateWaits
<1>3. CASE pending_policy' = pending_policy /\ pending_policy # NONE
  <2>1. ~apply_pending_policy
    BY Zenon, <1>3 DEF apply_pending_policy
  <2>2. \A t \in InitialTerms, o \in BOOLEAN : ~initialize_vault(t, o)
    BY <1>3 DEF initialize_vault, ClosedIsDrained
  <2>3. policy'.terms.timelock_duration = policy.terms.timelock_duration
    BY <2>1, <2>2, DelayTerms
  <2> QED BY <1>3, <2>3, PendingFields, ElapsedKept DEF UpdateWaits
<1>4. CASE pending_policy' = NONE
  BY <1>4 DEF UpdateWaits
<1> QED BY <1>1, <1>2, <1>3, <1>4, UpdateMoves

LEMMA PermsWaitStep ==
  ASSUME TypeOK, TermsBounded, PermsWait, [Next]_vars
  PROVE  PermsWait'
<1> SUFFICES ASSUME NEW a \in AgentKeys, pending_perms'[a] # NONE
             PROVE  /\ pending_perms'[a].executes_at >= pending_perms'[a].queued_at + MinTimelock
                    /\ pending_perms'[a].executes_at <= pending_perms'[a].queued_at + MaxTimelock
                    /\ Elapsed(now', slot', pending_perms'[a].queued_at,
                               pending_perms'[a].queued_at_slot)
  BY DEF PermsWait
<1>0. /\ now \in Nat /\ MinTimelock \in Nat /\ MaxTimelock \in Nat
      /\ pending_perms \in [AgentKeys -> PendingAgentPermissionsUpdate \cup {NONE}]
  BY VaultAssumption DEF TypeOK
<1>1. ASSUME NEW p \in Perms, queue_agent_permissions_update(a, p)
      PROVE  /\ pending_perms'[a].executes_at >= pending_perms'[a].queued_at + MinTimelock
             /\ pending_perms'[a].executes_at <= pending_perms'[a].queued_at + MaxTimelock
             /\ Elapsed(now', slot', pending_perms'[a].queued_at,
                        pending_perms'[a].queued_at_slot)
  <2>1. pending_perms'[a] = [perms |-> p, queued_at |-> now, queued_at_slot |-> slot,
                             executes_at |-> now + policy.terms.timelock_duration]
    BY <1>0, <1>1 DEF queue_agent_permissions_update
  <2>2. now' = now /\ slot' = slot
    BY <1>1 DEF queue_agent_permissions_update, clock
  <2>3. /\ pending_perms'[a].queued_at = now /\ pending_perms'[a].queued_at_slot = slot
        /\ pending_perms'[a].executes_at = now + policy.terms.timelock_duration
    BY <2>1
  <2> QED BY <1>0, <2>2, <2>3, ElapsedNow DEF TermsBounded
<1>2. CASE pending_perms'[a] = pending_perms[a]
  BY <1>2, PendingFields, ElapsedKept DEF PermsWait
<1> QED BY <1>1, <1>2, PermsMoves

\* A grant that nobody countersigns is queued with the floor as its delay.
LEMMA QueuedGrant ==
  ASSUME TypeOK, TermsBounded, NEW a \in AgentKeys, NEW l \in Limits, queue_agent_grant(a, l)
  PROVE  /\ pending_grant'.cosigner \in Willing
              \/ pending_grant'.min_delay_seconds >= SingleKeyFloor
         /\ pending_grant'.min_delay_seconds <= MaxGrantDelay
         /\ pending_grant'.queued_at = now /\ pending_grant'.queued_at_slot = slot
<1>0. /\ policy.terms.operator_grant_delay_seconds \in Nat
      /\ policy.terms.operator_grant_delay_seconds <= MaxGrantDelay
      /\ SingleKeyFloor \in Nat /\ SingleKeyFloor <= MaxGrantDelay /\ MaxGrantDelay \in Nat
  BY Fields, VaultAssumption DEF TermsType, TermsBounded
<1>1. /\ pending_grant'.queued_at = now /\ pending_grant'.queued_at_slot = slot
      /\ pending_grant'.min_delay_seconds = effective_operator_grant_delay
      /\ pending_grant'.cosigner = IF policy.terms.cosign_required
                                     THEN policy.terms.cosign_session_pubkey ELSE NONE
      /\ CosignGate
  BY DEF queue_agent_grant
<1>2. effective_operator_grant_delay <= MaxGrantDelay
  BY <1>0 DEF effective_operator_grant_delay
<1>3. CASE policy.terms.cosign_required
  BY <1>1, <1>2, <1>3 DEF CosignGate, has_bound_cosigner
<1>4. CASE ~policy.terms.cosign_required
  <2>1. effective_operator_grant_delay >= SingleKeyFloor
    BY <1>0, <1>4 DEF effective_operator_grant_delay, CosignBound
  <2> QED BY <1>1, <1>2, <2>1
<1> QED BY <1>3, <1>4

LEMMA GrantWaitsStep ==
  ASSUME TypeOK, TermsBounded, GrantWaits, [Next]_vars
  PROVE  GrantWaits'
<1>1. ASSUME NEW a \in AgentKeys, NEW l \in Limits, queue_agent_grant(a, l)
      PROVE  GrantWaits'
  <2>1. now' = now /\ slot' = slot
    BY <1>1 DEF queue_agent_grant, clock
  <2> QED BY <1>1, <2>1, QueuedGrant, ElapsedNow DEF GrantWaits
<1>2. CASE pending_grant' = pending_grant
  BY <1>2, PendingFields, ElapsedKept DEF GrantWaits
<1>3. CASE pending_grant' = NONE
  BY <1>3 DEF GrantWaits
<1> QED BY <1>1, <1>2, <1>3, GrantMoves

LEMMA OfferWaitsStep ==
  ASSUME TypeOK, OfferWaits, [Next]_vars
  PROVE  OfferWaits'
<1>1. ASSUME NEW k \in OwnerKeys, initiate_ownership_transfer(k)
      PROVE  OfferWaits'
  <2>1. /\ now' = now /\ slot' = slot /\ k # vault.owner
        /\ pending_owner'.queued_at = now /\ pending_owner'.queued_at_slot = slot
        /\ pending_owner'.min_delay_seconds = OwnershipDelay
        /\ pending_owner'.current_owner = vault.owner /\ pending_owner'.new_owner = k
    BY Zenon, <1>1 DEF initiate_ownership_transfer, clock
  <2> QED BY <2>1, ElapsedNow DEF OfferWaits
<1>2. CASE pending_owner' = pending_owner
  BY <1>2, PendingFields, ElapsedKept DEF OfferWaits
<1>3. CASE pending_owner' = NONE
  BY <1>3 DEF OfferWaits
<1> QED BY <1>1, <1>2, <1>3, OfferMoves

LEMMA ThawWaitedStep ==
  ASSUME TypeOK, ThawWaited, [Next]_vars
  PROVE  ThawWaited'
<1>0. /\ vault \in VaultType /\ now \in Nat /\ vault.frozen_at_timestamp \in Nat
      /\ ReactivateCooldown \in Nat
  BY Fields, VaultAssumption
<1>1. CASE AgentStep
  <2>1. now' = now
    BY <1>1, AgentStepFrame DEF AgentFrame
  <2> QED BY <1>0, <1>1, <2>1, AgentStepStatus DEF ThawWaited
<1>2. CASE PolicyStep
  BY <1>2, PolicyStepFrame DEF PolicyFrame, ThawWaited
<1>3. CASE accept_ownership_transfer
  <2>1. now' = now
    BY <1>3 DEF accept_ownership_transfer, clock
  <2> QED BY <1>3, <2>1, AcceptFields DEF ThawWaited
<1>4. CASE \E t \in InitialTerms, o \in BOOLEAN : initialize_vault(t, o)
  BY <1>4 DEF initialize_vault, FreshVault, ThawWaited
<1>5. CASE close_vault
  BY <1>0, <1>5 DEF close_vault, VaultType, ThawWaited
<1>6. CASE \/ \E k \in OwnerKeys : initiate_ownership_transfer(k)
           \/ cancel_ownership_transfer
  BY <1>6 DEF initiate_ownership_transfer, cancel_ownership_transfer, clock, ThawWaited
<1>7. CASE Tick
  BY <1>0, <1>7 DEF Tick, ThawWaited
<1>8. CASE UNCHANGED vars
  BY <1>8 DEF vars, ThawWaited
<1> QED BY <1>1, <1>2, <1>3, <1>4, <1>5, <1>6, <1>7, <1>8 DEF Next, OwnershipStep

\* Every pending change carries the delay it is owed, and the clock has kept
\* within the fastest slot rate since it was queued.
LEMMA DelaysKept == Spec => [](TypeOK /\ ClosedIsDrained /\ PolicyWellFormed /\ DelayInv)
<1>1. Init => DelayInv
  <2> SUFFICES ASSUME Init PROVE DelayInv
    OBVIOUS
  <2>1. PICK t \in InitialTerms, o \in BOOLEAN :
          vault = FreshVault(1, o) /\ policy = FreshPolicy(t, o)
    BY DEF Init
  <2>2. policy.terms = t /\ vault.frozen_at_timestamp = 0
    BY <2>1 DEF FreshPolicy, FreshVault
  <2>3. TermsBounded
    BY <2>2, TermsAssumption, VaultAssumption DEF TermsBounded
  <2>4. /\ pending_policy = NONE /\ pending_grant = NONE /\ pending_owner = NONE
        /\ \A a \in AgentKeys : pending_perms[a] = NONE
    BY DEF Init
  <2>5. ThawWaited
    BY <2>2 DEF ThawWaited
  <2> QED BY Zenon, <2>3, <2>4, <2>5 DEF DelayInv, UpdateWaits, PermsWait, GrantWaits, OfferWaits
<1>2. TypeOK /\ ClosedIsDrained /\ DelayInv /\ [Next]_vars => DelayInv'
  BY TermsBoundedStep, UpdateWaitsStep, PermsWaitStep, GrantWaitsStep, OfferWaitsStep,
     ThawWaitedStep DEF DelayInv
<1> QED BY <1>1, <1>2, WellFormedAlways, PTL DEF Spec

\* Within a delay whose slots fit into MaxApplyAge, nothing goes stale.
LEMMA FreshWithin ==
  ASSUME TypeOK, NEW delay \in Nat, MaxSlotRate * delay < MaxApplyAge,
         NEW t \in Nat, NEW ts \in Nat, Elapsed(now, slot, t, ts), now <= t + delay
  PROVE  Fresh(ts)
<1>0. now \in Nat /\ slot \in Nat /\ MaxSlotRate \in Nat /\ MaxApplyAge \in Nat
  BY VaultAssumption DEF TypeOK
<1>1. now - t \in Nat /\ now - t <= delay
  BY <1>0 DEF Elapsed
<1>2. MaxSlotRate * (now - t) <= MaxSlotRate * delay
  BY <1>0, <1>1, Monotone
<1>3. MaxSlotRate * (now - t) \in Nat /\ MaxSlotRate * delay \in Nat
  BY <1>0, <1>1
<1> QED BY <1>0, <1>2, <1>3 DEF Elapsed, Fresh

LEMMA FreshAtMaturity == TypeOK /\ DelayInv => MaturesFresh
<1> SUFFICES ASSUME TypeOK, DelayInv PROVE MaturesFresh
  OBVIOUS
<1>0. /\ MaxTimelock \in Nat /\ MaxGrantDelay \in Nat /\ OwnershipDelay \in Nat
      /\ MaxSlotRate * MaxTimelock < MaxApplyAge /\ MaxSlotRate * MaxGrantDelay < MaxApplyAge
      /\ MaxSlotRate * OwnershipDelay < MaxApplyAge
      /\ now \in Nat /\ policy.terms.timelock_duration \in Nat
  BY Zenon, Fields, VaultAssumption DEF TermsType
<1>1. ASSUME pending_policy # NONE, now <= pending_policy.executes_at
      PROVE  Fresh(pending_policy.queued_at_slot)
  <2>1. now <= pending_policy.queued_at + MaxTimelock
    BY <1>0, <1>1, PendingFields DEF DelayInv, UpdateWaits, TermsBounded
  <2> QED BY <1>0, <1>1, <2>1, PendingFields, FreshWithin DEF DelayInv, UpdateWaits
<1>2. ASSUME NEW a \in AgentKeys, pending_perms[a] # NONE, now <= pending_perms[a].executes_at
      PROVE  Fresh(pending_perms[a].queued_at_slot)
  <2>0. pending_perms[a].queued_at \in Nat /\ pending_perms[a].executes_at \in Nat
    BY Zenon, <1>2, PendingFields
  <2>1. pending_perms[a].executes_at <= pending_perms[a].queued_at + MaxTimelock
    BY Zenon, <1>2 DEF DelayInv, PermsWait
  <2>2. now <= pending_perms[a].queued_at + MaxTimelock
    BY <1>0, <1>2, <2>0, <2>1
  <2> QED BY Zenon, <1>0, <1>2, <2>2, PendingFields, FreshWithin DEF DelayInv, PermsWait
<1>3. ASSUME pending_grant # NONE,
             now <= pending_grant.queued_at + pending_grant.min_delay_seconds
      PROVE  Fresh(pending_grant.queued_at_slot)
  <2>1. now <= pending_grant.queued_at + MaxGrantDelay
    BY <1>0, <1>3, PendingFields DEF DelayInv, GrantWaits
  <2> QED BY <1>0, <1>3, <2>1, PendingFields, FreshWithin DEF DelayInv, GrantWaits
<1>4. ASSUME pending_owner # NONE,
             now <= pending_owner.queued_at + pending_owner.min_delay_seconds
      PROVE  Fresh(pending_owner.queued_at_slot)
  <2>1. now <= pending_owner.queued_at + OwnershipDelay
    BY <1>4 DEF DelayInv, OfferWaits
  <2> QED BY <1>0, <1>4, <2>1, PendingFields, FreshWithin DEF DelayInv, OfferWaits
<1> QED BY <1>1, <1>2, <1>3, <1>4 DEF MaturesFresh

\* No queued change is too old by the time it may be applied, whatever the
\* timelock it was queued under, as long as MAX_APPLY_AGE_SLOTS_TIMELOCKED_ADMIN
\* covers the longest delays at the fastest slot rate.
THEOREM NothingStaleAtMaturity == Spec => []MaturesFresh
BY DelaysKept, FreshAtMaturity, PTL

-----------------------------------------------------------------------------
(* Every power that is meant to wait has waited.                           *)

\* A permissions update is applied no sooner than the least timelock allows.
LEMMA PermsMature ==
  ASSUME TypeOK, DelayInv, NEW a \in AgentKeys, apply_agent_permissions_update(a)
  PROVE  /\ pending_perms[a] # NONE /\ pending_perms[a].queued_at \in Nat
         /\ now >= pending_perms[a].queued_at + MinTimelock
<1>0. now \in Nat /\ MinTimelock \in Nat
  BY Zenon, VaultAssumption DEF TypeOK
<1>1. pending_perms[a] # NONE /\ now >= pending_perms[a].executes_at
  BY Zenon DEF apply_agent_permissions_update, PermsDue
<1>2. pending_perms[a].queued_at \in Nat /\ pending_perms[a].executes_at \in Nat
  BY Zenon, <1>1, PendingFields
<1>3. pending_perms[a].executes_at >= pending_perms[a].queued_at + MinTimelock
  BY Zenon, <1>1 DEF DelayInv, PermsWait
<1> QED BY <1>0, <1>1, <1>2, <1>3

\* A registered agent gains nothing from an instruction about agents but by
\* being unpaused or by a permissions update that is due.
LEMMA GainWaited ==
  ASSUME TypeOK, AgentStep, NEW a \in AgentKeys, Gains(a), vault.agents[a].registered
  PROVE  \/ vault.agents[a].paused /\ ~vault'.agents[a].paused
         \/ apply_agent_permissions_update(a)
<1>1. AgentChange(a)
  BY AgentStepEntries, KeptGainsNothing
<1>2. ~MayJoin(a)
  BY DEF MayJoin, Agents
<1>3. ~ \E c \in Capabilities : reactivate_vault(a, c)
  BY <1>2, VaultAssumption DEF reactivate_vault
<1>4. /\ ~ \E c \in Capabilities, l \in Limits : register_agent(a, c, l)
      /\ ~ (apply_agent_grant /\ a = pending_grant.agent)
  BY Zenon, <1>2 DEF register_agent, apply_agent_grant
<1>5. ~Loses(a)
  BY LosingGainsNothing
<1>6. CASE unpause_agent(a) /\ vault'.agents[a].paused = FALSE
  BY Zenon, <1>6 DEF unpause_agent
<1> QED BY Zenon, <1>1, <1>3, <1>4, <1>5, <1>6 DEF AgentChange, HasEntry, Loses

LEMMA WaitedStep ==
  ASSUME TypeOK, DelayInv, [Next]_vars
  PROVE  EveryPowerWaited
<1> SUFFICES ASSUME SameLife PROVE EveryPowerWaited
  BY Zenon DEF EveryPowerWaited
<1>0. /\ vault \in VaultType /\ policy.terms \in TermsType /\ vault.life \in Nat
      /\ now \in Nat /\ MinTimelock \in Nat /\ vault.frozen_at_timestamp \in Nat
      /\ ReactivateCooldown \in Nat
  BY Fields, VaultAssumption
<1> DEFINE TermsWaited ==
             \/ vault'.owner # vault.owner
             \/ /\ pending_policy # NONE
                /\ now >= pending_policy.queued_at + policy.terms.timelock_duration
           AgentWaited(a) ==
             Gains(a) /\ vault.agents[a].registered =>
               \/ vault.agents[a].paused /\ ~vault'.agents[a].paused
               \/ /\ pending_perms[a] # NONE
                  /\ now >= pending_perms[a].queued_at + MinTimelock
           OwnerWaited ==
             /\ pending_owner # NONE
             /\ pending_owner.current_owner = vault.owner
             /\ pending_owner.new_owner = vault'.owner
             /\ now >= pending_owner.queued_at + OwnershipDelay
           ThawDone ==
             vault'.status = "Active" /\ vault'.frozen_at_timestamp > 0 =>
               now >= vault'.frozen_at_timestamp + ReactivateCooldown
<1>1. ASSUME vault'.agents = vault.agents
      PROVE  \A a \in AgentKeys : AgentWaited(a)
  BY <1>1, KeptGainsNothing DEF RightsKept, HasEntry
<1>2. ASSUME vault'.status = vault.status,
             vault'.frozen_at_timestamp = vault.frozen_at_timestamp
      PROVE  ThawDone
  BY <1>2 DEF DelayInv, ThawWaited
<1>3. CASE AgentStep
  <2>1. policy'.terms = policy.terms /\ vault'.owner = vault.owner
    BY <1>3, AgentStepFrame DEF AgentFrame, PolicyKept
  <2>2. ASSUME NEW a \in AgentKeys
        PROVE  AgentWaited(a)
    <3>1. ASSUME apply_agent_permissions_update(a)
          PROVE  pending_perms[a] # NONE /\ now >= pending_perms[a].queued_at + MinTimelock
      BY <3>1, PermsMature
    <3> QED BY <1>3, <3>1, GainWaited
  <2>3. ThawDone
    BY <1>0, <1>2, <1>3, AgentStepStatus
  <2> HIDE DEF AgentWaited, ThawDone
  <2>4. \A a \in AgentKeys : AgentWaited(a)
    BY <2>2
  <2> QED BY <2>1, <2>3, <2>4 DEF EveryPowerWaited, AgentWaited, ThawDone
<1>4. CASE PolicyStep
  <2>1. PolicyFrame
    BY <1>4, PolicyStepFrame
  <2>2. policy'.terms # policy.terms => TermsWaited
    <3>1. ASSUME apply_pending_policy
          PROVE  TermsWaited
      BY <3>1 DEF apply_pending_policy, PolicyDue, DelayInv, UpdateWaits
    <3> QED BY <1>4, <3>1, PolicyStepTerms
  <2>3. \A a \in AgentKeys : AgentWaited(a)
    BY <1>1, <2>1 DEF PolicyFrame
  <2>4. ThawDone /\ vault'.owner = vault.owner
    BY <1>2, <2>1 DEF PolicyFrame
  <2> HIDE DEF AgentWaited, ThawDone, TermsWaited
  <2> QED BY Zenon, <2>2, <2>3, <2>4 DEF EveryPowerWaited, AgentWaited, ThawDone, TermsWaited
<1>5. CASE accept_ownership_transfer
  <2>1. OwnerWaited /\ vault'.owner # vault.owner
    BY <1>0, <1>5, AcceptFields, PendingFields
       DEF accept_ownership_transfer, DelayInv, OfferWaits
  <2>2. \A a \in AgentKeys : AgentWaited(a)
    BY Zenon, <1>1, <1>5, AcceptFields
  <2>3. ThawDone
    BY <1>2, <1>5, AcceptFields
  <2> HIDE DEF AgentWaited, ThawDone
  <2> QED BY <2>1, <2>2, <2>3 DEF EveryPowerWaited, AgentWaited, ThawDone
<1>6. CASE close_vault
  <2>1. /\ vault'.agents = vault.agents /\ vault'.owner = vault.owner
        /\ vault'.status # "Active" /\ policy' = policy
    BY <1>0, <1>6 DEF close_vault, VaultType
  <2> HIDE DEF AgentWaited
  <2>2. \A a \in AgentKeys : AgentWaited(a)
    BY <1>1, <2>1
  <2> QED BY <2>1, <2>2 DEF EveryPowerWaited, AgentWaited
<1>7. ~ \E t \in InitialTerms, o \in BOOLEAN : initialize_vault(t, o)
  BY <1>0 DEF initialize_vault, FreshVault, SameLife
<1>8. CASE \/ \E k \in OwnerKeys : initiate_ownership_transfer(k)
           \/ cancel_ownership_transfer \/ Tick \/ UNCHANGED vars
  <2>1. vault' = vault /\ policy' = policy
    BY Zenon, <1>8 DEF initiate_ownership_transfer, cancel_ownership_transfer, Tick, vars
  <2>2. ThawDone /\ \A a \in AgentKeys : AgentWaited(a)
    BY <1>1, <1>2, <2>1
  <2> HIDE DEF AgentWaited, ThawDone
  <2> QED BY <2>1, <2>2 DEF EveryPowerWaited, AgentWaited, ThawDone
<1> QED BY Zenon, <1>3, <1>4, <1>5, <1>6, <1>7, <1>8 DEF Next, OwnershipStep

\* Terms, rights, ownership and the end of a freeze each wait out the delay
\* they are owed, whatever is queued, cancelled, applied or handed over in
\* between, and whatever timelock the vault has by then.
THEOREM TimelocksAlwaysHonored == Spec => TimelockHonored
<1>1. TypeOK /\ DelayInv /\ [Next]_vars => [EveryPowerWaited]_vars
  BY WaitedStep
<1> QED BY <1>1, DelaysKept, PTL DEF Spec, TimelockHonored

-----------------------------------------------------------------------------
(* The way to OPERATOR.                                                    *)

\* Who makes agent a an OPERATOR: a register_agent or reactivate_vault that the
\* cosigner signs, the grant, or the permissions update.
LEMMA WhoMakesOperator ==
  ASSUME TypeOK, [Next]_vars, NEW a \in AgentKeys,
         vault'.agents[a].capability = OPERATOR, vault.agents[a].capability # OPERATOR
  PROVE  \/ policy.terms.cosign_required /\ has_bound_cosigner
         \/ apply_agent_grant /\ pending_grant.agent = a
         \/ apply_agent_permissions_update(a)
<1>0. vault \in VaultType
  BY Fields
<1>1. CASE AgentStep
  <2>1. AgentChange(a)
    BY Zenon, <1>1, AgentStepEntries DEF RightsKept, HasEntry
  <2>2. ASSUME InstantGrantAllowed(OPERATOR)
        PROVE  policy.terms.cosign_required /\ has_bound_cosigner
    BY <2>2 DEF InstantGrantAllowed, operator_grant_is_instant_eligible, CosignBound
  <2>3. ASSUME NEW c \in Capabilities, NEW l \in Limits, register_agent(a, c, l),
               HasEntry(a, TRUE, c, l, FALSE)
        PROVE  policy.terms.cosign_required /\ has_bound_cosigner
    BY Zenon, <2>2, <2>3 DEF register_agent, HasEntry
  <2>4. ASSUME NEW c \in Capabilities, reactivate_vault(a, c), HasEntry(a, TRUE, c, 0, FALSE)
        PROVE  policy.terms.cosign_required /\ has_bound_cosigner
    <3>1. a # NONE
      BY VaultAssumption
    <3> QED BY Zenon, <2>2, <2>4, <3>1 DEF reactivate_vault, HasEntry
  <2>5. DISABLED # OPERATOR
    BY DEF DISABLED, OPERATOR
  <2> QED BY Zenon, <2>1, <2>3, <2>4, <2>5 DEF AgentChange, HasEntry
<1>2. ~PolicyStep
  BY PolicyStepFrame DEF PolicyFrame
<1>3. ~accept_ownership_transfer
  BY AcceptFields
<1>4. ~close_vault
  BY <1>0 DEF close_vault, VaultType
<1>5. ~ \E t \in InitialTerms, o \in BOOLEAN : initialize_vault(t, o)
  <2>1. ASSUME NEW t \in InitialTerms, NEW o \in BOOLEAN, initialize_vault(t, o)
        PROVE  FALSE
    <3>1. vault'.agents[a] = NotAnAgent
      BY Zenon, <2>1 DEF initialize_vault, FreshVault
    <3> QED BY <3>1, NewEntries DEF DISABLED, OPERATOR
  <2> QED BY Zenon, <2>1
<1>6. /\ ~ \E k \in OwnerKeys : initiate_ownership_transfer(k)
      /\ ~cancel_ownership_transfer /\ ~Tick /\ ~UNCHANGED vars
  BY Zenon DEF initiate_ownership_transfer, cancel_ownership_transfer, Tick, vars
<1> QED BY Zenon, <1>1, <1>2, <1>3, <1>4, <1>5, <1>6 DEF Next, OwnershipStep

\* Whichever of the ways to OPERATOR an agent takes, the owner's key alone is
\* not enough to take it at once, for every floor, timelock and configured
\* grant delay.
THEOREM OperatorsNeverInstant == Spec => OperatorNeverInstant
<1>1. TypeOK /\ DelayInv /\ [Next]_vars => [NewOperatorWaited]_vars
  <2> SUFFICES ASSUME TypeOK, DelayInv, [Next]_vars, NEW a \in AgentKeys,
                      vault'.agents[a].capability = OPERATOR,
                      vault.agents[a].capability # OPERATOR
               PROVE  \/ policy.terms.cosign_required /\ has_bound_cosigner
                      \/ /\ pending_grant # NONE /\ pending_grant.agent = a
                         /\ \/ pending_grant.cosigner \in Willing
                            \/ now >= pending_grant.queued_at + SingleKeyFloor
                      \/ /\ pending_perms[a] # NONE
                         /\ now >= pending_perms[a].queued_at + SingleKeyFloor
    BY Zenon DEF NewOperatorWaited
  <2>0. /\ now \in Nat /\ SingleKeyFloor \in Nat /\ MinTimelock \in Nat
        /\ SingleKeyFloor <= MinTimelock
    BY Zenon, VaultAssumption DEF TypeOK
  <2>1. CASE apply_agent_grant /\ pending_grant.agent = a
    <3>1. /\ pending_grant # NONE
          /\ now - pending_grant.queued_at >= pending_grant.min_delay_seconds
      BY Zenon, <2>1 DEF apply_agent_grant
    <3>2. pending_grant.queued_at \in Nat /\ pending_grant.min_delay_seconds \in Nat
      BY Zenon, <3>1, PendingFields
    <3>3. \/ pending_grant.cosigner \in Willing
          \/ pending_grant.min_delay_seconds >= SingleKeyFloor
      BY Zenon, <3>1 DEF DelayInv, GrantWaits
    <3>4. \/ pending_grant.cosigner \in Willing
          \/ now >= pending_grant.queued_at + SingleKeyFloor
      BY <2>0, <3>1, <3>2, <3>3
    <3> QED BY Zenon, <2>1, <3>1, <3>4
  <2>2. CASE apply_agent_permissions_update(a)
    <3>1. /\ pending_perms[a] # NONE /\ pending_perms[a].queued_at \in Nat
          /\ now >= pending_perms[a].queued_at + MinTimelock
      BY <2>2, PermsMature
    <3>2. now >= pending_perms[a].queued_at + SingleKeyFloor
      BY <2>0, <3>1
    <3> QED BY Zenon, <3>1, <3>2
  <2> QED BY Zenon, <2>1, <2>2, WhoMakesOperator
<1> QED BY <1>1, DelaysKept, PTL DEF Spec, OperatorNeverInstant

-----------------------------------------------------------------------------
(* New destinations.                                                       *)

\* What applying an update makes of the graylist: whatever it allows anew is
\* locked from now on.
LEMMA ApplyGraylist ==
  ASSUME TypeOK, apply_pending_policy, NEW d \in Destinations
  PROVE  policy'.destination_graylist[d] =
           IF d \in policy'.terms.allowed_destinations \ policy.terms.allowed_destinations
             THEN IF AutoPromote THEN now ELSE now + Friction
             ELSE policy.destination_graylist[d]
<1> DEFINE t == Merge(policy.terms, pending_policy.update)
           P(g) == [policy EXCEPT !.terms = t, !.destination_graylist = g,
                                  !.has_pending_policy = FALSE]
<1>0. vault \in VaultType /\ policy \in PolicyType /\ policy.terms \in TermsType /\ now \in Nat
  BY Fields
<1>1. PICK g \in EnterGraylist(policy.destination_graylist,
                               policy.terms.allowed_destinations, t.allowed_destinations) :
        Publish(vault, P(g))
  BY Zenon DEF apply_pending_policy
<1>2. t \in TermsType
  BY <1>0, MergeTyped DEF apply_pending_policy, PolicyDue, TypeOK, PendingPolicyUpdate
<1> HIDE DEF t
<1>3. g \in [Destinations -> Nat \cup {NONE}]
  BY <1>0, GraylistTyped DEF PolicyType
<1>4. P(g) \in PolicyType /\ P(g).terms = t /\ P(g).destination_graylist = g
  BY Zenon, <1>0, <1>2, <1>3 DEF PolicyType
<1> HIDE DEF P
<1>5. policy'.terms = t /\ policy'.destination_graylist = g
  BY Zenon, <1>1, <1>4, PublishFields
<1>6. g[d] = IF d \in t.allowed_destinations \ policy.terms.allowed_destinations
               THEN IF AutoPromote THEN now ELSE now + Friction
               ELSE policy.destination_graylist[d]
  BY DEF EnterGraylist
<1> QED BY <1>5, <1>6

LEMMA DestinationStep ==
  ASSUME TypeOK, [Next]_vars
  PROVE  NoNewlyPayable
<1> SUFFICES ASSUME SameLife, ~AutoPromote, Friction > 0, NEW d \in Destinations,
                    Payable(policy', now', d), ~Payable(policy, now, d)
             PROVE  d \in policy.terms.allowed_destinations /\ policy'.terms = policy.terms
  BY DEF NoNewlyPayable
<1>0. now \in Nat /\ Friction \in Nat /\ vault.life \in Nat /\ policy.terms \in TermsType
  BY Zenon, Fields, VaultAssumption
<1>1. CASE policy'.terms = policy.terms
  BY <1>1 DEF Payable
<1>2. ~apply_pending_policy
  <2> SUFFICES ASSUME apply_pending_policy PROVE FALSE
    OBVIOUS
  <2>1. now' = now
    BY DEF apply_pending_policy, clock
  <2>2. CASE d \in policy.terms.allowed_destinations
    BY <2>1, <2>2, ApplyGraylist DEF Payable
  <2>3. CASE d \notin policy.terms.allowed_destinations
    <3>1. policy'.destination_graylist[d] = now + Friction
      BY <2>3, ApplyGraylist DEF Payable
    <3>2. now + Friction # NONE /\ ~(now >= now + Friction)
      BY <1>0, VaultAssumption
    <3> QED BY <2>1, <3>1, <3>2 DEF Payable
  <2> QED BY <2>2, <2>3
<1>3. ~accept_ownership_transfer
  <2> SUFFICES ASSUME accept_ownership_transfer PROVE FALSE
    OBVIOUS
  <2>1. /\ policy'.terms.allowed_destinations = policy.terms.allowed_destinations
        /\ policy'.destination_graylist = policy.destination_graylist
    BY Zenon, <1>0, AcceptFields DEF TermsFor, TermsType
  <2>2. now' = now
    BY DEF accept_ownership_transfer, clock
  <2> QED BY <2>1, <2>2 DEF Payable
<1>4. ~ \E t \in InitialTerms, o \in BOOLEAN : initialize_vault(t, o)
  BY <1>0 DEF initialize_vault, FreshVault, SameLife
<1> QED BY Zenon, <1>1, <1>2, <1>3, <1>4, TermsMoves

\* No update makes a destination payable by being applied, whatever the
\* destination's history on the allowlist and the graylist; every other
\* instruction leaves what is allowed alone.
THEOREM DestinationsAlwaysWait == Spec => NewDestinationWaits
<1>1. TypeOK /\ [Next]_vars => [NoNewlyPayable]_vars
  BY DestinationStep
<1> QED BY <1>1, TypeCorrect, PTL DEF Spec, NewDestinationWaits

-----------------------------------------------------------------------------
(* The cosigner.                                                           *)

\* A pending update that names no cosigner needs none under the live terms,
\* and one that is approved at the live version was approved by the cosigner
\* that is bound now.
CosignInv ==
  pending_policy # NONE =>
    /\ pending_policy.queued_policy_version <= policy.policy_version
    /\ pending_policy.cosign_session = NoKey =>
         ~is_elevated(policy.terms, pending_policy.update)
    /\ /\ pending_policy.cosign_approved
       /\ pending_policy.queued_policy_version = policy.policy_version
       => has_bound_cosigner

\* The version counts up by one at most while the vault lives.
LEMMA VersionMoves ==
  ASSUME TypeOK, [Next]_vars
  PROVE  \/ policy'.policy_version \in {policy.policy_version, policy.policy_version + 1}
         \/ \E t \in InitialTerms, o \in BOOLEAN : initialize_vault(t, o)
<1>0. policy \in PolicyType
  BY Fields
<1>1. ASSUME NEW v, NEW p \in PolicyType, Publish(v, p),
             p.policy_version = policy.policy_version
      PROVE  policy'.policy_version = policy.policy_version + 1
  BY Zenon, <1>1, PublishFields
<1>2. CASE AgentStep
  <2>1. \/ \E v : Publish(v, policy) \/ BumpVersion(v)
        \/ UNCHANGED policy
    BY Zenon, <1>2 DEF AgentStep, register_agent, revoke_agent, queue_agent_grant,
         queue_agent_permissions_update, apply_agent_permissions_update,
         cancel_agent_permissions_update, pause_agent, unpause_agent, record_agent_violation,
         validate_and_authorize, reactivate_vault, apply_agent_grant, cancel_agent_grant,
         freeze_vault
  <2>2. ASSUME NEW v, BumpVersion(v)
        PROVE  policy'.policy_version = policy.policy_version + 1
    BY <1>0, <2>2 DEF BumpVersion, PolicyType
  <2> QED BY Zenon, <1>0, <1>1, <2>1, <2>2
<1>3. CASE PolicyStep
  <2>1. CASE apply_pending_policy
    BY <2>1, ApplyFields
  <2>2. ASSUME NEW on \in BOOLEAN, set_observe_only(on)
        PROVE  policy'.policy_version = policy.policy_version + 1
    BY <1>0, <1>1, <2>2 DEF set_observe_only
  <2>3. \A b \in BOOLEAN : /\ [policy EXCEPT !.has_post_assertions = b] \in PolicyType
                           /\ [policy EXCEPT !.has_post_assertions = b].policy_version
                                = policy.policy_version
    BY <1>0 DEF PolicyType
  <2>4. CASE create_post_assertions \/ close_post_assertions
    BY Zenon, <1>1, <2>3, <2>4 DEF create_post_assertions, close_post_assertions
  <2>5. CASE \/ \E u \in Updates : queue_policy_update(u)
             \/ approve_pending_policy \/ cancel_pending_policy
             \/ \E d \in Destinations : promote_graylist_destination(d)
    BY <1>0, <2>5 DEF queue_policy_update, approve_pending_policy, cancel_pending_policy,
                      promote_graylist_destination, PolicyType
  <2> QED BY Zenon, <1>3, <2>1, <2>2, <2>4, <2>5 DEF PolicyStep
<1>4. CASE accept_ownership_transfer
  BY <1>4, AcceptFields
<1>5. CASE \/ \E k \in OwnerKeys : initiate_ownership_transfer(k)
           \/ cancel_ownership_transfer \/ close_vault \/ Tick \/ UNCHANGED vars
  BY <1>5 DEF initiate_ownership_transfer, cancel_ownership_transfer, close_vault, Tick, vars
<1> QED BY Zenon, <1>2, <1>3, <1>4, <1>5 DEF Next, OwnershipStep

LEMMA CosignInvStep ==
  ASSUME TypeOK, TypeOK', ClosedIsDrained, CosignInv, [Next]_vars
  PROVE  CosignInv'
<1>0. /\ policy \in PolicyType /\ policy.terms \in TermsType /\ policy.policy_version \in Nat
      /\ vault.life \in Nat
  BY Fields
<1>1. ASSUME NEW u \in Updates, queue_policy_update(u)
      PROVE  CosignInv'
  <2>1. policy'.terms = policy.terms /\ policy'.policy_version = policy.policy_version
    BY <1>0, <1>1 DEF queue_policy_update, PolicyType
  <2>2. /\ pending_policy'.queued_policy_version = policy.policy_version
        /\ pending_policy'.update = u /\ pending_policy'.cosign_approved = FALSE
        /\ is_elevated(policy.terms, u) => pending_policy'.cosign_session # NoKey
    BY <1>1 DEF queue_policy_update
  <2>3. pending_policy'.queued_policy_version <= policy'.policy_version
    BY <1>0, <2>1, <2>2
  <2> QED BY Zenon, <2>1, <2>2, <2>3 DEF CosignInv
<1>2. CASE approve_pending_policy
  <2>1. /\ pending_policy'.queued_policy_version = pending_policy.queued_policy_version
        /\ pending_policy'.update = pending_policy.update
        /\ pending_policy'.cosign_session = pending_policy.cosign_session
        /\ pending_policy # NONE /\ UNCHANGED policy /\ has_bound_cosigner
    BY <1>2, ApprovedTyped DEF approve_pending_policy, PendingPolicyUpdate
  <2> QED BY <2>1 DEF CosignInv, has_bound_cosigner
<1>3. CASE pending_policy' = pending_policy /\ pending_policy # NONE
  <2>1. ~apply_pending_policy
    BY Zenon, <1>3 DEF apply_pending_policy
  <2>2. \A t \in InitialTerms, o \in BOOLEAN : ~initialize_vault(t, o)
    BY <1>3 DEF initialize_vault, ClosedIsDrained
  <2>3. /\ pending_policy.queued_policy_version \in Nat
        /\ policy'.policy_version \in {policy.policy_version, policy.policy_version + 1}
    BY Zenon, <1>3, <2>2, VersionMoves DEF TypeOK, PendingPolicyUpdate
  <2>4. CASE policy'.terms = policy.terms
    BY <1>0, <1>3, <2>3, <2>4 DEF CosignInv, has_bound_cosigner
  <2>5. CASE /\ accept_ownership_transfer
             /\ policy'.terms = TermsFor(pending_owner.new_owner, policy.terms)
    <3>1. policy'.terms = policy.terms \/ policy'.terms.cosign_required = FALSE
      BY <1>0, <2>5 DEF TermsFor, TermsType
    <3>2. policy'.policy_version = policy.policy_version + 1
      BY <2>5, AcceptFields
    <3>3. \A u : is_elevated(policy'.terms, u) => policy'.terms.cosign_required
      BY DEF is_elevated
    <3> QED BY <1>0, <1>3, <2>3, <3>1, <3>2, <3>3 DEF CosignInv
  <2> QED BY <2>1, <2>2, <2>4, <2>5, TermsMoves
<1>4. CASE pending_policy' = NONE
  BY <1>4 DEF CosignInv
<1> QED BY <1>1, <1>2, <1>3, <1>4, UpdateMoves

\* Terms with a cosigner are not looser than themselves.
LEMMA SameNotLooser ==
  ASSUME NEW t \in TermsType, t.cosign_required
  PROVE  ~Looser(t, t)
BY DEF Looser, TermsType

\* What queue_policy_update finds not elevated loosens nothing.
LEMMA NotElevatedNotLooser ==
  ASSUME NEW t \in TermsType, NEW u \in UpdateType, t.cosign_required, ~is_elevated(t, u)
  PROVE  ~Looser(t, Merge(t, u))
<1> DEFINE s == Merge(t, u)
<1>0. /\ ~Weakens(t, u) /\ u.cosign_required # FALSE
      /\ u.cosign_session_pubkey = NONE \/ u.cosign_session_pubkey = t.cosign_session_pubkey
  BY Zenon DEF is_elevated
<1>a. /\ t.daily_spending_cap_usd \in Nat /\ t.stable_balance_floor \in Nat
      /\ t.per_recipient_daily_cap_usd \in Nat
      /\ u.daily_spending_cap_usd \in Nat \cup {NONE} /\ u.stable_balance_floor \in Nat \cup {NONE}
      /\ u.per_recipient_daily_cap_usd \in Nat \cup {NONE}
  BY DEF TermsType, UpdateType
<1>b. /\ s.daily_spending_cap_usd = Or(u.daily_spending_cap_usd, t.daily_spending_cap_usd)
      /\ s.stable_balance_floor = Or(u.stable_balance_floor, t.stable_balance_floor)
      /\ s.per_recipient_daily_cap_usd
           = Or(u.per_recipient_daily_cap_usd, t.per_recipient_daily_cap_usd)
  BY Zenon DEF Merge
<1>1. ~(s.daily_spending_cap_usd > t.daily_spending_cap_usd)
  <2>1. u.daily_spending_cap_usd = NONE
        \/ ~(u.daily_spending_cap_usd > t.daily_spending_cap_usd)
    BY Zenon, <1>0 DEF Weakens
  <2> QED BY <1>a, <1>b, <2>1 DEF Or
<1>2. ~(s.stable_balance_floor < t.stable_balance_floor)
  <2>1. u.stable_balance_floor = NONE \/ ~(u.stable_balance_floor < t.stable_balance_floor)
    BY Zenon, <1>0 DEF Weakens
  <2> QED BY <1>a, <1>b, <2>1 DEF Or
<1>3. t.per_recipient_daily_cap_usd # 0 =>
        s.per_recipient_daily_cap_usd \in 1 .. t.per_recipient_daily_cap_usd
  <2>1. \/ u.per_recipient_daily_cap_usd = NONE
        \/ ~weakens_per_recipient_cap(u.per_recipient_daily_cap_usd,
                                      t.per_recipient_daily_cap_usd)
    BY Zenon, <1>0 DEF Weakens
  <2> QED BY <1>a, <1>b, <2>1 DEF Or, weakens_per_recipient_cap
<1>4. s.allowed_destinations \subseteq t.allowed_destinations /\ s.protocols \subseteq t.protocols
  <2>1. /\ \/ u.allowed_destinations = NONE
           \/ u.allowed_destinations \subseteq t.allowed_destinations
        /\ u.protocols = NONE \/ u.protocols \subseteq t.protocols
    BY Zenon, <1>0 DEF Weakens
  <2>2. /\ s.allowed_destinations = Or(u.allowed_destinations, t.allowed_destinations)
        /\ s.protocols = Or(u.protocols, t.protocols)
    BY Zenon DEF Merge
  <2> QED BY <2>1, <2>2 DEF Or
<1>5. s.cosign_required /\ s.cosign_session_pubkey = t.cosign_session_pubkey
  BY Zenon, <1>0, VaultAssumption DEF Merge, Or, UpdateType
<1> HIDE DEF s
<1> QED BY Zenon, <1>1, <1>2, <1>3, <1>4, <1>5 DEF Looser, s

\* Without a countersignature no agent gains anything on such a vault.
LEMMA NoGainUncosigned ==
  ASSUME TypeOK, AgentStep, NEW a \in AgentKeys, ~CosignGate
  PROVE  ~Gains(a)
<1>1. CASE RightsKept(a)
  BY <1>1, KeptGainsNothing
<1>2. CASE AgentChange(a)
  <2>1. ~ \E c : InstantGrantAllowed(c)
    BY Zenon DEF InstantGrantAllowed, CosignGate
  <2>2. Loses(a)
    BY Zenon, <1>2, <2>1 DEF AgentChange, Loses, register_agent, apply_agent_permissions_update,
                      unpause_agent, reactivate_vault, apply_agent_grant
  <2> QED BY <2>2, LosingGainsNothing
<1> QED BY <1>1, <1>2, AgentStepEntries

LEMMA RatchetStep ==
  ASSUME TypeOK, PolicyWellFormed, CosignInv, [Next]_vars
  PROVE  NothingGivenBack
<1> DEFINE Kept == /\ \A a \in AgentKeys : ~Gains(a)
                   /\ vault.status = "Frozen" => vault'.status = "Frozen"
                   /\ vault'.status # "Closed" \/ vault.status = "Closed"
                   /\ vault.observe_only => vault'.observe_only
                   /\ policy.has_post_assertions => policy'.has_post_assertions
           NewOwner == /\ vault.owner # vault'.owner
                       /\ vault'.owner = policy.terms.cosign_session_pubkey
<1> SUFFICES ASSUME policy.terms.cosign_required, ~has_bound_cosigner, SameLife
             PROVE  (Looser(policy.terms, policy'.terms) => NewOwner) /\ Kept
  BY Zenon DEF NothingGivenBack
<1>0. /\ vault \in VaultType /\ policy \in PolicyType /\ policy.terms \in TermsType
      /\ vault.life \in Nat /\ ~CosignGate
  BY Fields DEF CosignGate
<1>1. Looser(policy.terms, policy'.terms) => NewOwner
  <2>1. CASE policy'.terms = policy.terms
    BY Zenon, <1>0, <2>1, SameNotLooser
  <2>2. CASE apply_pending_policy
    <3>1. pending_policy # NONE /\ pending_policy.cosign_session = NoKey
      BY <2>2 DEF apply_pending_policy, PolicyDue, CosignInv
    <3>2. ~is_elevated(policy.terms, pending_policy.update)
      BY <3>1 DEF CosignInv
    <3>3. pending_policy.update \in UpdateType
      BY <3>1, PendingFields
    <3>4. policy'.terms = Merge(policy.terms, pending_policy.update)
      BY <2>2, ApplyFields
    <3> QED BY Zenon, <1>0, <3>2, <3>3, <3>4, NotElevatedNotLooser
  <2>3. CASE /\ accept_ownership_transfer
             /\ policy'.terms = TermsFor(pending_owner.new_owner, policy.terms)
    <3>1. vault'.owner = pending_owner.new_owner
      BY Zenon, <2>3, AcceptFields
    <3>2. CASE policy.terms.cosign_session_pubkey = pending_owner.new_owner
      BY <3>1, <3>2 DEF PolicyWellFormed
    <3>3. CASE policy.terms.cosign_session_pubkey # pending_owner.new_owner
      BY <2>1, <2>3, <3>3 DEF TermsFor
    <3> QED BY Zenon, <3>2, <3>3
  <2>4. ~ \E t \in InitialTerms, o \in BOOLEAN : initialize_vault(t, o)
    BY <1>0 DEF initialize_vault, FreshVault, SameLife
  <2> QED BY Zenon, <2>1, <2>2, <2>3, <2>4, TermsMoves
<1>2. ASSUME vault'.agents = vault.agents
      PROVE  \A a \in AgentKeys : ~Gains(a)
  BY <1>2, KeptGainsNothing DEF RightsKept, HasEntry
<1>3. Kept
  <2>1. CASE AgentStep
    <3>1. \A a \in AgentKeys : ~Gains(a)
      BY <1>0, <2>1, NoGainUncosigned
    <3>2. /\ vault'.observe_only = vault.observe_only /\ vault'.status # "Closed"
          /\ policy'.has_post_assertions = policy.has_post_assertions
      BY <2>1, AgentStepFrame DEF AgentFrame, PolicyKept
    <3>3. vault.status = "Frozen" => vault'.status = "Frozen"
      BY <1>0, <2>1, AgentStepStatus
    <3> QED BY <3>1, <3>2, <3>3
  <2>2. CASE PolicyStep
    <3>1. vault'.agents = vault.agents /\ vault'.status = vault.status
      BY <2>2, PolicyStepFrame DEF PolicyFrame
    <3>2. ASSUME NEW on \in BOOLEAN, set_observe_only(on)
          PROVE  vault'.observe_only /\ policy'.has_post_assertions = policy.has_post_assertions
      <4>1. on = TRUE /\ Publish([vault EXCEPT !.observe_only = on], policy)
        BY <1>0, <3>2 DEF set_observe_only
      <4> QED BY <1>0, <4>1, PublishFields DEF VaultType
    <3>3. ASSUME create_post_assertions
          PROVE  vault' = vault /\ policy'.has_post_assertions
      <4>1. /\ [policy EXCEPT !.has_post_assertions = TRUE] \in PolicyType
            /\ [policy EXCEPT !.has_post_assertions = TRUE].has_post_assertions
        BY Zenon, <1>0 DEF PolicyType
      <4> QED BY Zenon, <3>3, <4>1, PublishFields DEF create_post_assertions
    <3>4. ~close_post_assertions
      BY <1>0 DEF close_post_assertions
    <3>5. ASSUME apply_pending_policy
          PROVE  vault' = vault /\ policy'.has_post_assertions = policy.has_post_assertions
      BY <3>5, ApplyFields
    <3>6. ASSUME \/ \E u \in Updates : queue_policy_update(u)
                 \/ approve_pending_policy \/ cancel_pending_policy
                 \/ \E d \in Destinations : promote_graylist_destination(d)
          PROVE  vault' = vault /\ policy'.has_post_assertions = policy.has_post_assertions
      BY <1>0, <3>6 DEF queue_policy_update, approve_pending_policy, cancel_pending_policy,
                        promote_graylist_destination, PolicyType
    <3>7. /\ vault.observe_only => vault'.observe_only
          /\ policy.has_post_assertions => policy'.has_post_assertions
      BY Zenon, <2>2, <3>2, <3>3, <3>4, <3>5, <3>6 DEF PolicyStep
    <3> QED BY <1>2, <3>1, <3>7
  <2>3. CASE accept_ownership_transfer
    BY Zenon, <1>2, <2>3, AcceptFields
  <2>4. ~close_vault
    BY <1>0 DEF close_vault
  <2>5. ~ \E t \in InitialTerms, o \in BOOLEAN : initialize_vault(t, o)
    BY <1>0 DEF initialize_vault, FreshVault, SameLife
  <2>6. CASE \/ \E k \in OwnerKeys : initiate_ownership_transfer(k)
             \/ cancel_ownership_transfer \/ Tick \/ UNCHANGED vars
    <3>1. vault' = vault /\ policy' = policy
      BY Zenon, <2>6 DEF initiate_ownership_transfer, cancel_ownership_transfer, Tick, vars
    <3> QED BY <1>2, <3>1
  <2> QED BY Zenon, <2>1, <2>2, <2>3, <2>4, <2>5, <2>6 DEF Next, OwnershipStep
<1> QED BY Zenon, <1>1, <1>3

\* Once a cosigner is required, no sequence of instructions that it does not
\* sign gives anything back, for every set of keys, terms and updates: neither
\* an update queued before the cosigner was bound, nor one approved by a
\* cosigner since replaced.
THEOREM CosignAlwaysRatchets == Spec => CosignRatchet
<1>1. Init => CosignInv
  BY DEF Init, CosignInv
<1>2. TypeOK /\ TypeOK' /\ ClosedIsDrained /\ CosignInv /\ [Next]_vars => CosignInv'
  BY CosignInvStep
<1>3. TypeOK /\ PolicyWellFormed /\ CosignInv /\ [Next]_vars => [NothingGivenBack]_vars
  BY RatchetStep
<1> QED BY <1>1, <1>2, <1>3, WellFormedAlways, PTL DEF Spec, CosignRatchet

=============================================================================
