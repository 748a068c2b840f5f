-------------------------- MODULE VaultAdminProofs --------------------------
(***************************************************************************)
(* Theorems about the administration of one vault, for every set of keys,  *)
(* agents, destinations, updates and delays that satisfies the assumptions *)
(* of VaultState.                                                          *)
(***************************************************************************)
EXTENDS VaultAdmin, TLAPS

-----------------------------------------------------------------------------
(* Types of the helpers.                                                   *)

\* A digest of well-typed accounts is a well-typed digest.
LEMMA DigestTyped ==
  ASSUME NEW v \in VaultType, NEW p \in PolicyType
  PROVE  compute_policy_preview_digest(v, p) \in DigestType
<1>1. compute_agent_set_hash(v) \in [AgentKeys -> (DISABLED .. OPERATOR) \cup {NONE}]
  <2>1. v.agents \in [AgentKeys -> AgentEntry]
    BY DEF VaultType
  <2>2. \A a \in AgentKeys : v.agents[a].capability \in DISABLED .. OPERATOR
    BY <2>1 DEF AgentEntry
  <2> QED BY <2>2 DEF compute_agent_set_hash
<1>2. p.terms \in TermsType /\ p.has_post_assertions \in BOOLEAN /\ v.observe_only \in BOOLEAN
  BY DEF VaultType, PolicyType
<1> QED BY <1>1, <1>2 DEF compute_policy_preview_digest, DigestType

\* Publish stores the vault it is given and a well-typed policy whose version
\* is in range.
LEMMA PublishTyped ==
  ASSUME NEW v \in VaultType, NEW p \in PolicyType, Publish(v, p)
  PROVE  /\ vault' \in VaultType
         /\ policy' \in PolicyType /\ policy'.policy_version <= MaxVersion
<1>1. compute_policy_preview_digest(v, p) \in DigestType
  BY DigestTyped
<1>2. p.policy_version \in Nat /\ MaxVersion \in Nat /\ p.policy_version < MaxVersion
  BY VaultAssumption DEF PolicyType, Publish
<1>3. p.policy_version + 1 \in Nat /\ p.policy_version + 1 <= MaxVersion
  BY <1>2
<1>4. vault' = v
  BY DEF Publish
<1>5. policy' = [p EXCEPT !.policy_version = p.policy_version + 1,
                          !.policy_preview_digest = compute_policy_preview_digest(v, p)]
  BY DEF Publish
<1>6. policy' \in PolicyType /\ policy'.policy_version = p.policy_version + 1
  BY Zenon, <1>1, <1>3, <1>5 DEF PolicyType
<1> QED BY <1>3, <1>4, <1>6

LEMMA PutTyped ==
  ASSUME NEW v \in VaultType, NEW a \in AgentKeys, NEW e \in AgentEntry
  PROVE  Put(v, a, e) \in VaultType
BY DEF Put, VaultType

LEMMA EntriesTyped ==
  /\ NotAnAgent \in AgentEntry
  /\ \A c \in DISABLED .. OPERATOR, l \in Nat : NewAgent(c, l) \in AgentEntry
BY DEF NotAnAgent, NewAgent, AgentEntry, DISABLED, OPERATOR

LEMMA FreezeTyped ==
  ASSUME NEW v \in VaultType, now \in Nat
  PROVE  freeze_internal(v) \in VaultType
BY Zenon DEF freeze_internal, VaultType

\* A slot claimed or kept leaves every other slot alone.
LEMMA WithSlotTyped ==
  ASSUME NEW ov \in [AgentKeys -> Nat \cup {NONE}], NEW a \in AgentKeys, NEW limit \in Nat,
         NEW x \in WithSlot(ov, a, limit)
  PROVE  x \in [AgentKeys -> Nat \cup {NONE}]
BY DEF WithSlot

LEMMA MergeTyped ==
  ASSUME NEW t \in TermsType, NEW u \in UpdateType
  PROVE  Merge(t, u) \in TermsType
BY DEF Merge, Or, TermsType, UpdateType

LEMMA OverlayAfterPermsTyped ==
  ASSUME NEW ov \in [AgentKeys -> Nat \cup {NONE}], NEW a \in AgentKeys, NEW l \in Nat,
         NEW p \in PermsType, NEW x \in OverlayAfterPerms(ov, a, l, p)
  PROVE  x \in [AgentKeys -> Nat \cup {NONE}]
BY DEF OverlayAfterPerms, PermsType

LEMMA DelayTyped ==
  ASSUME policy \in PolicyType
  PROVE  effective_operator_grant_delay \in Nat
BY VaultAssumption DEF PolicyType, TermsType, effective_operator_grant_delay

-----------------------------------------------------------------------------
(* Every step preserves the types.                                         *)

\* The agents' instructions keep every account well typed.
LEMMA AgentStepTyped == TypeOK /\ AgentStep => TypeOK'
<1> SUFFICES ASSUME TypeOK, AgentStep PROVE TypeOK'
  OBVIOUS
<1>0. /\ vault \in VaultType /\ policy \in PolicyType /\ policy.policy_version <= MaxVersion
      /\ overlay \in [AgentKeys -> Nat \cup {NONE}]
      /\ pending_perms \in [AgentKeys -> PendingAgentPermissionsUpdate \cup {NONE}]
      /\ vault.agents \in [AgentKeys -> AgentEntry] /\ now \in Nat /\ slot \in Nat
  BY DEF TypeOK, VaultType
<1>1. ASSUME NEW a \in AgentKeys, NEW c \in Capabilities, NEW l \in Limits,
             register_agent(a, c, l)
      PROVE  TypeOK'
  <2>1. c \in DISABLED .. OPERATOR /\ l \in Nat
    BY VaultAssumption
  <2>2. Put(vault, a, NewAgent(c, l)) \in VaultType
    BY <1>0, <2>1, EntriesTyped, PutTyped
  <2>3. Publish(Put(vault, a, NewAgent(c, l)), policy)
    BY <1>1 DEF register_agent
  <2>4. overlay' \in [AgentKeys -> Nat \cup {NONE}]
    BY <1>0, <1>1, <2>1, WithSlotTyped DEF register_agent
  <2>5. UNCHANGED <<pendings, clock>>
    BY <1>1 DEF register_agent
  <2> QED BY <1>0, <2>2, <2>3, <2>4, <2>5, PublishTyped DEF TypeOK, pendings, clock
<1>2. ASSUME NEW a \in AgentKeys, revoke_agent(a)
      PROVE  TypeOK'
  <2> DEFINE v == Put(vault, a, NotAnAgent)
  <2>1. v \in VaultType /\ freeze_internal(v) \in VaultType
    BY <1>0, EntriesTyped, PutTyped, FreezeTyped
  <2>2. Publish(IF Agents(vault) = {a} THEN freeze_internal(v) ELSE v, policy)
    BY <1>2 DEF revoke_agent
  <2>3. overlay' \in [AgentKeys -> Nat \cup {NONE}] /\ UNCHANGED <<pendings, clock>>
    BY <1>0, <1>2 DEF revoke_agent
  <2> HIDE DEF v
  <2>4. vault' \in VaultType /\ policy' \in PolicyType /\ policy'.policy_version <= MaxVersion
    <3>1. CASE Agents(vault) = {a}
      <4>1. Publish(freeze_internal(v), policy)
        BY <2>2, <3>1
      <4> QED BY <1>0, <2>1, <4>1, PublishTyped
    <3>2. CASE Agents(vault) # {a}
      <4>1. Publish(v, policy)
        BY <2>2, <3>2
      <4> QED BY <1>0, <2>1, <4>1, PublishTyped
    <3> QED BY <3>1, <3>2
  <2> QED BY <2>3, <2>4 DEF TypeOK, pendings, clock
<1>3. ASSUME NEW a \in AgentKeys, NEW l \in Limits, queue_agent_grant(a, l)
      PROVE  TypeOK'
  <2>1. l \in Nat /\ effective_operator_grant_delay \in Nat
    BY <1>0, VaultAssumption, DelayTyped
  <2>2. policy.terms.cosign_session_pubkey \in Keys \cup {NoKey}
    BY <1>0 DEF PolicyType, TermsType
  <2>3. pending_grant' \in PendingAgentGrant
    BY <1>0, <1>3, <2>1, <2>2 DEF queue_agent_grant, PendingAgentGrant
  <2> QED BY <1>3, <2>3 DEF queue_agent_grant, TypeOK, clock
<1>4. ASSUME NEW a \in AgentKeys, NEW p \in Perms, queue_agent_permissions_update(a, p)
      PROVE  TypeOK'
  <2>1. p \in PermsType
    BY VaultAssumption DEF PermsType
  <2>2. policy.terms.timelock_duration \in Nat
    BY <1>0 DEF PolicyType, TermsType
  <2>3. [perms |-> p, queued_at |-> now, queued_at_slot |-> slot,
         executes_at |-> now + policy.terms.timelock_duration] \in PendingAgentPermissionsUpdate
    BY <1>0, <2>1, <2>2 DEF PendingAgentPermissionsUpdate
  <2>4. pending_perms' \in [AgentKeys -> PendingAgentPermissionsUpdate \cup {NONE}]
    BY <1>0, <1>4, <2>3 DEF queue_agent_permissions_update
  <2> QED BY <1>4, <2>4 DEF queue_agent_permissions_update, TypeOK, clock
<1>5. ASSUME NEW a \in AgentKeys, apply_agent_permissions_update(a)
      PROVE  TypeOK'
  <2> DEFINE p == pending_perms[a].perms
  <2>1. p \in PermsType
    BY <1>0, <1>5 DEF apply_agent_permissions_update, PermsDue, PendingAgentPermissionsUpdate
  <2> DEFINE v == Put(vault, a, WithPerms(vault.agents[a], p))
  <2>2. v \in VaultType
    <3>1. WithPerms(vault.agents[a], p) \in AgentEntry
      BY Zenon, <1>0, <2>1 DEF PermsType, WithPerms, AgentEntry
    <3> QED BY <1>0, <3>1, PutTyped
  <2>3. Publish(v, policy)
    BY <1>5 DEF apply_agent_permissions_update
  <2>4. vault.agents[a].spending_limit_usd \in Nat
    BY <1>0 DEF AgentEntry
  <2>5. overlay' \in OverlayAfterPerms(overlay, a, vault.agents[a].spending_limit_usd, p)
    BY <1>5 DEF apply_agent_permissions_update
  <2>6. pending_perms' \in [AgentKeys -> PendingAgentPermissionsUpdate \cup {NONE}]
    BY <1>0, <1>5 DEF apply_agent_permissions_update
  <2>7. UNCHANGED <<pending_policy, pending_grant, pending_owner, now, slot>>
    BY <1>5 DEF apply_agent_permissions_update, clock
  <2> HIDE DEF v, p
  <2>8. overlay' \in [AgentKeys -> Nat \cup {NONE}]
    BY <1>0, <2>1, <2>4, <2>5, OverlayAfterPermsTyped
  <2>9. vault' \in VaultType /\ policy' \in PolicyType /\ policy'.policy_version <= MaxVersion
    BY <1>0, <2>2, <2>3, PublishTyped
  <2> QED BY <2>6, <2>7, <2>8, <2>9 DEF TypeOK
<1>6. ASSUME NEW a \in AgentKeys, cancel_agent_permissions_update(a)
      PROVE  TypeOK'
  BY <1>0, <1>6 DEF cancel_agent_permissions_update, TypeOK, clock
<1>7. ASSUME NEW v \in VaultType, BumpVersion(v), UNCHANGED <<overlay, pendings, clock>>
      PROVE  TypeOK'
  <2>1. policy' \in PolicyType /\ policy'.policy_version <= MaxVersion
    BY <1>0, <1>7, VaultAssumption DEF BumpVersion, PolicyType
  <2> QED BY <1>0, <1>7, <2>1 DEF BumpVersion, TypeOK, pendings, clock
<1>8. ASSUME NEW a \in AgentKeys, pause_agent(a) \/ unpause_agent(a)
      PROVE  TypeOK'
  <2>1. /\ [vault.agents[a] EXCEPT !.paused = TRUE] \in AgentEntry
        /\ [vault.agents[a] EXCEPT !.paused = FALSE] \in AgentEntry
    BY Zenon, <1>0 DEF AgentEntry
  <2>2. /\ Put(vault, a, [vault.agents[a] EXCEPT !.paused = TRUE]) \in VaultType
        /\ Put(vault, a, [vault.agents[a] EXCEPT !.paused = FALSE]) \in VaultType
    BY <1>0, <2>1, PutTyped
  <2> QED BY <1>7, <1>8, <2>2 DEF pause_agent, unpause_agent
<1>9. ASSUME NEW a \in AgentKeys, record_agent_violation(a)
      PROVE  TypeOK'
  <2> DEFINE failures == vault.agents[a].consecutive_failures + 1
             counted == [vault.agents[a] EXCEPT !.consecutive_failures = failures]
             tripped == [counted EXCEPT !.capability = DISABLED]
  <2>1. failures \in Nat
    BY <1>0 DEF AgentEntry
  <2>2. counted \in AgentEntry
    BY <1>0, <2>1 DEF AgentEntry
  <2>3. tripped \in AgentEntry
    <3> HIDE DEF counted
    <3> QED BY <2>2 DEF AgentEntry, DISABLED, OPERATOR
  <2>4. \/ Publish(Put(vault, a, tripped), policy)
        \/ vault' = Put(vault, a, counted) /\ UNCHANGED policy
    BY <1>9 DEF record_agent_violation
  <2>5. UNCHANGED <<overlay, pendings, clock>>
    BY <1>9 DEF record_agent_violation
  <2> HIDE DEF tripped, counted
  <2>6. vault' \in VaultType /\ policy' \in PolicyType /\ policy'.policy_version <= MaxVersion
    <3>1. CASE Publish(Put(vault, a, tripped), policy)
      BY <1>0, <2>3, <3>1, PublishTyped, PutTyped
    <3>2. CASE vault' = Put(vault, a, counted) /\ UNCHANGED policy
      BY <1>0, <2>2, <3>2, PutTyped
    <3> QED BY <2>4, <3>1, <3>2
  <2> QED BY <2>5, <2>6 DEF TypeOK, pendings, clock
<1>10. ASSUME NEW a \in AgentKeys, validate_and_authorize(a)
       PROVE  TypeOK'
  <2>1. vault' \in VaultType
    <3>1. [vault.agents[a] EXCEPT !.consecutive_failures = 0] \in AgentEntry
      BY <1>0 DEF AgentEntry
    <3> QED BY <1>0, <1>10, <3>1, PutTyped DEF validate_and_authorize
  <2> QED BY <1>10, <2>1 DEF validate_and_authorize, TypeOK, pendings, clock
<1>11. ASSUME NEW a \in AgentKeys \cup {NONE}, NEW c \in DISABLED .. OPERATOR,
              reactivate_vault(a, c)
       PROVE  TypeOK'
  <2> DEFINE v == [vault EXCEPT !.status = "Active"]
  <2>1. v \in VaultType
    BY <1>0 DEF VaultType
  <2>2. \/ Publish(v, policy)
        \/ a \in AgentKeys /\ Publish(Put(v, a, NewAgent(c, 0)), policy)
    BY <1>11 DEF reactivate_vault
  <2>3. UNCHANGED <<overlay, pendings, clock>>
    BY <1>11 DEF reactivate_vault
  <2> HIDE DEF v
  <2>4. vault' \in VaultType /\ policy' \in PolicyType /\ policy'.policy_version <= MaxVersion
    <3>1. CASE Publish(v, policy)
      BY <1>0, <2>1, <3>1, PublishTyped
    <3>2. CASE a \in AgentKeys /\ Publish(Put(v, a, NewAgent(c, 0)), policy)
      <4>1. Put(v, a, NewAgent(c, 0)) \in VaultType
        BY <2>1, <3>2, EntriesTyped, PutTyped
      <4> QED BY <1>0, <3>2, <4>1, PublishTyped
    <3> QED BY <2>2, <3>1, <3>2
  <2> QED BY <2>3, <2>4 DEF TypeOK, pendings, clock
<1>12. CASE apply_agent_grant
  <2> DEFINE a == pending_grant.agent
             l == pending_grant.spending_limit_usd
  <2>1. a \in AgentKeys /\ l \in Nat
    BY <1>12 DEF apply_agent_grant, TypeOK, PendingAgentGrant
  <2>2. Publish(Put(vault, a, NewAgent(OPERATOR, l)), policy)
    BY <1>12 DEF apply_agent_grant
  <2>3. overlay' \in WithSlot(overlay, a, l)
    BY <1>12 DEF apply_agent_grant
  <2>4. pending_grant' = NONE /\ UNCHANGED <<pending_policy, pending_perms, pending_owner, now, slot>>
    BY <1>12 DEF apply_agent_grant, clock
  <2> HIDE DEF a, l
  <2>5. OPERATOR \in DISABLED .. OPERATOR
    BY DEF DISABLED, OPERATOR
  <2>6. Put(vault, a, NewAgent(OPERATOR, l)) \in VaultType
    BY <1>0, <2>1, <2>5, EntriesTyped, PutTyped
  <2>7. overlay' \in [AgentKeys -> Nat \cup {NONE}]
    BY <1>0, <2>1, <2>3, WithSlotTyped
  <2> QED BY <1>0, <2>2, <2>4, <2>6, <2>7, PublishTyped DEF TypeOK
<1>13. CASE cancel_agent_grant
  BY <1>13 DEF cancel_agent_grant, TypeOK, clock
<1>14. CASE freeze_vault
  BY <1>0, <1>14, FreezeTyped DEF freeze_vault, TypeOK, clock
<1>15. Capabilities \subseteq DISABLED .. OPERATOR /\ DISABLED \in DISABLED .. OPERATOR
  BY VaultAssumption DEF DISABLED, OPERATOR
<1> QED
  BY <1>1, <1>2, <1>3, <1>4, <1>5, <1>6, <1>8, <1>9, <1>10, <1>11, <1>12, <1>13, <1>14, <1>15
  DEF AgentStep

LEMMA GraylistTyped ==
  ASSUME NEW gray \in [Destinations -> Nat \cup {NONE}], NEW A, NEW D, now \in Nat,
         NEW g \in EnterGraylist(gray, A, D)
  PROVE  g \in [Destinations -> Nat \cup {NONE}]
BY VaultAssumption DEF EnterGraylist

\* Queueing and approving leave a pending update behind.
LEMMA QueuedTyped ==
  ASSUME TypeOK, NEW u \in Updates, queue_policy_update(u)
  PROVE  pending_policy' \in PendingPolicyUpdate
<1> DEFINE p == [policy EXCEPT !.terms = Merge(policy.terms, u)]
<1>0. /\ vault \in VaultType /\ policy \in PolicyType /\ policy.terms \in TermsType
      /\ now \in Nat /\ slot \in Nat
  BY DEF TypeOK, PolicyType
<1>1. u \in UpdateType
  BY TermsAssumption
<1>2. Merge(policy.terms, u) \in TermsType
  BY <1>0, <1>1, MergeTyped
<1>3. p \in PolicyType
  BY <1>0, <1>2 DEF PolicyType
<1>4. PreviewDigest(u) \in DigestType
  BY <1>0, <1>3, DigestTyped DEF PreviewDigest
<1>5. /\ policy.terms.timelock_duration \in Nat /\ policy.policy_version \in Nat
      /\ policy.terms.cosign_session_pubkey \in Keys \cup {NoKey}
  BY <1>0 DEF PolicyType, TermsType
<1> QED BY <1>0, <1>1, <1>4, <1>5 DEF queue_policy_update, PendingPolicyUpdate

LEMMA ApprovedTyped ==
  ASSUME TypeOK, approve_pending_policy
  PROVE  pending_policy \in PendingPolicyUpdate /\ pending_policy' \in PendingPolicyUpdate
BY Zenon DEF approve_pending_policy, TypeOK, PendingPolicyUpdate

\* The policy instructions keep every account well typed.
LEMMA PolicyStepTyped == TypeOK /\ PolicyStep => TypeOK'
<1> SUFFICES ASSUME TypeOK, PolicyStep PROVE TypeOK'
  OBVIOUS
<1>0. /\ vault \in VaultType /\ policy \in PolicyType /\ policy.policy_version <= MaxVersion
      /\ policy.terms \in TermsType /\ now \in Nat /\ slot \in Nat
  BY DEF TypeOK, PolicyType
<1>1. ASSUME NEW u \in Updates, queue_policy_update(u)
      PROVE  TypeOK'
  <2>6. pending_policy' \in PendingPolicyUpdate
    BY <1>1, QueuedTyped
  <2>7. policy' \in PolicyType /\ policy'.policy_version = policy.policy_version
    BY Zenon, <1>0, <1>1 DEF queue_policy_update, PolicyType
  <2> QED BY <1>0, <1>1, <2>6, <2>7 DEF queue_policy_update, TypeOK, clock
<1>2. CASE approve_pending_policy
  <2>2. pending_policy' \in PendingPolicyUpdate
    BY <1>2, ApprovedTyped
  <2> QED BY <1>2, <2>2 DEF approve_pending_policy, TypeOK, clock
<1>3. CASE apply_pending_policy
  <2> DEFINE t == Merge(policy.terms, pending_policy.update)
             P(g) == [policy EXCEPT !.terms = t, !.destination_graylist = g,
                                    !.has_pending_policy = FALSE]
  <2>1. PICK g \in EnterGraylist(policy.destination_graylist,
                                 policy.terms.allowed_destinations, t.allowed_destinations) :
          Publish(vault, P(g))
    BY Zenon, <1>3 DEF apply_pending_policy
  <2>2. pending_policy.update \in UpdateType
    BY <1>3 DEF apply_pending_policy, PolicyDue, TypeOK, PendingPolicyUpdate
  <2>3. t \in TermsType
    BY <1>0, <2>2, MergeTyped
  <2>4. pending_policy' = NONE
        /\ UNCHANGED <<overlay, pending_perms, pending_grant, pending_owner, now, slot>>
    BY <1>3 DEF apply_pending_policy, clock
  <2> HIDE DEF t
  <2>5. policy.destination_graylist \in [Destinations -> Nat \cup {NONE}]
    BY <1>0 DEF PolicyType
  <2>6. g \in [Destinations -> Nat \cup {NONE}]
    BY <1>0, <2>5, GraylistTyped
  <2>7. P(g) \in PolicyType
    BY Zenon, <1>0, <2>3, <2>6 DEF PolicyType
  <2> QED BY <1>0, <2>1, <2>4, <2>7, PublishTyped DEF TypeOK
<1>4. CASE cancel_pending_policy
  BY Zenon, <1>0, <1>4 DEF cancel_pending_policy, TypeOK, clock, PolicyType
<1>5. ASSUME NEW d \in Destinations, promote_graylist_destination(d)
      PROVE  TypeOK'
  <2>1. policy.destination_graylist \in [Destinations -> Nat \cup {NONE}]
    BY <1>0 DEF PolicyType
  <2> DEFINE g == [policy.destination_graylist EXCEPT ![d] = IF @ = NONE THEN NONE ELSE now]
  <2>2. g \in [Destinations -> Nat \cup {NONE}]
    BY <1>0, <2>1
  <2>3. policy' = [policy EXCEPT !.destination_graylist = g]
    BY <1>5 DEF promote_graylist_destination
  <2> HIDE DEF g
  <2>4. policy' \in PolicyType /\ policy'.policy_version = policy.policy_version
    BY <1>0, <2>2, <2>3 DEF PolicyType
  <2> QED BY <1>0, <1>5, <2>4 DEF promote_graylist_destination, TypeOK, pendings, clock
<1>6. ASSUME NEW on \in BOOLEAN, set_observe_only(on)
      PROVE  TypeOK'
  <2>1. [vault EXCEPT !.observe_only = on] \in VaultType
    BY <1>0 DEF VaultType
  <2> QED BY <1>0, <1>6, <2>1, PublishTyped DEF set_observe_only, TypeOK, pendings, clock
<1>7. CASE create_post_assertions \/ close_post_assertions
  <2>1. \A b \in BOOLEAN : [policy EXCEPT !.has_post_assertions = b] \in PolicyType
    BY <1>0 DEF PolicyType
  <2>2. \E b \in BOOLEAN : Publish(vault, [policy EXCEPT !.has_post_assertions = b])
    BY Zenon, <1>7 DEF create_post_assertions, close_post_assertions
  <2>3. vault' \in VaultType /\ policy' \in PolicyType /\ policy'.policy_version <= MaxVersion
    BY <1>0, <2>1, <2>2, PublishTyped
  <2> QED BY <1>7, <2>3 DEF create_post_assertions, close_post_assertions, TypeOK, pendings, clock
<1> QED BY <1>1, <1>2, <1>3, <1>4, <1>5, <1>6, <1>7 DEF PolicyStep

\* initialize_vault creates well-typed accounts.
LEMMA FreshTyped ==
  ASSUME NEW t \in InitialTerms, NEW o \in BOOLEAN, NEW l \in Nat
  PROVE  FreshVault(l, o) \in VaultType /\ FreshPolicy(t, o) \in PolicyType
<1>1. t \in TermsType /\ InitialOwner \in Keys
  BY TermsAssumption, VaultAssumption
<1>2. [a \in AgentKeys |-> NotAnAgent] \in [AgentKeys -> AgentEntry]
  BY EntriesTyped
<1>3. FreshVault(l, o) \in VaultType
  BY <1>1, <1>2 DEF FreshVault, VaultType
<1>4. [terms |-> t, has_post_assertions |-> FALSE, observe_only |-> o,
       agent_set_hash |-> [a \in AgentKeys |-> NONE]] \in DigestType
  BY <1>1 DEF DigestType
<1> QED BY <1>1, <1>3, <1>4 DEF FreshPolicy, PolicyType

\* The ownership instructions keep every account well typed.
LEMMA OwnershipStepTyped == TypeOK /\ OwnershipStep => TypeOK'
<1> SUFFICES ASSUME TypeOK, OwnershipStep PROVE TypeOK'
  OBVIOUS
<1>0. /\ vault \in VaultType /\ policy \in PolicyType /\ policy.policy_version <= MaxVersion
      /\ vault.owner \in Keys /\ policy.terms \in TermsType /\ now \in Nat /\ slot \in Nat
  BY DEF TypeOK, PolicyType, VaultType
<1>1. ASSUME NEW k \in OwnerKeys, initiate_ownership_transfer(k)
      PROVE  TypeOK'
  <2>1. k \in Keys /\ OwnershipDelay \in Nat
    BY VaultAssumption
  <2>2. pending_owner' \in PendingOwnershipTransfer
    BY <1>0, <1>1, <2>1 DEF initiate_ownership_transfer, PendingOwnershipTransfer
  <2> QED BY <1>1, <2>2 DEF initiate_ownership_transfer, TypeOK, clock
<1>2. CASE accept_ownership_transfer
  <2> DEFINE k == pending_owner.new_owner
             p == [policy EXCEPT !.terms = TermsFor(k, policy.terms)]
  <2>1. k \in Keys
    BY <1>2 DEF accept_ownership_transfer, TypeOK, PendingOwnershipTransfer
  <2>2. TermsFor(k, policy.terms) \in TermsType
    BY Zenon, <1>0 DEF TermsFor, TermsType
  <2>3. [vault EXCEPT !.owner = k] \in VaultType /\ p \in PolicyType
    BY <1>0, <2>1, <2>2 DEF VaultType, PolicyType
  <2>4. Publish([vault EXCEPT !.owner = k], p)
    BY <1>2 DEF accept_ownership_transfer
  <2>5. pending_owner' = NONE
        /\ UNCHANGED <<overlay, pending_policy, pending_perms, pending_grant, now, slot>>
    BY <1>2 DEF accept_ownership_transfer, clock
  <2> QED BY <2>3, <2>4, <2>5, PublishTyped DEF TypeOK
<1>3. CASE cancel_ownership_transfer
  BY <1>3 DEF cancel_ownership_transfer, TypeOK, clock
<1>4. CASE close_vault
  <2>1. vault' \in VaultType
    BY <1>0, <1>4 DEF close_vault, VaultType
  <2>2. pending_perms' \in [AgentKeys -> PendingAgentPermissionsUpdate \cup {NONE}]
    BY <1>4 DEF close_vault, TypeOK
  <2> QED BY <1>4, <2>1, <2>2 DEF close_vault, TypeOK, clock
<1>5. ASSUME NEW t \in InitialTerms, NEW o \in BOOLEAN, initialize_vault(t, o)
      PROVE  TypeOK'
  <2>1. vault.life + 1 \in Nat
    BY <1>0 DEF VaultType
  <2>2. vault' \in VaultType /\ policy' \in PolicyType
    BY <1>5, <2>1, FreshTyped DEF initialize_vault
  <2>3. policy'.policy_version = 0 /\ MaxVersion \in Nat
    BY <1>5, VaultAssumption DEF initialize_vault, FreshPolicy
  <2> QED BY <1>5, <2>2, <2>3 DEF initialize_vault, TypeOK, pendings, clock
<1> QED BY <1>1, <1>2, <1>3, <1>4, <1>5 DEF OwnershipStep

\* Type correctness of every account under any order of the instructions.
THEOREM TypeCorrect == Spec => []TypeOK
<1>1. Init => TypeOK
  <2> SUFFICES ASSUME Init PROVE TypeOK
    OBVIOUS
  <2>1. PICK t \in InitialTerms, o \in BOOLEAN :
          vault = FreshVault(1, o) /\ policy = FreshPolicy(t, o)
    BY DEF Init
  <2>2. vault \in VaultType /\ policy \in PolicyType
    BY <2>1, FreshTyped
  <2>3. policy.policy_version = 0 /\ MaxVersion \in Nat
    BY <2>1, VaultAssumption DEF FreshPolicy
  <2> QED BY <2>2, <2>3 DEF Init, TypeOK
<1>2. TypeOK /\ [Next]_vars => TypeOK'
  <2> SUFFICES ASSUME TypeOK, [Next]_vars PROVE TypeOK'
    OBVIOUS
  <2>1. CASE Tick
    <3>1. now' \in Nat /\ slot' \in Nat
      BY <2>1, VaultAssumption DEF Tick, TypeOK
    <3> QED BY <2>1, <3>1 DEF Tick, TypeOK, pendings
  <2>2. CASE UNCHANGED vars
    BY <2>2 DEF vars, TypeOK
  <2> QED BY <2>1, <2>2, AgentStepTyped, PolicyStepTyped, OwnershipStepTyped DEF Next
<1> QED BY <1>1, <1>2, PTL DEF Spec

-----------------------------------------------------------------------------
(* The published digest.                                                   *)

\* Publish changes only the version and the digest of the policy it is given.
LEMMA PublishFields ==
  ASSUME NEW v, NEW p \in PolicyType, Publish(v, p)
  PROVE  /\ vault' = v
         /\ policy'.terms = p.terms
         /\ policy'.has_post_assertions = p.has_post_assertions
         /\ policy'.has_pending_policy = p.has_pending_policy
         /\ policy'.destination_graylist = p.destination_graylist
         /\ policy'.policy_version = p.policy_version + 1
         /\ policy'.policy_preview_digest = compute_policy_preview_digest(v, p)
BY DEF Publish, PolicyType

LEMMA PublishSyncs ==
  ASSUME NEW v, NEW p \in PolicyType, Publish(v, p)
  PROVE  DigestInSync'
BY Zenon, PublishFields DEF DigestInSync, compute_policy_preview_digest, compute_agent_set_hash

\* The digest hashes nothing else.
LEMMA DigestKept ==
  ASSUME DigestInSync,
         policy'.policy_preview_digest = policy.policy_preview_digest,
         policy'.terms = policy.terms,
         policy'.has_post_assertions = policy.has_post_assertions,
         vault'.observe_only = vault.observe_only,
         \A a \in AgentKeys : /\ vault'.agents[a].registered = vault.agents[a].registered
                              /\ vault'.agents[a].capability = vault.agents[a].capability
  PROVE  DigestInSync'
<1>1. compute_agent_set_hash(vault)' = compute_agent_set_hash(vault)
  BY DEF compute_agent_set_hash
<1> QED BY <1>1 DEF DigestInSync, compute_policy_preview_digest

\* A change of an agent's entry that keeps registration and capability.
LEMMA PutKeepsHash ==
  ASSUME vault \in VaultType, NEW a \in AgentKeys, NEW e \in AgentEntry,
         e.registered = vault.agents[a].registered, e.capability = vault.agents[a].capability,
         vault' = Put(vault, a, e)
  PROVE  /\ vault'.observe_only = vault.observe_only
         /\ \A b \in AgentKeys : /\ vault'.agents[b].registered = vault.agents[b].registered
                                 /\ vault'.agents[b].capability = vault.agents[b].capability
BY DEF Put, VaultType

LEMMA DigestStep == TypeOK /\ DigestInSync /\ [Next]_vars => DigestInSync'
<1> SUFFICES ASSUME TypeOK, DigestInSync, [Next]_vars PROVE DigestInSync'
  OBVIOUS
<1>0. /\ vault \in VaultType /\ policy \in PolicyType /\ policy.terms \in TermsType
      /\ vault.agents \in [AgentKeys -> AgentEntry]
  BY DEF TypeOK, VaultType, PolicyType
\* The instructions that publish.
<1>1. ASSUME NEW v, Publish(v, policy)
      PROVE  DigestInSync'
  BY <1>0, <1>1, PublishSyncs
<1>2. ASSUME NEW a \in AgentKeys,
             \/ \E c \in Capabilities, l \in Limits : register_agent(a, c, l)
             \/ revoke_agent(a)
             \/ apply_agent_permissions_update(a)
             \/ \E c \in Capabilities : reactivate_vault(a, c)
      PROVE  DigestInSync'
  BY <1>1, <1>2
  DEF register_agent, revoke_agent, apply_agent_permissions_update, reactivate_vault
<1>3. CASE \/ reactivate_vault(NONE, DISABLED)
           \/ apply_agent_grant
           \/ \E on \in BOOLEAN : set_observe_only(on)
  BY Zenon, <1>1, <1>3 DEF reactivate_vault, apply_agent_grant, set_observe_only
<1>4. CASE create_post_assertions \/ close_post_assertions
  <2>1. \A b \in BOOLEAN : [policy EXCEPT !.has_post_assertions = b] \in PolicyType
    BY <1>0 DEF PolicyType
  <2> QED BY Zenon, <1>4, <2>1, PublishSyncs DEF create_post_assertions, close_post_assertions
<1>5. CASE apply_pending_policy
  <2> DEFINE t == Merge(policy.terms, pending_policy.update)
             P(g) == [policy EXCEPT !.terms = t, !.destination_graylist = g,
                                    !.has_pending_policy = FALSE]
  <2>1. PICK g \in EnterGraylist(policy.destination_graylist,
                                 policy.terms.allowed_destinations, t.allowed_destinations) :
          Publish(vault, P(g))
    BY Zenon, <1>5 DEF apply_pending_policy
  <2>2. t \in TermsType
    BY <1>0, <1>5, MergeTyped DEF apply_pending_policy, PolicyDue, TypeOK, PendingPolicyUpdate
  <2> HIDE DEF t
  <2>3. g \in [Destinations -> Nat \cup {NONE}]
    BY GraylistTyped DEF TypeOK, PolicyType
  <2>4. P(g) \in PolicyType
    BY Zenon, <1>0, <2>2, <2>3 DEF PolicyType
  <2> QED BY <2>1, <2>4, PublishSyncs
<1>6. CASE accept_ownership_transfer
  <2> DEFINE p == [policy EXCEPT !.terms = TermsFor(pending_owner.new_owner, policy.terms)]
  <2>1. TermsFor(pending_owner.new_owner, policy.terms) \in TermsType
    BY Zenon, <1>0 DEF TermsFor, TermsType
  <2>2. p \in PolicyType
    BY <1>0, <2>1 DEF PolicyType
  <2> QED BY <1>6, <2>2, PublishSyncs DEF accept_ownership_transfer
\* The instructions that change an agent's entry and do not publish.
<1>7. ASSUME NEW a \in AgentKeys, pause_agent(a) \/ unpause_agent(a)
      PROVE  DigestInSync'
  <2>1. \A b \in BOOLEAN : [vault.agents[a] EXCEPT !.paused = b] \in AgentEntry
    BY <1>0 DEF AgentEntry
  <2>2. PICK b \in BOOLEAN : BumpVersion(Put(vault, a, [vault.agents[a] EXCEPT !.paused = b]))
    BY Zenon, <1>7 DEF pause_agent, unpause_agent
  <2>3. /\ vault'.observe_only = vault.observe_only
        /\ \A c \in AgentKeys : /\ vault'.agents[c].registered = vault.agents[c].registered
                                /\ vault'.agents[c].capability = vault.agents[c].capability
    BY <1>0, <2>1, <2>2, PutKeepsHash DEF BumpVersion, AgentEntry
  <2>4. /\ policy'.policy_preview_digest = policy.policy_preview_digest
        /\ policy'.terms = policy.terms
        /\ policy'.has_post_assertions = policy.has_post_assertions
    BY <1>0, <2>2 DEF BumpVersion, PolicyType
  <2> QED BY <2>3, <2>4, DigestKept
<1>8. ASSUME NEW a \in AgentKeys, record_agent_violation(a) \/ validate_and_authorize(a)
      PROVE  DigestInSync'
  <2>1. CASE \E e : Publish(Put(vault, a, e), policy)
    BY <1>1, <2>1
  <2>2. ASSUME NEW n \in Nat,
               vault' = Put(vault, a, [vault.agents[a] EXCEPT !.consecutive_failures = n]),
               UNCHANGED policy
        PROVE  DigestInSync'
    <3> DEFINE e == [vault.agents[a] EXCEPT !.consecutive_failures = n]
    <3>1. /\ e \in AgentEntry /\ e.registered = vault.agents[a].registered
          /\ e.capability = vault.agents[a].capability
      BY <1>0 DEF AgentEntry
    <3> HIDE DEF e
    <3>2. /\ vault'.observe_only = vault.observe_only
          /\ \A c \in AgentKeys : /\ vault'.agents[c].registered = vault.agents[c].registered
                                  /\ vault'.agents[c].capability = vault.agents[c].capability
      BY Zenon, <1>0, <2>2, <3>1, PutKeepsHash DEF e
    <3> QED BY <2>2, <3>2, DigestKept
  <2>3. 0 \in Nat /\ vault.agents[a].consecutive_failures + 1 \in Nat
    BY <1>0 DEF AgentEntry
  <2> QED BY <1>8, <2>1, <2>2, <2>3 DEF record_agent_violation, validate_and_authorize
\* The instructions that touch nothing the digest hashes.
<1>9. ASSUME policy'.policy_preview_digest = policy.policy_preview_digest,
             policy'.terms = policy.terms,
             policy'.has_post_assertions = policy.has_post_assertions,
             vault'.observe_only = vault.observe_only, vault'.agents = vault.agents
      PROVE  DigestInSync'
  BY <1>9, DigestKept
<1>10. CASE \/ \E u \in Updates : queue_policy_update(u)
            \/ approve_pending_policy \/ cancel_pending_policy
            \/ \E d \in Destinations : promote_graylist_destination(d)
  <2>1. /\ policy'.policy_preview_digest = policy.policy_preview_digest
        /\ policy'.terms = policy.terms
        /\ policy'.has_post_assertions = policy.has_post_assertions
        /\ vault' = vault
    BY <1>0, <1>10 DEF queue_policy_update, approve_pending_policy, cancel_pending_policy,
                      promote_graylist_destination, PolicyType
  <2> QED BY <1>9, <2>1
<1>11. CASE \/ \E a \in AgentKeys : \/ \E l \in Limits : queue_agent_grant(a, l)
                                    \/ \E p \in Perms : queue_agent_permissions_update(a, p)
                                    \/ cancel_agent_permissions_update(a)
            \/ cancel_agent_grant
            \/ \E k \in OwnerKeys : initiate_ownership_transfer(k)
            \/ cancel_ownership_transfer \/ Tick \/ UNCHANGED vars
  <2>1. vault' = vault /\ policy' = policy
    BY Zenon, <1>11 DEF queue_agent_grant, queue_agent_permissions_update, cancel_agent_grant,
                 cancel_agent_permissions_update, initiate_ownership_transfer,
                 cancel_ownership_transfer, Tick, vars
  <2> QED BY <1>9, <2>1
<1>12. CASE freeze_vault \/ close_vault
  <2>1. /\ policy' = policy
        /\ vault'.observe_only = vault.observe_only /\ vault'.agents = vault.agents
    BY Zenon, <1>0, <1>12 DEF freeze_vault, freeze_internal, close_vault, VaultType
  <2> QED BY <1>9, <2>1
<1>13. ASSUME NEW t \in InitialTerms, NEW o \in BOOLEAN, initialize_vault(t, o)
       PROVE  DigestInSync'
  BY Zenon, <1>13 DEF initialize_vault, FreshVault, FreshPolicy, NotAnAgent, DigestInSync,
               compute_policy_preview_digest, compute_agent_set_hash
<1> QED
  BY <1>2, <1>3, <1>4, <1>5, <1>6, <1>7, <1>8, <1>10, <1>11, <1>12, <1>13
  DEF Next, AgentStep, PolicyStep, OwnershipStep

\* The policy digest a signer was shown always is the digest of the live
\* policy, flags and agent set.
THEOREM DigestAlwaysInSync == Spec => []DigestInSync
<1>1. Init => DigestInSync
  <2> SUFFICES ASSUME Init PROVE DigestInSync
    OBVIOUS
  <2>1. PICK t \in InitialTerms, o \in BOOLEAN :
          vault = FreshVault(1, o) /\ policy = FreshPolicy(t, o)
    BY DEF Init
  <2> QED BY Zenon, <2>1 DEF FreshVault, FreshPolicy, NotAnAgent, DigestInSync,
                      compute_policy_preview_digest, compute_agent_set_hash
<1> QED BY <1>1, TypeCorrect, DigestStep, PTL DEF Spec

=============================================================================
