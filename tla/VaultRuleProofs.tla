-------------------------- MODULE VaultRuleProofs ---------------------------
(***************************************************************************)
(* Theorems about the rules the administration of a vault keeps: what the  *)
(* terms always satisfy, what a version number pins, what a frozen vault   *)
(* refuses, and who waits for what.  The first lemmas say which group of   *)
(* instructions may change what.                                           *)
(***************************************************************************)
EXTENDS VaultAdminProofs, FiniteSetTheorems

-----------------------------------------------------------------------------
(* Frames.                                                                 *)

\* What the types say of the fields that are used below.
LEMMA Fields ==
  ASSUME TypeOK
  PROVE  /\ vault \in VaultType /\ policy \in PolicyType
         /\ vault.agents \in [AgentKeys -> AgentEntry] /\ vault.life \in Nat
         /\ vault.owner \in Keys /\ vault.frozen_at_timestamp \in Nat
         /\ policy.terms \in TermsType /\ policy.policy_version \in Nat
         /\ now \in Nat /\ slot \in Nat
BY DEF TypeOK, VaultType, PolicyType

\* Replacing an agent's entry changes nothing else of the vault.
LEMMA PutFields ==
  ASSUME NEW v \in VaultType, NEW a \in AgentKeys, NEW e
  PROVE  /\ Put(v, a, e).owner = v.owner /\ Put(v, a, e).status = v.status
         /\ Put(v, a, e).observe_only = v.observe_only /\ Put(v, a, e).life = v.life
         /\ Put(v, a, e).frozen_at_timestamp = v.frozen_at_timestamp
BY DEF Put, VaultType

LEMMA PutEntries ==
  ASSUME NEW v \in VaultType, NEW a \in AgentKeys, NEW e
  PROVE  /\ Put(v, a, e).agents[a] = e
         /\ \A b \in AgentKeys : b # a => Put(v, a, e).agents[b] = v.agents[b]
BY DEF Put, VaultType

PolicyKept ==
  /\ policy'.terms = policy.terms
  /\ policy'.has_post_assertions = policy.has_post_assertions
  /\ policy'.has_pending_policy = policy.has_pending_policy
  /\ policy'.destination_graylist = policy.destination_graylist

\* No instruction about agents touches the policy but for version and digest,
\* nor the owner or the flags of the vault; none runs on a closed vault.
AgentFrame ==
  /\ PolicyKept
  /\ vault'.owner = vault.owner /\ vault'.life = vault.life
  /\ vault'.observe_only = vault.observe_only
  /\ vault.status # "Closed" /\ vault'.status # "Closed"
  /\ UNCHANGED <<pending_policy, now, slot>>
  /\ pending_owner' \in {pending_owner, NONE}

LEMMA AgentStepFrame == TypeOK /\ AgentStep => AgentFrame
<1> SUFFICES ASSUME TypeOK, AgentStep PROVE AgentFrame
  OBVIOUS
<1>0. vault \in VaultType /\ policy \in PolicyType
  BY Fields
<1>1. ASSUME NEW a \in AgentKeys, NEW e, vault.status # "Closed",
             Publish(Put(vault, a, e), policy),
             UNCHANGED <<pending_policy, pending_owner, now, slot>>
      PROVE  AgentFrame
  <2>1. PolicyKept /\ vault' = Put(vault, a, e)
    BY <1>0, <1>1, PublishFields DEF PolicyKept
  <2> QED BY <1>0, <1>1, <2>1, PutFields DEF AgentFrame
<1>2. ASSUME NEW a \in AgentKeys, NEW c, NEW l, register_agent(a, c, l)
      PROVE  AgentFrame
  BY <1>1, <1>2 DEF register_agent, pendings, clock
<1>3. ASSUME NEW a \in AgentKeys, revoke_agent(a)
      PROVE  AgentFrame
  <2> DEFINE v == Put(vault, a, NotAnAgent)
  <2>1. v \in VaultType
    BY <1>0, EntriesTyped, PutTyped
  <2>2. v.status = vault.status /\ v.owner = vault.owner /\ v.life = vault.life
        /\ v.observe_only = vault.observe_only
    BY <1>0, PutFields
  <2>3. vault.status # "Closed" /\ UNCHANGED <<pending_policy, pending_owner, now, slot>>
        /\ (Publish(freeze_internal(v), policy) \/ Publish(v, policy))
    BY <1>3 DEF revoke_agent, pendings, clock
  <2> HIDE DEF v
  <2>4. /\ freeze_internal(v).status = "Frozen" /\ freeze_internal(v).owner = v.owner
        /\ freeze_internal(v).life = v.life /\ freeze_internal(v).observe_only = v.observe_only
    BY <2>1 DEF freeze_internal, VaultType
  <2> QED BY <1>0, <2>2, <2>3, <2>4, PublishFields DEF AgentFrame, PolicyKept
<1>4. ASSUME NEW a \in AgentKeys, apply_agent_permissions_update(a)
      PROVE  AgentFrame
  BY <1>1, <1>4 DEF apply_agent_permissions_update, PermsDue, clock
<1>5. ASSUME NEW a \in AgentKeys, pause_agent(a) \/ unpause_agent(a)
      PROVE  AgentFrame
  <2>1. PICK e : BumpVersion(Put(vault, a, e))
    BY <1>5 DEF pause_agent, unpause_agent
  <2>2. vault.status # "Closed" /\ UNCHANGED <<pending_policy, pending_owner, now, slot>>
    BY <1>5 DEF pause_agent, unpause_agent, pendings, clock
  <2>3. PolicyKept
    BY <1>0, <2>1 DEF BumpVersion, PolicyType, PolicyKept
  <2> QED BY <2>1, <2>2, <2>3, <1>0, PutFields DEF BumpVersion, AgentFrame
<1>6. ASSUME NEW a \in AgentKeys, record_agent_violation(a) \/ validate_and_authorize(a)
      PROVE  AgentFrame
  <2>1. \/ \E e : Publish(Put(vault, a, e), policy)
        \/ \E e : vault' = Put(vault, a, e) /\ UNCHANGED policy
    BY <1>6 DEF record_agent_violation, validate_and_authorize
  <2>2. vault.status # "Closed" /\ UNCHANGED <<pending_policy, pending_owner, now, slot>>
    BY <1>6 DEF record_agent_violation, validate_and_authorize, pendings, clock
  <2> QED BY <1>0, <1>1, <2>1, <2>2, PutFields DEF AgentFrame, PolicyKept
<1>7. ASSUME NEW a \in AgentKeys \cup {NONE}, NEW c, reactivate_vault(a, c)
      PROVE  AgentFrame
  <2> DEFINE v == [vault EXCEPT !.status = "Active"]
  <2>1. /\ v \in VaultType /\ v.status = "Active" /\ v.owner = vault.owner
        /\ v.life = vault.life /\ v.observe_only = vault.observe_only
    BY <1>0 DEF VaultType
  <2>2. \/ Publish(v, policy)
        \/ a \in AgentKeys /\ \E e : Publish(Put(v, a, e), policy)
    BY <1>7 DEF reactivate_vault
  <2>3. vault.status # "Closed" /\ UNCHANGED <<pending_policy, pending_owner, now, slot>>
    BY <1>7 DEF reactivate_vault, pendings, clock
  <2> HIDE DEF v
  <2> QED BY <2>1, <2>2, <2>3, <1>0, PublishFields, PutFields DEF AgentFrame, PolicyKept
<1>8. CASE apply_agent_grant
  <2>1. pending_grant.agent \in AgentKeys
    BY <1>8 DEF apply_agent_grant, TypeOK, PendingAgentGrant
  <2> QED BY <1>1, <1>8, <2>1 DEF apply_agent_grant, clock
<1>9. CASE freeze_vault
  BY <1>0, <1>9 DEF freeze_vault, freeze_internal, VaultType, clock, AgentFrame, PolicyKept
<1>10. CASE \/ \E a \in AgentKeys : \/ \E l \in Limits : queue_agent_grant(a, l)
                                    \/ \E p \in Perms : queue_agent_permissions_update(a, p)
                                    \/ cancel_agent_permissions_update(a)
            \/ cancel_agent_grant
  BY <1>10 DEF queue_agent_grant, queue_agent_permissions_update, cancel_agent_grant,
               cancel_agent_permissions_update, clock, AgentFrame, PolicyKept
<1> QED BY <1>2, <1>3, <1>4, <1>5, <1>6, <1>7, <1>8, <1>9, <1>10 DEF AgentStep

\* No instruction about the policy touches the agents, the owner or the status
\* of the vault, or any pending change but the policy update.
PolicyFrame ==
  /\ vault'.agents = vault.agents /\ vault'.owner = vault.owner
  /\ vault'.status = vault.status /\ vault'.life = vault.life
  /\ vault'.frozen_at_timestamp = vault.frozen_at_timestamp
  /\ vault.status # "Closed"
  /\ UNCHANGED <<pending_perms, pending_grant, pending_owner, now, slot>>

LEMMA PolicyStepFrame == TypeOK /\ PolicyStep => PolicyFrame
<1> SUFFICES ASSUME TypeOK, PolicyStep PROVE PolicyFrame
  OBVIOUS
<1>0. vault \in VaultType
  BY Fields
<1>1. CASE apply_pending_policy
  <2>1. vault' = vault
    BY <1>1 DEF apply_pending_policy, Publish
  <2> QED BY <1>1, <2>1 DEF apply_pending_policy, PolicyDue, PolicyFrame, clock
<1>2. ASSUME NEW on \in BOOLEAN, set_observe_only(on)
      PROVE  PolicyFrame
  <2>1. vault' = [vault EXCEPT !.observe_only = on]
    BY <1>2 DEF set_observe_only, Publish
  <2> QED BY <1>0, <1>2, <2>1 DEF set_observe_only, VaultType, PolicyFrame, pendings, clock
<1>3. CASE create_post_assertions \/ close_post_assertions
  <2>1. vault' = vault
    BY <1>3 DEF create_post_assertions, close_post_assertions, Publish
  <2> QED BY <1>3, <2>1 DEF create_post_assertions, close_post_assertions, PolicyFrame,
                           pendings, clock
<1>4. CASE \/ \E u \in Updates : queue_policy_update(u)
           \/ approve_pending_policy \/ cancel_pending_policy
           \/ \E d \in Destinations : promote_graylist_destination(d)
  BY <1>4 DEF queue_policy_update, approve_pending_policy, cancel_pending_policy,
              promote_graylist_destination, PolicyFrame, pendings, clock
<1> QED BY <1>1, <1>2, <1>3, <1>4 DEF PolicyStep

\* Applying an update is the one policy instruction that changes the terms.
LEMMA PolicyStepTerms ==
  ASSUME TypeOK, PolicyStep, ~apply_pending_policy
  PROVE  policy'.terms = policy.terms
<1>0. policy \in PolicyType
  BY Fields
<1>1. ASSUME NEW on \in BOOLEAN, set_observe_only(on)
      PROVE  policy'.terms = policy.terms
  BY <1>0, <1>1, PublishFields DEF set_observe_only
<1>2. CASE create_post_assertions \/ close_post_assertions
  <2>1. \A b \in BOOLEAN : /\ [policy EXCEPT !.has_post_assertions = b] \in PolicyType
                           /\ [policy EXCEPT !.has_post_assertions = b].terms = policy.terms
    BY <1>0 DEF PolicyType
  <2>2. \E b \in BOOLEAN : Publish(vault, [policy EXCEPT !.has_post_assertions = b])
    BY Zenon, <1>2 DEF create_post_assertions, close_post_assertions
  <2> QED BY Zenon, <2>1, <2>2, PublishFields
<1>3. CASE \/ \E u \in Updates : queue_policy_update(u)
           \/ approve_pending_policy \/ cancel_pending_policy
           \/ \E d \in Destinations : promote_graylist_destination(d)
  BY <1>0, <1>3 DEF queue_policy_update, approve_pending_policy, cancel_pending_policy,
              promote_graylist_destination, PolicyType
<1> QED BY <1>1, <1>2, <1>3 DEF PolicyStep

\* What an applied update makes of the policy.
LEMMA ApplyFields ==
  ASSUME TypeOK, apply_pending_policy
  PROVE  /\ vault' = vault /\ pending_policy' = NONE
         /\ policy'.terms = Merge(policy.terms, pending_policy.update)
         /\ policy'.has_pending_policy = FALSE
         /\ policy'.has_post_assertions = policy.has_post_assertions
         /\ policy'.policy_version = policy.policy_version + 1
<1> DEFINE t == Merge(policy.terms, pending_policy.update)
           P(g) == [policy EXCEPT !.terms = t, !.destination_graylist = g,
                                  !.has_pending_policy = FALSE]
<1>0. vault \in VaultType /\ policy \in PolicyType /\ policy.terms \in TermsType /\ now \in Nat
  BY Fields
<1>1. PICK g \in EnterGraylist(policy.destination_graylist,
                               policy.terms.allowed_destinations, t.allowed_destinations) :
        Publish(vault, P(g))
  BY Zenon DEF apply_pending_policy
<1>2. t \in TermsType
  BY <1>0, MergeTyped DEF apply_pending_policy, PolicyDue, TypeOK, PendingPolicyUpdate
<1>3. pending_policy' = NONE
  BY DEF apply_pending_policy
<1> HIDE DEF t
<1>4. g \in [Destinations -> Nat \cup {NONE}]
  BY <1>0, GraylistTyped DEF PolicyType
<1>5. /\ P(g) \in PolicyType /\ P(g).terms = t /\ P(g).has_pending_policy = FALSE
      /\ P(g).has_post_assertions = policy.has_post_assertions
      /\ P(g).policy_version = policy.policy_version
  BY Zenon, <1>0, <1>2, <1>4 DEF PolicyType
<1> HIDE DEF P
<1>6. /\ vault' = vault /\ policy'.terms = t /\ policy'.has_pending_policy = FALSE
      /\ policy'.has_post_assertions = policy.has_post_assertions
      /\ policy'.policy_version = policy.policy_version + 1
  BY <1>1, <1>5, PublishFields
<1> QED BY <1>3, <1>6 DEF t

\* What an accepted transfer makes of vault and policy.
LEMMA AcceptFields ==
  ASSUME TypeOK, accept_ownership_transfer
  PROVE  /\ vault'.owner = pending_owner.new_owner /\ pending_owner.new_owner \in Keys
         /\ vault'.agents = vault.agents /\ vault'.status = vault.status
         /\ vault'.observe_only = vault.observe_only /\ vault'.life = vault.life
         /\ vault'.frozen_at_timestamp = vault.frozen_at_timestamp
         /\ policy'.terms = TermsFor(pending_owner.new_owner, policy.terms)
         /\ policy'.has_pending_policy = policy.has_pending_policy
         /\ policy'.has_post_assertions = policy.has_post_assertions
         /\ policy'.destination_graylist = policy.destination_graylist
         /\ policy'.policy_version = policy.policy_version + 1
<1> DEFINE k == pending_owner.new_owner
           v == [vault EXCEPT !.owner = k]
           p == [policy EXCEPT !.terms = TermsFor(k, policy.terms)]
<1>0. vault \in VaultType /\ policy \in PolicyType /\ policy.terms \in TermsType
  BY Fields
<1>1. k \in Keys
  BY DEF accept_ownership_transfer, TypeOK, PendingOwnershipTransfer
<1>2. TermsFor(k, policy.terms) \in TermsType
  BY Zenon, <1>0 DEF TermsFor, TermsType
<1>3. Publish(v, p)
  BY DEF accept_ownership_transfer
<1> HIDE DEF k
<1>4. /\ p \in PolicyType /\ p.terms = TermsFor(k, policy.terms)
      /\ p.has_pending_policy = policy.has_pending_policy
      /\ p.has_post_assertions = policy.has_post_assertions
      /\ p.destination_graylist = policy.destination_graylist
      /\ p.policy_version = policy.policy_version
  BY <1>0, <1>2 DEF PolicyType
<1>5. /\ v.owner = k /\ v.agents = vault.agents /\ v.status = vault.status
      /\ v.observe_only = vault.observe_only /\ v.life = vault.life
      /\ v.frozen_at_timestamp = vault.frozen_at_timestamp
  BY <1>0 DEF VaultType
<1> HIDE DEF v, p
<1>6. vault' = v /\ policy'.terms = p.terms /\ policy'.has_pending_policy = p.has_pending_policy
      /\ policy'.has_post_assertions = p.has_post_assertions
      /\ policy'.destination_graylist = p.destination_graylist
      /\ policy'.policy_version = p.policy_version + 1
  BY <1>3, <1>4, PublishFields
<1> QED BY <1>1, <1>4, <1>5, <1>6 DEF k

-----------------------------------------------------------------------------
(* Well-formed terms.                                                      *)

\* A closed vault has no pending update, so a re-initialised one has none.
ClosedIsDrained == vault.status = "Closed" => pending_policy = NONE

WellFormedInv == TypeOK /\ PolicyWellFormed /\ ClosedIsDrained

LEMMA WellFormedAgentStep ==
  ASSUME WellFormedInv, AgentStep
  PROVE  PolicyWellFormed' /\ ClosedIsDrained'
<1>1. AgentFrame
  BY AgentStepFrame DEF WellFormedInv
<1> QED BY <1>1 DEF AgentFrame, PolicyKept, WellFormedInv, PolicyWellFormed, ClosedIsDrained

LEMMA WellFormedPolicyStep ==
  ASSUME WellFormedInv, PolicyStep
  PROVE  PolicyWellFormed' /\ ClosedIsDrained'
<1>0. /\ vault \in VaultType /\ policy \in PolicyType /\ policy.terms \in TermsType
      /\ TypeOK /\ PolicyWellFormed /\ PolicyFrame
  BY Fields, PolicyStepFrame DEF WellFormedInv
<1>c. ClosedIsDrained'
  BY <1>0 DEF PolicyFrame, ClosedIsDrained
<1>1. CASE apply_pending_policy
  <2> DEFINE u == pending_policy.update
             t == Merge(policy.terms, u)
  <2>1. /\ policy'.terms = t /\ vault' = vault /\ pending_policy' = NONE
        /\ policy'.has_pending_policy = FALSE
    BY Zenon, <1>0, <1>1, ApplyFields
  <2>2. /\ t.cosign_session_pubkey # vault.owner
        /\ t.cosign_required => t.cosign_session_pubkey # NoKey
        /\ vault.observe_only \/ HasAllowlist(t)
    BY <1>1 DEF apply_pending_policy, CosignMergeAllowed
  <2> HIDE DEF t
  <2> QED BY <1>c, <2>1, <2>2 DEF PolicyWellFormed
<1>2. ASSUME NEW u \in Updates, queue_policy_update(u)
      PROVE  PolicyWellFormed'
  <2>2. policy'.terms = policy.terms /\ policy'.has_pending_policy = TRUE /\ vault' = vault
    BY <1>0, <1>2 DEF queue_policy_update, PolicyType
  <2>3. pending_policy' # NONE
    BY <1>0, <1>2, QueuedTyped, NoneAssumption
  <2> QED BY <1>0, <2>2, <2>3 DEF PolicyWellFormed
<1>3. CASE approve_pending_policy
  <2>1. pending_policy # NONE /\ pending_policy' # NONE
    BY <1>0, <1>3, ApprovedTyped, NoneAssumption
  <2> QED BY <1>c, <1>0, <1>3, <2>1 DEF approve_pending_policy, PolicyWellFormed
<1>4. CASE cancel_pending_policy
  <2>1. /\ policy'.terms = policy.terms /\ policy'.has_pending_policy = FALSE
        /\ vault' = vault /\ pending_policy' = NONE
    BY <1>0, <1>4 DEF cancel_pending_policy, PolicyType
  <2>2. policy'.has_pending_policy <=> pending_policy' # NONE
    BY <2>1
  <2> QED BY <1>c, <1>0, <2>1, <2>2 DEF PolicyWellFormed
<1>5. ASSUME NEW d \in Destinations, promote_graylist_destination(d)
      PROVE  PolicyWellFormed'
  BY <1>0, <1>5 DEF promote_graylist_destination, PolicyType, PolicyWellFormed, pendings
<1>6. ASSUME NEW on \in BOOLEAN, set_observe_only(on)
      PROVE  PolicyWellFormed'
  BY <1>0, <1>6, PublishFields DEF set_observe_only, VaultType, PolicyWellFormed, pendings
<1>7. CASE create_post_assertions \/ close_post_assertions
  <2>1. \A b \in BOOLEAN : /\ [policy EXCEPT !.has_post_assertions = b] \in PolicyType
                           /\ [policy EXCEPT !.has_post_assertions = b].terms = policy.terms
                           /\ [policy EXCEPT !.has_post_assertions = b].has_pending_policy
                                = policy.has_pending_policy
    BY <1>0 DEF PolicyType
  <2>2. /\ \E b \in BOOLEAN : Publish(vault, [policy EXCEPT !.has_post_assertions = b])
        /\ pending_policy' = pending_policy
    BY Zenon, <1>7 DEF create_post_assertions, close_post_assertions, pendings
  <2>3. vault' = vault /\ policy'.terms = policy.terms
        /\ policy'.has_pending_policy = policy.has_pending_policy
    BY Zenon, <2>1, <2>2, PublishFields
  <2>4. (policy.has_pending_policy <=> pending_policy # NONE)
          => (policy'.has_pending_policy <=> pending_policy' # NONE)
    BY <2>2, <2>3
  <2> QED BY <1>c, <1>0, <2>3, <2>4 DEF PolicyWellFormed
<1> QED BY <1>c, <1>1, <1>2, <1>3, <1>4, <1>5, <1>6, <1>7 DEF PolicyStep

LEMMA WellFormedOwnershipStep ==
  ASSUME WellFormedInv, OwnershipStep
  PROVE  PolicyWellFormed' /\ ClosedIsDrained'
<1>0. /\ vault \in VaultType /\ policy \in PolicyType /\ policy.terms \in TermsType
      /\ TypeOK /\ PolicyWellFormed /\ ClosedIsDrained
  BY Fields DEF WellFormedInv
<1>1. CASE \/ \E k \in OwnerKeys : initiate_ownership_transfer(k)
           \/ cancel_ownership_transfer
  BY <1>0, <1>1 DEF initiate_ownership_transfer, cancel_ownership_transfer,
                    PolicyWellFormed, ClosedIsDrained
<1>2. CASE accept_ownership_transfer
  <2> DEFINE k == pending_owner.new_owner
             t == TermsFor(k, policy.terms)
  <2>1. /\ k \in Keys /\ vault'.owner = k /\ policy'.terms = t
        /\ vault'.observe_only = vault.observe_only /\ vault'.status = vault.status
        /\ policy'.has_pending_policy = policy.has_pending_policy
    BY <1>0, <1>2, AcceptFields
  <2>2. pending_policy' = pending_policy
    BY <1>2 DEF accept_ownership_transfer
  <2> HIDE DEF k
  <2>3. /\ t.cosign_required => t.cosign_session_pubkey # NoKey
        /\ t.cosign_session_pubkey # k
        /\ HasAllowlist(t) = HasAllowlist(policy.terms)
    BY <1>0, <2>1, VaultAssumption DEF TermsFor, TermsType, HasAllowlist, PolicyWellFormed
  <2> HIDE DEF t
  <2> QED BY <1>0, <2>1, <2>2, <2>3 DEF PolicyWellFormed, ClosedIsDrained
<1>3. CASE close_vault
  BY <1>0, <1>3 DEF close_vault, VaultType, PolicyWellFormed, ClosedIsDrained
<1>4. ASSUME NEW t \in InitialTerms, NEW o \in BOOLEAN, initialize_vault(t, o)
      PROVE  PolicyWellFormed' /\ ClosedIsDrained'
  <2>1. pending_policy' = NONE
    BY <1>0, <1>4 DEF initialize_vault, pendings, ClosedIsDrained
  <2> QED BY Zenon, <1>4, <2>1, TermsAssumption, VaultAssumption
          DEF initialize_vault, FreshVault, FreshPolicy, PolicyWellFormed, ClosedIsDrained
<1> QED BY <1>1, <1>2, <1>3, <1>4 DEF OwnershipStep

\* The two are inductive together with the types.
LEMMA WellFormedAlways == Spec => [](TypeOK /\ PolicyWellFormed /\ ClosedIsDrained)
<1>1. Init => PolicyWellFormed /\ ClosedIsDrained
  <2> SUFFICES ASSUME Init PROVE PolicyWellFormed /\ ClosedIsDrained
    OBVIOUS
  <2>1. PICK t \in InitialTerms, o \in BOOLEAN :
          /\ o \/ HasAllowlist(t)
          /\ vault = FreshVault(1, o) /\ policy = FreshPolicy(t, o)
    BY DEF Init
  <2>2. /\ vault.owner = InitialOwner /\ vault.status = "Active" /\ vault.observe_only = o
        /\ policy.terms = t /\ policy.has_pending_policy = FALSE
    BY <2>1 DEF FreshVault, FreshPolicy
  <2>3. /\ ~t.cosign_required /\ t.cosign_session_pubkey = NoKey /\ NoKey # InitialOwner
        /\ pending_policy = NONE
    BY TermsAssumption, VaultAssumption DEF Init
  <2> QED BY <2>1, <2>2, <2>3 DEF PolicyWellFormed, ClosedIsDrained
<1>2. TypeOK /\ PolicyWellFormed /\ ClosedIsDrained /\ [Next]_vars
        => PolicyWellFormed' /\ ClosedIsDrained'
  <2> SUFFICES ASSUME TypeOK, PolicyWellFormed, ClosedIsDrained, [Next]_vars
               PROVE  PolicyWellFormed' /\ ClosedIsDrained'
    OBVIOUS
  <2>0. WellFormedInv
    BY DEF WellFormedInv
  <2>1. CASE Tick \/ UNCHANGED vars
    BY <2>1 DEF Tick, vars, pendings, PolicyWellFormed, ClosedIsDrained
  <2> QED BY <2>0, <2>1, WellFormedAgentStep, WellFormedPolicyStep, WellFormedOwnershipStep
          DEF Next
<1> QED BY <1>1, <1>2, TypeCorrect, PTL DEF Spec

\* The cosigner, allowlist and pending-flag rules hold after every sequence of
\* instructions, for every set of keys, terms and updates: whichever of
\* initialize_vault, apply_pending_policy, set_observe_only and
\* accept_ownership_transfer came last.
THEOREM PolicyAlwaysWellFormed == Spec => []PolicyWellFormed
BY WellFormedAlways, PTL

-----------------------------------------------------------------------------
(* What an instruction does to the entries of the agents.                  *)

HasEntry(a, registered, capability, limit, paused) ==
  /\ vault'.agents[a].registered = registered
  /\ vault'.agents[a].capability = capability
  /\ vault'.agents[a].spending_limit_usd = limit
  /\ vault'.agents[a].paused = paused

\* Agent a is who it was, but for the violation counter.
RightsKept(a) ==
  HasEntry(a, vault.agents[a].registered, vault.agents[a].capability,
           vault.agents[a].spending_limit_usd, vault.agents[a].paused)

AgentChange(a) ==
  \/ \E c \in Capabilities, l \in Limits :
       register_agent(a, c, l) /\ HasEntry(a, TRUE, c, l, FALSE)
  \/ revoke_agent(a) /\ HasEntry(a, FALSE, DISABLED, 0, FALSE)
  \/ /\ apply_agent_permissions_update(a)
     /\ HasEntry(a, vault.agents[a].registered, pending_perms[a].perms.capability,
                 pending_perms[a].perms.spending_limit_usd, vault.agents[a].paused)
  \/ /\ pause_agent(a)
     /\ HasEntry(a, vault.agents[a].registered, vault.agents[a].capability,
                 vault.agents[a].spending_limit_usd, TRUE)
  \/ /\ unpause_agent(a)
     /\ HasEntry(a, vault.agents[a].registered, vault.agents[a].capability,
                 vault.agents[a].spending_limit_usd, FALSE)
  \/ /\ record_agent_violation(a) /\ policy'.policy_version = policy.policy_version + 1
     /\ HasEntry(a, vault.agents[a].registered, DISABLED,
                 vault.agents[a].spending_limit_usd, vault.agents[a].paused)
  \/ \E c \in Capabilities : reactivate_vault(a, c) /\ HasEntry(a, TRUE, c, 0, FALSE)
  \/ /\ apply_agent_grant /\ a = pending_grant.agent
     /\ HasEntry(a, TRUE, OPERATOR, pending_grant.spending_limit_usd, FALSE)

LEMMA NewEntries ==
  /\ NotAnAgent.registered = FALSE /\ NotAnAgent.capability = DISABLED
  /\ NotAnAgent.spending_limit_usd = 0 /\ NotAnAgent.paused = FALSE
  /\ \A c, l : /\ NewAgent(c, l).registered = TRUE /\ NewAgent(c, l).capability = c
               /\ NewAgent(c, l).spending_limit_usd = l /\ NewAgent(c, l).paused = FALSE
BY DEF NotAnAgent, NewAgent

\* An instruction about agents changes the rights of one agent at most, and
\* only in the ways its name says.
LEMMA AgentStepEntries ==
  ASSUME TypeOK, AgentStep
  PROVE  \/ \A b \in AgentKeys : RightsKept(b)
         \/ \E a \in AgentKeys : /\ AgentChange(a)
                                 /\ \A b \in AgentKeys : b # a => RightsKept(b)
<1> DEFINE Goal == \/ \A b \in AgentKeys : RightsKept(b)
                   \/ \E a \in AgentKeys : /\ AgentChange(a)
                                           /\ \A b \in AgentKeys : b # a => RightsKept(b)
<1>0. /\ vault \in VaultType /\ policy \in PolicyType
      /\ \A b \in AgentKeys : vault.agents[b] \in AgentEntry
  BY Fields
<1>1. ASSUME NEW a \in AgentKeys, NEW e, vault' = Put(vault, a, e)
      PROVE  vault'.agents[a] = e /\ \A b \in AgentKeys : b # a => RightsKept(b)
  BY <1>0, <1>1, PutEntries DEF RightsKept, HasEntry
<1>2. ASSUME NEW a \in AgentKeys, NEW c \in Capabilities, NEW l \in Limits,
             register_agent(a, c, l)
      PROVE  Goal
  <2>1. vault' = Put(vault, a, NewAgent(c, l))
    BY <1>2 DEF register_agent, Publish
  <2>2. vault'.agents[a] = NewAgent(c, l) /\ \A b \in AgentKeys : b # a => RightsKept(b)
    BY <1>1, <2>1
  <2>3. HasEntry(a, TRUE, c, l, FALSE)
    BY <2>2, NewEntries DEF HasEntry
  <2> QED BY Zenon, <1>2, <2>2, <2>3 DEF AgentChange
<1>3. ASSUME NEW a \in AgentKeys, revoke_agent(a)
      PROVE  Goal
  <2> DEFINE v == Put(vault, a, NotAnAgent)
  <2>1. v \in VaultType
    BY <1>0, EntriesTyped, PutTyped
  <2>2. v.agents[a] = NotAnAgent /\ \A b \in AgentKeys : b # a => v.agents[b] = vault.agents[b]
    BY <1>0, PutEntries
  <2>3. vault' = freeze_internal(v) \/ vault' = v
    BY <1>3 DEF revoke_agent, Publish
  <2> HIDE DEF v
  <2>4. vault'.agents = v.agents
    BY Zenon, <2>1, <2>3 DEF freeze_internal, VaultType
  <2>5. /\ HasEntry(a, FALSE, DISABLED, 0, FALSE)
        /\ \A b \in AgentKeys : b # a => RightsKept(b)
    BY <2>2, <2>4, NewEntries DEF HasEntry, RightsKept
  <2> QED BY Zenon, <1>3, <2>5 DEF AgentChange
<1>4. ASSUME NEW a \in AgentKeys, apply_agent_permissions_update(a)
      PROVE  Goal
  <2>1. vault' = Put(vault, a, WithPerms(vault.agents[a], pending_perms[a].perms))
    BY <1>4 DEF apply_agent_permissions_update, Publish
  <2>2. vault'.agents[a] = WithPerms(vault.agents[a], pending_perms[a].perms)
    BY <1>1, <2>1
  <2>3. HasEntry(a, vault.agents[a].registered, pending_perms[a].perms.capability,
                 pending_perms[a].perms.spending_limit_usd, vault.agents[a].paused)
    BY <1>0, <2>2 DEF HasEntry, WithPerms, AgentEntry
  <2> QED BY Zenon, <1>1, <1>4, <2>1, <2>3 DEF AgentChange
<1>5. ASSUME NEW a \in AgentKeys, pause_agent(a)
      PROVE  Goal
  <2>1. vault' = Put(vault, a, [vault.agents[a] EXCEPT !.paused = TRUE])
    BY <1>5 DEF pause_agent, BumpVersion
  <2>2. vault'.agents[a] = [vault.agents[a] EXCEPT !.paused = TRUE]
    BY Zenon, <1>1, <2>1
  <2>3. HasEntry(a, vault.agents[a].registered, vault.agents[a].capability,
                 vault.agents[a].spending_limit_usd, TRUE)
    BY <1>0, <2>2 DEF HasEntry, AgentEntry
  <2> QED BY Zenon, <1>1, <1>5, <2>1, <2>3 DEF AgentChange
<1>6. ASSUME NEW a \in AgentKeys, unpause_agent(a)
      PROVE  Goal
  <2>1. vault' = Put(vault, a, [vault.agents[a] EXCEPT !.paused = FALSE])
    BY <1>6 DEF unpause_agent, BumpVersion
  <2>2. vault'.agents[a] = [vault.agents[a] EXCEPT !.paused = FALSE]
    BY Zenon, <1>1, <2>1
  <2>3. HasEntry(a, vault.agents[a].registered, vault.agents[a].capability,
                 vault.agents[a].spending_limit_usd, FALSE)
    BY <1>0, <2>2 DEF HasEntry, AgentEntry
  <2> QED BY Zenon, <1>1, <1>6, <2>1, <2>3 DEF AgentChange
<1>7. ASSUME NEW a \in AgentKeys, NEW n, vault' = Put(vault, a, [vault.agents[a] EXCEPT
                                                               !.consecutive_failures = n])
      PROVE  Goal
  <2>1. RightsKept(a)
    BY <1>0, <1>1, <1>7 DEF RightsKept, HasEntry, AgentEntry
  <2> QED BY <1>1, <1>7, <2>1
<1>8. ASSUME NEW a \in AgentKeys, record_agent_violation(a)
      PROVE  Goal
  <2> DEFINE n == vault.agents[a].consecutive_failures + 1
             counted == [vault.agents[a] EXCEPT !.consecutive_failures = n]
  <2>1. CASE Publish(Put(vault, a, [counted EXCEPT !.capability = DISABLED]), policy)
    <3>1. vault' = Put(vault, a, [counted EXCEPT !.capability = DISABLED])
          /\ policy'.policy_version = policy.policy_version + 1
      BY <1>0, <2>1, PublishFields
    <3>2. vault'.agents[a] = [counted EXCEPT !.capability = DISABLED]
      BY <1>1, <3>1
    <3>3. HasEntry(a, vault.agents[a].registered, DISABLED,
                   vault.agents[a].spending_limit_usd, vault.agents[a].paused)
      BY <1>0, <3>2 DEF HasEntry, AgentEntry
    <3> QED BY Zenon, <1>1, <1>8, <3>1, <3>3 DEF AgentChange
  <2>2. CASE vault' = Put(vault, a, counted)
    BY Zenon, <1>7, <2>2
  <2> QED BY <1>8, <2>1, <2>2 DEF record_agent_violation
<1>9. ASSUME NEW a \in AgentKeys, validate_and_authorize(a)
      PROVE  Goal
  BY <1>7, <1>9 DEF validate_and_authorize
<1>10. ASSUME NEW a \in AgentKeys \cup {NONE}, NEW c, a \in AgentKeys => c \in Capabilities,
              reactivate_vault(a, c)
       PROVE  Goal
  <2> DEFINE v == [vault EXCEPT !.status = "Active"]
  <2>1. v \in VaultType /\ v.agents = vault.agents
    BY <1>0 DEF VaultType
  <2>2. \/ vault' = v
        \/ a \in AgentKeys /\ vault' = Put(v, a, NewAgent(c, 0))
    BY <1>10 DEF reactivate_vault, Publish
  <2> HIDE DEF v
  <2>3. CASE vault' = v
    BY <2>1, <2>3 DEF RightsKept, HasEntry
  <2>4. CASE a \in AgentKeys /\ vault' = Put(v, a, NewAgent(c, 0))
    <3>1. vault'.agents[a] = NewAgent(c, 0)
          /\ \A b \in AgentKeys : b # a => vault'.agents[b] = vault.agents[b]
      BY <2>1, <2>4, PutEntries
    <3>2. HasEntry(a, TRUE, c, 0, FALSE) /\ \A b \in AgentKeys : b # a => RightsKept(b)
      BY <3>1, NewEntries DEF HasEntry, RightsKept
    <3> QED BY Zenon, <1>10, <2>4, <3>2 DEF AgentChange
  <2> QED BY <2>2, <2>3, <2>4
<1>11. CASE apply_agent_grant
  <2>1. pending_grant.agent \in AgentKeys
    BY <1>11 DEF apply_agent_grant, TypeOK, PendingAgentGrant
  <2>2. vault' = Put(vault, pending_grant.agent,
                     NewAgent(OPERATOR, pending_grant.spending_limit_usd))
    BY <1>11 DEF apply_agent_grant, Publish
  <2> DEFINE a == pending_grant.agent
  <2>3. /\ vault'.agents[a] = NewAgent(OPERATOR, pending_grant.spending_limit_usd)
        /\ \A b \in AgentKeys : b # a => RightsKept(b)
    BY <1>1, <2>1, <2>2
  <2>4. HasEntry(a, TRUE, OPERATOR, pending_grant.spending_limit_usd, FALSE)
    BY <2>3, NewEntries DEF HasEntry
  <2> QED BY Zenon, <1>11, <2>1, <2>3, <2>4 DEF AgentChange
<1>12. CASE freeze_vault
  BY <1>0, <1>12 DEF freeze_vault, freeze_internal, VaultType, RightsKept, HasEntry
<1>13. CASE \/ \E a \in AgentKeys : \/ \E l \in Limits : queue_agent_grant(a, l)
                                    \/ \E p \in Perms : queue_agent_permissions_update(a, p)
                                    \/ cancel_agent_permissions_update(a)
            \/ cancel_agent_grant
  BY Zenon, <1>13 DEF queue_agent_grant, queue_agent_permissions_update, cancel_agent_grant,
               cancel_agent_permissions_update, RightsKept, HasEntry
<1>14. NONE \notin AgentKeys
  BY VaultAssumption
<1> QED BY <1>2, <1>3, <1>4, <1>5, <1>6, <1>8, <1>9, <1>10, <1>11, <1>12, <1>13, <1>14
        DEF AgentStep

-----------------------------------------------------------------------------
(* What a version pins.                                                    *)

\* An instruction about agents that leaves the version alone leaves everybody's
\* rights alone.
LEMMA AgentStepVersion ==
  ASSUME TypeOK, AgentStep, policy'.policy_version = policy.policy_version
  PROVE  \A b \in AgentKeys : RightsKept(b)
<1>0. policy \in PolicyType /\ policy.policy_version \in Nat
  BY Fields
<1>1. ASSUME NEW v, Publish(v, policy) \/ BumpVersion(v)
      PROVE  FALSE
  <2>1. policy'.policy_version = policy.policy_version + 1
    BY <1>0, <1>1, PublishFields DEF BumpVersion, PolicyType
  <2> QED BY <1>0, <2>1
<1>2. ASSUME NEW a \in AgentKeys, AgentChange(a)
      PROVE  FALSE
  <2>1. \/ \E v : Publish(v, policy) \/ BumpVersion(v)
        \/ policy'.policy_version = policy.policy_version + 1
    BY Zenon, <1>2 DEF AgentChange, register_agent, revoke_agent, apply_agent_permissions_update,
                pause_agent, unpause_agent, reactivate_vault, apply_agent_grant
  <2> QED BY <1>0, <1>1, <2>1
<1> QED BY <1>2, AgentStepEntries

\* The counter is all that may differ in an entry whose rights are kept.
LEMMA OnlyTheCounter ==
  ASSUME NEW e \in AgentEntry, NEW f \in AgentEntry,
         f.registered = e.registered, f.capability = e.capability,
         f.spending_limit_usd = e.spending_limit_usd, f.paused = e.paused
  PROVE  f = [e EXCEPT !.consecutive_failures = f.consecutive_failures]
BY DEF AgentEntry

LEMMA VersionPinsStep ==
  ASSUME TypeOK, TypeOK', [Next]_vars
  PROVE  PinnedByVersion
<1> SUFFICES ASSUME SameLife, policy'.policy_version = policy.policy_version
             PROVE  /\ policy'.terms = policy.terms
                    /\ policy'.has_post_assertions = policy.has_post_assertions
                    /\ vault'.observe_only = vault.observe_only
                    /\ vault'.owner = vault.owner
                    /\ \A a \in AgentKeys : RightsKept(a)
  <2>1. \A a \in AgentKeys : vault.agents[a] \in AgentEntry /\ vault'.agents[a] \in AgentEntry
    BY DEF TypeOK, VaultType
  <2>2. \A a \in AgentKeys :
          RightsKept(a) => vault'.agents[a] = [vault.agents[a] EXCEPT !.consecutive_failures =
                                                 vault'.agents[a].consecutive_failures]
    BY <2>1, OnlyTheCounter DEF RightsKept, HasEntry
  <2> QED BY <2>2 DEF PinnedByVersion
<1>0. /\ vault \in VaultType /\ policy \in PolicyType /\ policy.policy_version \in Nat
      /\ vault.life \in Nat
  BY Fields
<1>1. CASE AgentStep
  BY Zenon, <1>1, AgentStepFrame, AgentStepVersion DEF AgentFrame, PolicyKept
<1>2. CASE PolicyStep
  <2>1. ASSUME NEW v, NEW p \in PolicyType, Publish(v, p),
               p.policy_version = policy.policy_version
        PROVE  FALSE
    BY <1>0, <2>1, PublishFields
  <2>2. ASSUME apply_pending_policy
        PROVE  FALSE
    <3>1. policy'.policy_version = policy.policy_version + 1
      BY <2>2, ApplyFields
    <3> QED BY <1>0, <3>1
  <2>3. ASSUME NEW on \in BOOLEAN, set_observe_only(on)
        PROVE  FALSE
    BY <1>0, <2>1, <2>3 DEF set_observe_only
  <2>4. \A b \in BOOLEAN : /\ [policy EXCEPT !.has_post_assertions = b] \in PolicyType
                           /\ [policy EXCEPT !.has_post_assertions = b].policy_version
                                = policy.policy_version
    BY <1>0 DEF PolicyType
  <2>5. ~create_post_assertions /\ ~close_post_assertions
    BY Zenon, <2>1, <2>4 DEF create_post_assertions, close_post_assertions
  <2>6. CASE \/ \E u \in Updates : queue_policy_update(u)
             \/ approve_pending_policy \/ cancel_pending_policy
             \/ \E d \in Destinations : promote_graylist_destination(d)
    BY <1>0, <2>6 DEF queue_policy_update, approve_pending_policy, cancel_pending_policy,
                      promote_graylist_destination, PolicyType, RightsKept, HasEntry
  <2> QED BY <1>2, <2>2, <2>3, <2>5, <2>6 DEF PolicyStep
<1>3. CASE OwnershipStep
  <2>1. ~accept_ownership_transfer
    BY <1>0, AcceptFields
  <2>2. ASSUME NEW t \in InitialTerms, NEW o \in BOOLEAN, initialize_vault(t, o)
        PROVE  FALSE
    BY <1>0, <2>2 DEF initialize_vault, FreshVault, SameLife
  <2>3. CASE close_vault
    BY <1>0, <2>3 DEF close_vault, VaultType, RightsKept, HasEntry
  <2>4. CASE \/ \E k \in OwnerKeys : initiate_ownership_transfer(k)
             \/ cancel_ownership_transfer
    BY Zenon, <2>4 DEF initiate_ownership_transfer, cancel_ownership_transfer, RightsKept, HasEntry
  <2> QED BY Zenon, <1>3, <2>1, <2>2, <2>3, <2>4 DEF OwnershipStep
<1>4. CASE Tick \/ UNCHANGED vars
  BY <1>4 DEF Tick, vars, RightsKept, HasEntry
<1> QED BY <1>1, <1>2, <1>3, <1>4 DEF Next

\* What a session is checked against cannot change under its expected policy
\* version, whatever the agents, terms and updates: the version check of
\* validate_and_authorize is enough to notice.
THEOREM VersionAlwaysPins == Spec => VersionPins
<1>1. TypeOK /\ TypeOK' /\ [Next]_vars => [PinnedByVersion]_vars
  BY VersionPinsStep
<1> QED BY <1>1, TypeCorrect, PTL DEF Spec, VersionPins

-----------------------------------------------------------------------------
(* What a frozen vault refuses.                                            *)

\* An agent whose rights are kept gains nothing.
LEMMA KeptGainsNothing ==
  ASSUME TypeOK, NEW a \in AgentKeys, RightsKept(a)
  PROVE  ~Gains(a)
<1>1. vault.agents[a] \in AgentEntry
  BY Fields
<1>2. vault.agents[a].capability \in Nat
  BY <1>1 DEF AgentEntry, DISABLED, OPERATOR
<1> QED BY <1>2 DEF RightsKept, HasEntry, Gains

\* Agent a is revoked, paused or disabled.
Loses(a) ==
  \/ HasEntry(a, FALSE, DISABLED, 0, FALSE)
  \/ HasEntry(a, vault.agents[a].registered, vault.agents[a].capability,
              vault.agents[a].spending_limit_usd, TRUE)
  \/ HasEntry(a, vault.agents[a].registered, DISABLED,
              vault.agents[a].spending_limit_usd, vault.agents[a].paused)

LEMMA LosingGainsNothing ==
  ASSUME TypeOK, NEW a \in AgentKeys, Loses(a)
  PROVE  ~Gains(a)
<1>0. vault.agents[a].capability \in DISABLED .. OPERATOR
  BY Fields DEF AgentEntry
<1>1. vault'.agents[a].capability \in {DISABLED, vault.agents[a].capability}
  BY Zenon DEF Loses, HasEntry
<1>a. \A n \in DISABLED .. OPERATOR : ~(n > n) /\ ~(DISABLED > n)
  BY DEF DISABLED, OPERATOR
<1>2. ~(vault'.agents[a].capability > vault.agents[a].capability)
  BY Zenon, <1>0, <1>1, <1>a
<1>3. /\ ~(~vault.agents[a].registered /\ vault'.agents[a].registered)
      /\ ~(/\ vault'.agents[a].registered
           /\ vault'.agents[a].spending_limit_usd # vault.agents[a].spending_limit_usd)
      /\ ~(vault'.agents[a].registered /\ vault.agents[a].paused /\ ~vault'.agents[a].paused)
  BY Zenon DEF Loses, HasEntry
<1> QED BY Zenon, <1>2, <1>3 DEF Gains

LEMMA FrozenStep ==
  ASSUME TypeOK, [Next]_vars
  PROVE  OnlyTighterWhileFrozen
<1> SUFFICES ASSUME vault.status = "Frozen", vault'.status = "Frozen"
             PROVE  /\ policy'.terms = policy.terms
                    /\ policy'.destination_graylist = policy.destination_graylist
                    /\ vault'.owner = vault.owner
                    /\ vault.observe_only => vault'.observe_only
                    /\ \A a \in AgentKeys : ~Gains(a)
  BY DEF OnlyTighterWhileFrozen
<1>0. /\ vault \in VaultType /\ policy \in PolicyType
      /\ \A a \in AgentKeys : vault.agents[a] \in AgentEntry
  BY Fields
<1>1. CASE AgentStep
  <2>1. ASSUME NEW a \in AgentKeys, AgentChange(a)
        PROVE  ~Gains(a)
    <3>2. ~ \E c \in Capabilities : reactivate_vault(a, c)
      <4>1. ASSUME NEW c \in Capabilities, reactivate_vault(a, c)
            PROVE  FALSE
        <5> DEFINE v == [vault EXCEPT !.status = "Active"]
        <5>1. v \in VaultType /\ v.status = "Active"
          BY <1>0 DEF VaultType
        <5>2. vault' = v \/ vault' = Put(v, a, NewAgent(c, 0))
          BY <4>1 DEF reactivate_vault, Publish
        <5> HIDE DEF v
        <5> QED BY <5>1, <5>2, PutFields
      <4> QED BY <4>1
    <3>3. Loses(a)
      BY Zenon, <2>1, <3>2 DEF AgentChange, Loses, register_agent, apply_agent_permissions_update,
                        PermsDue, unpause_agent, apply_agent_grant
    <3> QED BY <3>3, LosingGainsNothing
  <2>2. \A a \in AgentKeys : ~Gains(a)
    BY <1>1, <2>1, AgentStepEntries, KeptGainsNothing
  <2> QED BY <1>1, <2>2, AgentStepFrame DEF AgentFrame, PolicyKept
<1>2. CASE PolicyStep
  <2>1. vault'.agents = vault.agents /\ vault'.owner = vault.owner
    BY <1>2, PolicyStepFrame DEF PolicyFrame
  <2>2. \A a \in AgentKeys : ~Gains(a)
    BY <2>1, KeptGainsNothing DEF RightsKept, HasEntry
  <2>3. ASSUME NEW on \in BOOLEAN, set_observe_only(on)
        PROVE  /\ policy'.terms = policy.terms
               /\ policy'.destination_graylist = policy.destination_graylist
               /\ vault'.observe_only
    <3>1. on = TRUE /\ Publish([vault EXCEPT !.observe_only = on], policy)
      BY <2>3 DEF set_observe_only
    <3> QED BY <1>0, <3>1, PublishFields DEF VaultType
  <2>4. CASE create_post_assertions \/ close_post_assertions
    <3>1. \A b \in BOOLEAN : /\ [policy EXCEPT !.has_post_assertions = b] \in PolicyType
                             /\ [policy EXCEPT !.has_post_assertions = b].terms = policy.terms
                             /\ [policy EXCEPT !.has_post_assertions = b].destination_graylist
                                  = policy.destination_graylist
      BY <1>0 DEF PolicyType
    <3>2. \E b \in BOOLEAN : Publish(vault, [policy EXCEPT !.has_post_assertions = b])
      BY Zenon, <2>4 DEF create_post_assertions, close_post_assertions
    <3>3. /\ policy'.terms = policy.terms /\ vault' = vault
          /\ policy'.destination_graylist = policy.destination_graylist
      BY Zenon, <3>1, <3>2, PublishFields
    <3> QED BY Zenon, <2>1, <2>2, <3>3
  <2>5. CASE cancel_pending_policy
    BY <1>0, <2>1, <2>2, <2>5 DEF cancel_pending_policy, PolicyType
  <2>6. ~apply_pending_policy /\ ~approve_pending_policy
        /\ (\A u \in Updates : ~queue_policy_update(u))
        /\ \A d \in Destinations : ~promote_graylist_destination(d)
    BY DEF apply_pending_policy, PolicyDue, approve_pending_policy, queue_policy_update,
           promote_graylist_destination
  <2> QED BY Zenon, <1>2, <2>1, <2>2, <2>3, <2>4, <2>5, <2>6 DEF PolicyStep
<1>3. ~OwnershipStep
  BY <1>0 DEF OwnershipStep, initiate_ownership_transfer, accept_ownership_transfer,
              cancel_ownership_transfer, close_vault, initialize_vault, VaultType
<1>4. CASE Tick \/ UNCHANGED vars
  <2>1. UNCHANGED <<vault, policy>>
    BY <1>4 DEF Tick, vars
  <2> QED BY <2>1, KeptGainsNothing DEF RightsKept, HasEntry
<1> QED BY Zenon, <1>1, <1>2, <1>3, <1>4 DEF Next

\* However long the owner and the agents go on, a frozen vault gets no looser
\* before reactivate_vault: no instruction that runs while it is frozen gives
\* an agent more, changes the terms, the graylist or the owner.
THEOREM FrozenAlwaysTightens == Spec => FrozenOnlyTightens
<1>1. TypeOK /\ [Next]_vars => [OnlyTighterWhileFrozen]_vars
  BY FrozenStep
<1> QED BY <1>1, TypeCorrect, PTL DEF Spec, FrozenOnlyTightens

-----------------------------------------------------------------------------
(* The spend overlay.                                                      *)

\* Only agents hold slots, and an agent with a limit holds one.
SlotsAgree ==
  \A a \in AgentKeys :
    /\ overlay[a] # NONE => vault.agents[a].registered
    /\ vault.agents[a].registered /\ vault.agents[a].spending_limit_usd > 0 => overlay[a] # NONE

\* A step that changes one entry and the slot of the same agent consistently.
LEMMA SlotOfOne ==
  ASSUME SlotsAgree, NEW a \in AgentKeys,
         \A b \in AgentKeys : b # a => RightsKept(b) /\ overlay'[b] = overlay[b],
         overlay'[a] # NONE => vault'.agents[a].registered,
         vault'.agents[a].registered /\ vault'.agents[a].spending_limit_usd > 0
           => overlay'[a] # NONE
  PROVE  SlotsAgree'
<1> SUFFICES ASSUME NEW b \in AgentKeys
             PROVE  /\ overlay'[b] # NONE => vault'.agents[b].registered
                    /\ vault'.agents[b].registered /\ vault'.agents[b].spending_limit_usd > 0
                         => overlay'[b] # NONE
  BY DEF SlotsAgree
<1>1. CASE b = a
  BY Zenon, <1>1
<1>2. CASE b # a
  BY Zenon, <1>2 DEF SlotsAgree, RightsKept, HasEntry
<1> QED BY <1>1, <1>2

\* Adding an agent claims a slot for it if it has a limit.
LEMMA SlotClaimed ==
  ASSUME NEW ov \in [AgentKeys -> Nat \cup {NONE}], NEW a \in AgentKeys, NEW limit \in Nat,
         NEW x \in WithSlot(ov, a, limit)
  PROVE  /\ \A b \in AgentKeys : b # a => x[b] = ov[b]
         /\ limit > 0 => x[a] # NONE
<1>1. 0 # NONE
  BY VaultAssumption
<1> QED BY <1>1 DEF WithSlot

\* An update of the permissions leaves a slot where there is a limit.
LEMMA SlotAfterPerms ==
  ASSUME NEW ov \in [AgentKeys -> Nat \cup {NONE}], NEW a \in AgentKeys, NEW l \in Nat,
         NEW p \in PermsType, NEW x \in OverlayAfterPerms(ov, a, l, p)
  PROVE  /\ \A b \in AgentKeys : b # a => x[b] = ov[b]
         /\ p.spending_limit_usd > 0 => x[a] # NONE
<1>1. p.cooldown_seconds # NONE
  BY VaultAssumption DEF PermsType
<1> QED BY <1>1 DEF OverlayAfterPerms

LEMMA SlotsAgentStep ==
  ASSUME TypeOK, SlotsAgree, AgentStep
  PROVE  SlotsAgree'
<1>0. /\ vault \in VaultType /\ overlay \in [AgentKeys -> Nat \cup {NONE}]
      /\ \A b \in AgentKeys : vault.agents[b] \in AgentEntry
  BY Fields DEF TypeOK
<1>1. ASSUME NEW a \in AgentKeys, NEW e, vault' = Put(vault, a, e)
      PROVE  vault'.agents[a] = e /\ \A b \in AgentKeys : b # a => RightsKept(b)
  <2>0. vault \in VaultType
    BY <1>0
  <2>1. /\ Put(vault, a, e).agents[a] = e
        /\ \A b \in AgentKeys : b # a => Put(vault, a, e).agents[b] = vault.agents[b]
    BY <2>0, PutEntries
  <2> HIDE DEF Put
  <2>2. vault'.agents[a] = e /\ \A b \in AgentKeys : b # a => vault'.agents[b] = vault.agents[b]
    BY Zenon, <1>1, <2>1
  <2> QED BY Zenon, <2>2 DEF RightsKept, HasEntry
<1>2. ASSUME NEW a \in AgentKeys, NEW c, NEW l \in Nat, overlay' \in WithSlot(overlay, a, l),
             vault' = Put(vault, a, NewAgent(c, l))
      PROVE  SlotsAgree'
  <2>0. /\ vault'.agents[a] = NewAgent(c, l)
        /\ \A b \in AgentKeys : b # a => RightsKept(b)
    BY Zenon, <1>1, <1>2
  <2>a. overlay \in [AgentKeys -> Nat \cup {NONE}] /\ overlay' \in WithSlot(overlay, a, l)
    BY <1>0, <1>2
  <2>1. /\ \A b \in AgentKeys : b # a => overlay'[b] = overlay[b]
        /\ l > 0 => overlay'[a] # NONE
    BY <2>a, SlotClaimed
  <2>2. vault'.agents[a].registered = TRUE /\ vault'.agents[a].spending_limit_usd = l
    BY <2>0, NewEntries
  <2> QED BY Zenon, <2>0, <2>1, <2>2, SlotOfOne
<1>3. ASSUME NEW a \in AgentKeys, NEW c \in Capabilities, NEW l \in Limits,
             register_agent(a, c, l)
      PROVE  SlotsAgree'
  <2>1. l \in Nat
    BY VaultAssumption
  <2> QED BY <1>2, <1>3, <2>1 DEF register_agent, Publish
<1>4. CASE apply_agent_grant
  <2>1. pending_grant.agent \in AgentKeys /\ pending_grant.spending_limit_usd \in Nat
    BY Zenon, <1>4 DEF apply_agent_grant, TypeOK, PendingAgentGrant
  <2> QED BY <1>2, <1>4, <2>1 DEF apply_agent_grant, Publish
<1>5. ASSUME NEW a \in AgentKeys, revoke_agent(a)
      PROVE  SlotsAgree'
  <2> DEFINE v == Put(vault, a, NotAnAgent)
  <2>1. /\ v \in VaultType /\ v.agents[a] = NotAnAgent
        /\ \A b \in AgentKeys : b # a => v.agents[b] = vault.agents[b]
    BY <1>0, EntriesTyped, PutTyped, PutEntries
  <2>2. vault' = freeze_internal(v) \/ vault' = v
    BY Zenon, <1>5 DEF revoke_agent, Publish
  <2> HIDE DEF v
  <2>3. vault'.agents = v.agents
    BY Zenon, <2>1, <2>2 DEF freeze_internal, VaultType
  <2>4. vault'.agents[a].registered = FALSE
    BY Zenon, <2>1, <2>3, NewEntries
  <2>5. \A b \in AgentKeys : b # a => RightsKept(b)
    BY <2>1, <2>3 DEF RightsKept, HasEntry
  <2>6. overlay' = [overlay EXCEPT ![a] = NONE]
    BY Zenon, <1>5 DEF revoke_agent
  <2>7. overlay'[a] = NONE /\ \A b \in AgentKeys : b # a => overlay'[b] = overlay[b]
    BY <1>0, <2>6
  <2> QED BY Zenon, <2>4, <2>5, <2>7, SlotOfOne
<1>6. ASSUME NEW a \in AgentKeys, apply_agent_permissions_update(a)
      PROVE  SlotsAgree'
  <2> DEFINE p == pending_perms[a].perms
  <2>1. p \in PermsType /\ vault.agents[a].spending_limit_usd \in Nat
    BY Zenon, <1>0, <1>6 DEF apply_agent_permissions_update, PermsDue, TypeOK,
                      PendingAgentPermissionsUpdate, AgentEntry
  <2>2. /\ overlay' \in OverlayAfterPerms(overlay, a, vault.agents[a].spending_limit_usd, p)
        /\ vault' = Put(vault, a, WithPerms(vault.agents[a], p))
        /\ vault.agents[a].registered
    BY Zenon, <1>6 DEF apply_agent_permissions_update, Publish, Agents
  <2> HIDE DEF p
  <2>3. /\ \A b \in AgentKeys : b # a => overlay'[b] = overlay[b]
        /\ p.spending_limit_usd > 0 => overlay'[a] # NONE
    <3>1. /\ overlay \in [AgentKeys -> Nat \cup {NONE}]
          /\ vault.agents[a].spending_limit_usd \in Nat /\ p \in PermsType
          /\ overlay' \in OverlayAfterPerms(overlay, a, vault.agents[a].spending_limit_usd, p)
      BY Zenon, <1>0, <2>1, <2>2
    <3> QED BY <3>1, SlotAfterPerms
  <2>4. /\ vault'.agents[a] = WithPerms(vault.agents[a], p)
        /\ \A b \in AgentKeys : b # a => RightsKept(b)
    BY Zenon, <1>1, <2>2
  <2>5. /\ vault'.agents[a].registered
        /\ vault'.agents[a].spending_limit_usd = p.spending_limit_usd
    BY Zenon, <1>0, <2>2, <2>4 DEF WithPerms, AgentEntry
  <2> QED BY <2>3, <2>4, <2>5, SlotOfOne
<1>7. CASE /\ \A a \in AgentKeys : ~revoke_agent(a) /\ ~apply_agent_permissions_update(a)
           /\ \A a \in AgentKeys, c \in Capabilities, l \in Limits : ~register_agent(a, c, l)
           /\ ~apply_agent_grant
  <2>1. overlay' = overlay
    BY Zenon, <1>7 DEF AgentStep, queue_agent_grant, queue_agent_permissions_update,
         cancel_agent_permissions_update, pause_agent, unpause_agent, record_agent_violation,
         validate_and_authorize, reactivate_vault, cancel_agent_grant, freeze_vault
  <2>2. CASE \A b \in AgentKeys : RightsKept(b)
    BY Zenon, <2>1, <2>2 DEF SlotsAgree, RightsKept, HasEntry
  <2>3. ASSUME NEW a \in AgentKeys, AgentChange(a),
               \A b \in AgentKeys : b # a => RightsKept(b)
        PROVE  SlotsAgree'
    <3>1. \/ /\ vault'.agents[a].registered = vault.agents[a].registered
             /\ vault'.agents[a].spending_limit_usd = vault.agents[a].spending_limit_usd
          \/ vault'.agents[a].registered = TRUE /\ vault'.agents[a].spending_limit_usd = 0
      BY Zenon, <1>7, <2>3 DEF AgentChange, HasEntry
    <3>2. /\ overlay'[a] # NONE => vault'.agents[a].registered
          /\ vault'.agents[a].registered /\ vault'.agents[a].spending_limit_usd > 0
               => overlay'[a] # NONE
      BY <2>1, <3>1 DEF SlotsAgree
    <3> QED BY Zenon, <2>1, <2>3, <3>2, SlotOfOne
  <2> QED BY Zenon, <2>2, <2>3, AgentStepEntries
<1> QED BY Zenon, <1>3, <1>4, <1>5, <1>6, <1>7

LEMMA SlotsStep ==
  ASSUME TypeOK, SlotsAgree, [Next]_vars
  PROVE  SlotsAgree'
<1>0. vault \in VaultType
  BY Fields
<1>1. CASE AgentStep
  BY <1>1, SlotsAgentStep
<1>2. CASE vault'.agents = vault.agents /\ overlay' = overlay
  BY Zenon, <1>2 DEF SlotsAgree
<1>3. CASE PolicyStep
  <2>1. overlay' = overlay
    BY Zenon, <1>3 DEF PolicyStep, queue_policy_update, approve_pending_policy,
         apply_pending_policy, cancel_pending_policy, promote_graylist_destination,
         set_observe_only, create_post_assertions, close_post_assertions
  <2> QED BY Zenon, <1>2, <1>3, <2>1, PolicyStepFrame DEF PolicyFrame
<1>4. CASE accept_ownership_transfer
  <2>1. overlay' = overlay
    BY Zenon, <1>4 DEF accept_ownership_transfer
  <2> QED BY <1>2, <1>4, <2>1, AcceptFields
<1>5. CASE close_vault
  <2>1. vault' = [vault EXCEPT !.status = "Closed"] /\ overlay' = overlay
    BY Zenon, <1>5 DEF close_vault
  <2> QED BY <1>0, <1>2, <2>1 DEF VaultType
<1>6. ASSUME NEW t \in InitialTerms, NEW o \in BOOLEAN, initialize_vault(t, o)
      PROVE  SlotsAgree'
  <2>1. \A a \in AgentKeys : vault'.agents[a] = NotAnAgent /\ overlay'[a] = NONE
    BY <1>6 DEF initialize_vault, FreshVault
  <2> QED BY Zenon, <2>1, NewEntries DEF SlotsAgree
<1>7. CASE \/ \E k \in OwnerKeys : initiate_ownership_transfer(k)
           \/ cancel_ownership_transfer \/ Tick \/ UNCHANGED vars
  <2>1. vault' = vault /\ overlay' = overlay
    BY Zenon, <1>7 DEF initiate_ownership_transfer, cancel_ownership_transfer, Tick, vars
  <2> QED BY <1>2, <2>1
<1> QED BY Zenon, <1>1, <1>3, <1>4, <1>5, <1>6, <1>7 DEF Next, OwnershipStep

\* Slots and agents agree after every sequence of instructions, for every
\* number of agents and slots: as MAX_OVERLAY_ENTRIES is no less than
\* MAX_AGENTS_PER_VAULT, an agent that may join always finds a slot.
THEOREM OverlayAlwaysConsistent == Spec => []OverlayConsistent
<1>1. Init => SlotsAgree
  <2> SUFFICES ASSUME Init PROVE SlotsAgree
    OBVIOUS
  <2>1. PICK o \in BOOLEAN : vault = FreshVault(1, o)
    BY Zenon DEF Init
  <2>2. \A a \in AgentKeys : vault.agents[a] = NotAnAgent /\ overlay[a] = NONE
    BY <2>1 DEF Init, FreshVault
  <2> QED BY Zenon, <2>2, NewEntries DEF SlotsAgree
<1>2. TypeOK /\ SlotsAgree /\ [Next]_vars => SlotsAgree'
  BY SlotsStep
<1>3. TypeOK /\ SlotsAgree => OverlayConsistent
  <2> SUFFICES ASSUME TypeOK, SlotsAgree PROVE OverlayConsistent
    OBVIOUS
  <2>1. SlotHolders(overlay) \subseteq Agents(vault)
    BY Zenon DEF SlotsAgree, SlotHolders, Agents
  <2>2. \A a \in Agents(vault) : vault.agents[a].spending_limit_usd > 0 => overlay[a] # NONE
    BY Zenon DEF SlotsAgree, Agents
  <2>3. IsFiniteSet(Agents(vault))
    BY Zenon, FS_Subset, VaultAssumption DEF Agents
  <2>4. Cardinality(SlotHolders(overlay)) <= Cardinality(Agents(vault))
        /\ Cardinality(SlotHolders(overlay)) \in Nat /\ Cardinality(Agents(vault)) \in Nat
    BY <2>1, <2>3, FS_Subset, FS_CardinalityType
  <2>5. MaxAgents \in Nat /\ MaxSlots \in Nat /\ MaxAgents <= MaxSlots
    BY Zenon, VaultAssumption
  <2>6. Cardinality(Agents(vault)) < MaxAgents => Cardinality(SlotHolders(overlay)) < MaxSlots
    BY <2>4, <2>5
  <2> QED BY Zenon, <2>1, <2>2, <2>6 DEF OverlayConsistent
<1> QED BY <1>1, <1>2, <1>3, TypeCorrect, PTL DEF Spec

=============================================================================
