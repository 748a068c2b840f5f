---------------------------- MODULE EventLayouts ----------------------------
(***************************************************************************)
(* The events of the program as the generated clients decode them and as   *)
(* the program emits them.                                                 *)
(***************************************************************************)
EXTENDS ClientTables

-----------------------------------------------------------------------------
getActionAuthorizedDecoder ==
  <<F("vault", Key), F("agent", Key), F("tokenMint", Key), F("amount", U64), F("usdAmount", U64),
    F("protocol", Key), F("rollingSpendUsdAfter", U64), F("dailyCapUsd", U64),
    F("delegated", Bool), F("timestamp", I64)>>

ActionAuthorized ==
  <<F("vault", Key), F("agent", Key), F("tokenMint", Key), F("amount", U64), F("usdAmount", U64),
    F("protocol", Key), F("rollingSpendUsdAfter", U64), F("dailyCapUsd", U64),
    F("delegated", Bool), F("timestamp", I64)>>

-----------------------------------------------------------------------------
getAgentAutoRevokedDecoder ==
  <<F("vault", Key), F("agent", Key), F("threshold", U8), F("consecutiveFailures", U8),
    F("timestamp", I64)>>

AgentAutoRevoked ==
  <<F("vault", Key), F("agent", Key), F("threshold", U8), F("consecutiveFailures", U8),
    F("timestamp", I64)>>

-----------------------------------------------------------------------------
getAgentGrantAppliedDecoder ==
  <<F("vault", Key), F("agent", Key), F("capability", U8), F("spendingLimitUsd", U64),
    F("queuedAt", I64), F("appliedAt", I64), F("newPolicyVersion", U64)>>

AgentGrantApplied ==
  <<F("vault", Key), F("agent", Key), F("capability", U8), F("spendingLimitUsd", U64),
    F("queuedAt", I64), F("appliedAt", I64), F("newPolicyVersion", U64)>>

-----------------------------------------------------------------------------
getAgentGrantCancelledDecoder ==
  <<F("vault", Key), F("owner", Key), F("cancelledAgent", Key), F("timestamp", I64)>>

AgentGrantCancelled ==
  <<F("vault", Key), F("owner", Key), F("cancelledAgent", Key), F("timestamp", I64)>>

-----------------------------------------------------------------------------
getAgentGrantQueuedDecoder ==
  <<F("vault", Key), F("agent", Key), F("capability", U8), F("spendingLimitUsd", U64),
    F("queuedAt", I64), F("executesAt", I64)>>

AgentGrantQueued ==
  <<F("vault", Key), F("agent", Key), F("capability", U8), F("spendingLimitUsd", U64),
    F("queuedAt", I64), F("executesAt", I64)>>

-----------------------------------------------------------------------------
getAgentPausedEventDecoder == <<F("vault", Key), F("agent", Key), F("timestamp", I64)>>

AgentPausedEvent == <<F("vault", Key), F("agent", Key), F("timestamp", I64)>>

-----------------------------------------------------------------------------
getAgentPermissionsChangeAppliedDecoder == <<F("vault", Key), F("agent", Key), F("appliedAt", I64)>>

AgentPermissionsChangeApplied == <<F("vault", Key), F("agent", Key), F("appliedAt", I64)>>

-----------------------------------------------------------------------------
getAgentPermissionsChangeCancelledDecoder == <<F("vault", Key), F("agent", Key)>>

AgentPermissionsChangeCancelled == <<F("vault", Key), F("agent", Key)>>

-----------------------------------------------------------------------------
getAgentPermissionsChangeQueuedDecoder == <<F("vault", Key), F("agent", Key), F("executesAt", I64)>>

AgentPermissionsChangeQueued == <<F("vault", Key), F("agent", Key), F("executesAt", I64)>>

-----------------------------------------------------------------------------
getAgentRegisteredDecoder ==
  <<F("vault", Key), F("agent", Key), F("capability", U8), F("spendingLimitUsd", U64),
    F("timestamp", I64)>>

AgentRegistered ==
  <<F("vault", Key), F("agent", Key), F("capability", U8), F("spendingLimitUsd", U64),
    F("timestamp", I64)>>

-----------------------------------------------------------------------------
getAgentRevokedDecoder ==
  <<F("vault", Key), F("agent", Key), F("remainingAgents", U8), F("timestamp", I64)>>

AgentRevoked == <<F("vault", Key), F("agent", Key), F("remainingAgents", U8), F("timestamp", I64)>>

-----------------------------------------------------------------------------
getAgentSpendLimitCheckedDecoder ==
  <<F("vault", Key), F("agent", Key), F("agentRollingSpend", U64), F("spendingLimitUsd", U64),
    F("amount", U64), F("timestamp", I64)>>

AgentSpendLimitChecked ==
  <<F("vault", Key), F("agent", Key), F("agentRollingSpend", U64), F("spendingLimitUsd", U64),
    F("amount", U64), F("timestamp", I64)>>

-----------------------------------------------------------------------------
getAgentTransferExecutedDecoder ==
  <<F("vault", Key), F("destination", Key), F("amount", U64), F("mint", Key)>>

AgentTransferExecuted ==
  <<F("vault", Key), F("destination", Key), F("amount", U64), F("mint", Key)>>

-----------------------------------------------------------------------------
getAgentUnpausedEventDecoder == <<F("vault", Key), F("agent", Key), F("timestamp", I64)>>

AgentUnpausedEvent == <<F("vault", Key), F("agent", Key), F("timestamp", I64)>>

-----------------------------------------------------------------------------
getDelegationRevokedDecoder == <<F("vault", Key), F("tokenAccount", Key), F("timestamp", I64)>>

DelegationRevoked == <<F("vault", Key), F("tokenAccount", Key), F("timestamp", I64)>>

-----------------------------------------------------------------------------
getFeesCollectedDecoder ==
  <<F("vault", Key), F("tokenMint", Key), F("protocolFeeAmount", U64),
    F("developerFeeAmount", U64), F("protocolFeeRate", U16), F("developerFeeRate", U16),
    F("transactionAmount", U64), F("protocolTreasury", Key), F("developerFeeDestination", Key),
    F("cumulativeDeveloperFees", U64), F("timestamp", I64)>>

FeesCollected ==
  <<F("vault", Key), F("tokenMint", Key), F("protocolFeeAmount", U64),
    F("developerFeeAmount", U64), F("protocolFeeRate", U16), F("developerFeeRate", U16),
    F("transactionAmount", U64), F("protocolTreasury", Key), F("developerFeeDestination", Key),
    F("cumulativeDeveloperFees", U64), F("timestamp", I64)>>

-----------------------------------------------------------------------------
getFundsDepositedDecoder ==
  <<F("vault", Key), F("tokenMint", Key), F("amount", U64), F("timestamp", I64)>>

FundsDeposited == <<F("vault", Key), F("tokenMint", Key), F("amount", U64), F("timestamp", I64)>>

-----------------------------------------------------------------------------
getFundsWithdrawnDecoder ==
  <<F("vault", Key), F("tokenMint", Key), F("amount", U64), F("destination", Key),
    F("timestamp", I64)>>

FundsWithdrawn ==
  <<F("vault", Key), F("tokenMint", Key), F("amount", U64), F("destination", Key),
    F("timestamp", I64)>>

-----------------------------------------------------------------------------
getGraylistEnteredDecoder ==
  <<F("vault", Key), F("destination", Key), F("unlockUnix", I64), F("autoPromoted", Bool),
    F("timestamp", I64)>>

GraylistEntered ==
  <<F("vault", Key), F("destination", Key), F("unlockUnix", I64), F("autoPromoted", Bool),
    F("timestamp", I64)>>

-----------------------------------------------------------------------------
getGraylistPromotedDecoder ==
  <<F("vault", Key), F("destination", Key), F("promoted", Bool), F("timestamp", I64)>>

GraylistPromoted ==
  <<F("vault", Key), F("destination", Key), F("promoted", Bool), F("timestamp", I64)>>

-----------------------------------------------------------------------------
getObserveOnlyChangedDecoder ==
  <<F("vault", Key), F("oldValue", Bool), F("newValue", Bool), F("newPolicyVersion", U64),
    F("newPolicyPreviewDigest", Bytes(32)), F("timestamp", I64)>>

ObserveOnlyChanged ==
  <<F("vault", Key), F("oldValue", Bool), F("newValue", Bool), F("newPolicyVersion", U64),
    F("newPolicyPreviewDigest", Bytes(32)), F("timestamp", I64)>>

-----------------------------------------------------------------------------
getOwnershipTransferAcceptedDecoder ==
  <<F("vault", Key), F("previousOwner", Key), F("newOwner", Key), F("viaMultisig", Bool),
    F("timestamp", I64)>>

OwnershipTransferAccepted ==
  <<F("vault", Key), F("previousOwner", Key), F("newOwner", Key), F("viaMultisig", Bool),
    F("timestamp", I64)>>

-----------------------------------------------------------------------------
getOwnershipTransferCancelledDecoder ==
  <<F("vault", Key), F("currentOwner", Key), F("cancelledNewOwner", Key), F("timestamp", I64)>>

OwnershipTransferCancelled ==
  <<F("vault", Key), F("currentOwner", Key), F("cancelledNewOwner", Key), F("timestamp", I64)>>

-----------------------------------------------------------------------------
getOwnershipTransferInitiatedDecoder ==
  <<F("vault", Key), F("currentOwner", Key), F("newOwner", Key), F("queuedAt", I64),
    F("isMultisigTarget", Bool)>>

OwnershipTransferInitiated ==
  <<F("vault", Key), F("currentOwner", Key), F("newOwner", Key), F("queuedAt", I64),
    F("isMultisigTarget", Bool)>>

-----------------------------------------------------------------------------
getPolicyChangeAppliedDecoder == <<F("vault", Key), F("appliedAt", I64)>>

PolicyChangeApplied == <<F("vault", Key), F("appliedAt", I64)>>

-----------------------------------------------------------------------------
getPolicyChangeCancelledDecoder == <<F("vault", Key)>>

PolicyChangeCancelled == <<F("vault", Key)>>

-----------------------------------------------------------------------------
getPolicyChangeQueuedDecoder == <<F("vault", Key), F("executesAt", I64)>>

PolicyChangeQueued == <<F("vault", Key), F("executesAt", I64)>>

-----------------------------------------------------------------------------
getPolicyCosignApprovedDecoder == <<F("vault", Key), F("cosigner", Key), F("approvedAtSlot", U64)>>

PolicyCosignApproved == <<F("vault", Key), F("cosigner", Key), F("approvedAtSlot", U64)>>

-----------------------------------------------------------------------------
getPostAssertionCheckedDecoder ==
  <<F("vault", Key), F("entryIndex", U8), F("passed", Bool), F("timestamp", I64)>>

PostAssertionChecked ==
  <<F("vault", Key), F("entryIndex", U8), F("passed", Bool), F("timestamp", I64)>>

-----------------------------------------------------------------------------
getPostAssertionsClosedDecoder == <<F("vault", Key), F("timestamp", I64)>>

PostAssertionsClosed == <<F("vault", Key), F("timestamp", I64)>>

-----------------------------------------------------------------------------
getPostAssertionsCreatedDecoder == <<F("vault", Key), F("entryCount", U8), F("timestamp", I64)>>

PostAssertionsCreated == <<F("vault", Key), F("entryCount", U8), F("timestamp", I64)>>

-----------------------------------------------------------------------------
getSessionFinalizedDecoder ==
  <<F("vault", Key), F("agent", Key), F("success", Bool), F("isExpired", Bool),
    F("timestamp", I64), F("actualSpendUsd", U64), F("balanceAfterUsd", U64)>>

SessionFinalized ==
  <<F("vault", Key), F("agent", Key), F("success", Bool), F("isExpired", Bool),
    F("timestamp", I64), F("actualSpendUsd", U64), F("balanceAfterUsd", U64)>>

-----------------------------------------------------------------------------
getVaultClosedDecoder == <<F("vault", Key), F("owner", Key), F("timestamp", I64)>>

VaultClosed == <<F("vault", Key), F("owner", Key), F("timestamp", I64)>>

-----------------------------------------------------------------------------
getVaultCreatedDecoder ==
  <<F("vault", Key), F("owner", Key), F("vaultId", U64), F("timestamp", I64)>>

VaultCreated == <<F("vault", Key), F("owner", Key), F("vaultId", U64), F("timestamp", I64)>>

-----------------------------------------------------------------------------
getVaultFrozenDecoder ==
  <<F("vault", Key), F("owner", Key), F("agentsPreserved", U8), F("sessionsRevoked", U32),
    F("timestamp", I64), F("freezeReason", U8)>>

VaultFrozen ==
  <<F("vault", Key), F("owner", Key), F("agentsPreserved", U8), F("sessionsRevoked", U32),
    F("timestamp", I64), F("freezeReason", U8)>>

-----------------------------------------------------------------------------
getVaultReactivatedDecoder ==
  <<F("vault", Key), F("newAgent", Opt(Key)), F("newAgentCapability", Opt(U8)), F("timestamp", I64)>>

VaultReactivated ==
  <<F("vault", Key), F("newAgent", Opt(Key)), F("newAgentCapability", Opt(U8)), F("timestamp", I64)>>

-----------------------------------------------------------------------------
EventLayoutsTable ==
  [ActionAuthorized |-> Emitted(getActionAuthorizedDecoder, ActionAuthorized),
   AgentAutoRevoked |-> Emitted(getAgentAutoRevokedDecoder, AgentAutoRevoked),
   AgentGrantApplied |-> Emitted(getAgentGrantAppliedDecoder, AgentGrantApplied),
   AgentGrantCancelled |-> Emitted(getAgentGrantCancelledDecoder, AgentGrantCancelled),
   AgentGrantQueued |-> Emitted(getAgentGrantQueuedDecoder, AgentGrantQueued),
   AgentPausedEvent |-> Emitted(getAgentPausedEventDecoder, AgentPausedEvent),
   AgentPermissionsChangeApplied |-> Emitted(getAgentPermissionsChangeAppliedDecoder, AgentPermissionsChangeApplied),
   AgentPermissionsChangeCancelled |-> Emitted(getAgentPermissionsChangeCancelledDecoder, AgentPermissionsChangeCancelled),
   AgentPermissionsChangeQueued |-> Emitted(getAgentPermissionsChangeQueuedDecoder, AgentPermissionsChangeQueued),
   AgentRegistered |-> Emitted(getAgentRegisteredDecoder, AgentRegistered),
   AgentRevoked |-> Emitted(getAgentRevokedDecoder, AgentRevoked),
   AgentSpendLimitChecked |-> Emitted(getAgentSpendLimitCheckedDecoder, AgentSpendLimitChecked),
   AgentTransferExecuted |-> Emitted(getAgentTransferExecutedDecoder, AgentTransferExecuted),
   AgentUnpausedEvent |-> Emitted(getAgentUnpausedEventDecoder, AgentUnpausedEvent),
   DelegationRevoked |-> Emitted(getDelegationRevokedDecoder, DelegationRevoked),
   FeesCollected |-> Emitted(getFeesCollectedDecoder, FeesCollected),
   FundsDeposited |-> Emitted(getFundsDepositedDecoder, FundsDeposited),
   FundsWithdrawn |-> Emitted(getFundsWithdrawnDecoder, FundsWithdrawn),
   GraylistEntered |-> Emitted(getGraylistEnteredDecoder, GraylistEntered),
   GraylistPromoted |-> Emitted(getGraylistPromotedDecoder, GraylistPromoted),
   ObserveOnlyChanged |-> Emitted(getObserveOnlyChangedDecoder, ObserveOnlyChanged),
   OwnershipTransferAccepted |-> Emitted(getOwnershipTransferAcceptedDecoder, OwnershipTransferAccepted),
   OwnershipTransferCancelled |-> Emitted(getOwnershipTransferCancelledDecoder, OwnershipTransferCancelled),
   OwnershipTransferInitiated |-> Emitted(getOwnershipTransferInitiatedDecoder, OwnershipTransferInitiated),
   PolicyChangeApplied |-> Emitted(getPolicyChangeAppliedDecoder, PolicyChangeApplied),
   PolicyChangeCancelled |-> Emitted(getPolicyChangeCancelledDecoder, PolicyChangeCancelled),
   PolicyChangeQueued |-> Emitted(getPolicyChangeQueuedDecoder, PolicyChangeQueued),
   PolicyCosignApproved |-> Emitted(getPolicyCosignApprovedDecoder, PolicyCosignApproved),
   PostAssertionChecked |-> Emitted(getPostAssertionCheckedDecoder, PostAssertionChecked),
   PostAssertionsClosed |-> Emitted(getPostAssertionsClosedDecoder, PostAssertionsClosed),
   PostAssertionsCreated |-> Emitted(getPostAssertionsCreatedDecoder, PostAssertionsCreated),
   SessionFinalized |-> Emitted(getSessionFinalizedDecoder, SessionFinalized),
   VaultClosed |-> Emitted(getVaultClosedDecoder, VaultClosed),
   VaultCreated |-> Emitted(getVaultCreatedDecoder, VaultCreated),
   VaultFrozen |-> Emitted(getVaultFrozenDecoder, VaultFrozen),
   VaultReactivated |-> Emitted(getVaultReactivatedDecoder, VaultReactivated)]
=============================================================================
