--------------------------- MODULE AccountLayouts ---------------------------
(***************************************************************************)
(* The program's accounts as the generated clients decode them, field by   *)
(* field, the structs the program stores, and the space it allocates for   *)
(* each. The eight discriminator bytes come first and are left out.        *)
(***************************************************************************)
EXTENDS ClientTables

-----------------------------------------------------------------------------
getAgentEntryDecoder ==
  <<F("pubkey", Key), F("capability", U8), F("spendingLimitUsd", U64), F("paused", Bool),
    F("consecutiveFailures", U8), F("reserved", Bytes(6))>>

AgentEntry ==
  <<F("pubkey", Key), F("capability", U8), F("spendingLimitUsd", U64), F("paused", Bool),
    F("consecutiveFailures", U8), F("reserved", Bytes(6))>>

-----------------------------------------------------------------------------
getAgentContributionEntryDecoder ==
  <<F("agent", Bytes(32)), F("lastWriteEpoch", I64), F("contributions", Arr(24, U64))>>

AgentContributionEntry ==
  <<F("agent", Bytes(32)), F("lastWriteEpoch", I64), F("contributions", Arr(24, U64))>>

-----------------------------------------------------------------------------
getAuditEntryDecoder ==
  <<F("subject", Bytes(32)), F("balanceDeltaIn", I64), F("balanceDeltaOut", I64),
    F("timestamp", I64), F("slotHash", Bytes(4)), F("blockhash", Bytes(3)), F("discriminator", U8)>>

AuditEntry ==
  <<F("subject", Bytes(32)), F("balanceDeltaIn", I64), F("balanceDeltaOut", I64),
    F("timestamp", I64), F("slotHash", Bytes(4)), F("blockhash", Bytes(3)), F("discriminator", U8)>>

-----------------------------------------------------------------------------
getDestinationGraylistEntryDecoder == <<F("destination", Key), F("unlockUnix", I64)>>

DestinationGraylistEntry == <<F("destination", Key), F("unlockUnix", I64)>>

-----------------------------------------------------------------------------
getEpochBucketDecoder == <<F("epochId", I64), F("usdAmount", U64)>>

EpochBucket == <<F("epochId", I64), F("usdAmount", U64)>>

-----------------------------------------------------------------------------
getPerRecipientCounterDecoder ==
  <<F("recipient", Bytes(32)), F("windowStart", I64), F("windowSpendUsd", U64)>>

PerRecipientCounter ==
  <<F("recipient", Bytes(32)), F("windowStart", I64), F("windowSpendUsd", U64)>>

-----------------------------------------------------------------------------
getPostAssertionEntryZCDecoder ==
  <<F("targetAccount", Bytes(32)), F("offset", U16), F("valueLen", U8), F("operator", U8),
    F("expectedValue", Bytes(32)), F("assertionMode", U8), F("auxValue", Bytes(8)),
    F("auxByte", U8)>>

PostAssertionEntryZC ==
  <<F("targetAccount", Bytes(32)), F("offset", U16), F("valueLen", U8), F("operator", U8),
    F("expectedValue", Bytes(32)), F("assertionMode", U8), F("auxValue", Bytes(8)),
    F("auxByte", U8)>>

-----------------------------------------------------------------------------
getProtocolSpendCounterDecoder ==
  <<F("protocol", Bytes(32)), F("windowStart", I64), F("windowSpend", U64)>>

ProtocolSpendCounter == <<F("protocol", Bytes(32)), F("windowStart", I64), F("windowSpend", U64)>>

-----------------------------------------------------------------------------
getAgentVaultDecoder ==
  <<F("owner", Key), F("vaultId", U64), F("agents", Vec(Of(getAgentEntryDecoder))),
    F("feeDestination", Key), F("status", Enum), F("bump", U8), F("createdAt", I64),
    F("totalTransactions", U64), F("totalVolume", U64), F("totalFeesCollected", U64),
    F("totalDepositedUsd", U64), F("totalWithdrawnUsd", U64), F("totalFailedTransactions", U64),
    F("activeSessions", U8), F("observeOnly", Bool), F("frozenAtTimestamp", I64),
    F("freezeReason", U8), F("ownerType", U8), F("vaultAuthority", Key)>>

AgentVault ==
  <<F("owner", Key), F("vaultId", U64), F("agents", UpTo(10, Of(AgentEntry))),
    F("feeDestination", Key), F("status", Enum), F("bump", U8), F("createdAt", I64),
    F("totalTransactions", U64), F("totalVolume", U64), F("totalFeesCollected", U64),
    F("totalDepositedUsd", U64), F("totalWithdrawnUsd", U64), F("totalFailedTransactions", U64),
    F("activeSessions", U8), F("observeOnly", Bool), F("frozenAtTimestamp", I64),
    F("freezeReason", U8), F("ownerType", U8), F("vaultAuthority", Key)>>

AgentVaultSIZE ==
  8 + 32 + 8 + 4 + (49 * 10) + 32 + 1 + 1 + 8 + 8 + 8 + 8 + 8 + 8 + 8 + 1 + 1 + 8 + 1 + 1 + 32

-----------------------------------------------------------------------------
getPolicyConfigDecoder ==
  <<F("vault", Key), F("dailySpendingCapUsd", U64), F("maxTransactionSizeUsd", U64),
    F("protocolMode", U8), F("protocols", Vec(Key)), F("developerFeeRate", U16),
    F("maxSlippageBps", U16), F("timelockDuration", U64), F("allowedDestinations", Vec(Key)),
    F("hasPendingPolicy", Bool), F("hasProtocolCaps", Bool), F("protocolCaps", Vec(U64)),
    F("sessionExpirySeconds", U64), F("bump", U8), F("policyVersion", U64),
    F("hasPostAssertions", U8), F("destinationMode", U8), F("policyPreviewDigest", Bytes(32)),
    F("createdAtSlot", U64), F("operatingHours", U32),
    F("destinationGraylist", Vec(Of(getDestinationGraylistEntryDecoder))),
    F("autoPromoteGrays", Bool), F("autoRevokeThreshold", U8), F("stableBalanceFloor", U64),
    F("perRecipientDailyCapUsd", U64), F("cosignRequired", Bool), F("cosignSessionPubkey", Key),
    F("operatorGrantDelaySeconds", U64), F("protocolHashes", Arr(10, Bytes(32)))>>

PolicyConfig ==
  <<F("vault", Key), F("dailySpendingCapUsd", U64), F("maxTransactionSizeUsd", U64),
    F("protocolMode", U8), F("protocols", UpTo(10, Key)), F("developerFeeRate", U16),
    F("maxSlippageBps", U16), F("timelockDuration", U64), F("allowedDestinations", UpTo(10, Key)),
    F("hasPendingPolicy", Bool), F("hasProtocolCaps", Bool), F("protocolCaps", UpTo(10, U64)),
    F("sessionExpirySeconds", U64), F("bump", U8), F("policyVersion", U64),
    F("hasPostAssertions", U8), F("destinationMode", U8), F("policyPreviewDigest", Bytes(32)),
    F("createdAtSlot", U64), F("operatingHours", U32),
    F("destinationGraylist", UpTo(10, Of(DestinationGraylistEntry))), F("autoPromoteGrays", Bool),
    F("autoRevokeThreshold", U8), F("stableBalanceFloor", U64), F("perRecipientDailyCapUsd", U64),
    F("cosignRequired", Bool), F("cosignSessionPubkey", Key), F("operatorGrantDelaySeconds", U64),
    F("protocolHashes", Arr(10, Bytes(32)))>>

PolicyConfigSIZE ==
  8 + 32 + 8 + 8 + 1 + (4 + 32 * 10) + 2 + 2 + 8 + (4 + 32 * 10) + 1 + 1 + (4 + 8 * 10) + 8 + 1
  + 8 + 1 + 1 + 32 + 8 + 4 + (4 + 40 * 10) + 1 + 1 + 8 + 8 + 1 + 32 + 8 + (32 * 10)

-----------------------------------------------------------------------------
getSpendTrackerDecoder ==
  <<F("vault", Key), F("buckets", Arr(144, Of(getEpochBucketDecoder))),
    F("protocolCounters", Arr(10, Of(getProtocolSpendCounterDecoder))), F("lastWriteEpoch", I64),
    F("bump", U8), F("padding", Bytes(7)),
    F("perRecipient", Arr(10, Of(getPerRecipientCounterDecoder))), F("perRecipientCount", U8),
    F("paddingRecipient", Bytes(7))>>

SpendTracker ==
  <<F("vault", Key), F("buckets", Arr(144, Of(EpochBucket))),
    F("protocolCounters", Arr(10, Of(ProtocolSpendCounter))), F("lastWriteEpoch", I64),
    F("bump", U8), F("padding", Bytes(7)), F("perRecipient", Arr(10, Of(PerRecipientCounter))),
    F("perRecipientCount", U8), F("paddingRecipient", Bytes(7))>>

SpendTrackerSIZE == 8 + 32 + (16 * 144) + (48 * 10) + 8 + 1 + 7 + (48 * 10) + 1 + 7

-----------------------------------------------------------------------------
getAgentSpendOverlayDecoder ==
  <<F("vault", Key), F("entries", Arr(10, Of(getAgentContributionEntryDecoder))), F("bump", U8),
    F("padding", Bytes(7)), F("lifetimeSpend", Arr(10, U64)), F("lifetimeTxCount", Arr(10, U64)),
    F("cooldownSeconds", Arr(10, U64)), F("lastActionUnix", Arr(10, I64))>>

AgentSpendOverlay ==
  <<F("vault", Key), F("entries", Arr(10, Of(AgentContributionEntry))), F("bump", U8),
    F("padding", Bytes(7)), F("lifetimeSpend", Arr(10, U64)), F("lifetimeTxCount", Arr(10, U64)),
    F("cooldownSeconds", Arr(10, U64)), F("lastActionUnix", Arr(10, I64))>>

AgentSpendOverlaySIZE == 8 + 32 + (232 * 10) + 1 + 7 + (8 * 10) + (8 * 10) + (8 * 10) + (8 * 10)

-----------------------------------------------------------------------------
\* Faulty variant: generated before the session kept its swap account.
StaleSessionDecoder ==
  <<F("vault", Key), F("agent", Key), F("authorized", Bool), F("authorizedAmount", U64),
    F("authorizedToken", Key), F("authorizedProtocol", Key), F("expiresAtTimestamp", I64),
    F("delegated", Bool), F("delegationTokenAccount", Key), F("protocolFee", U64),
    F("developerFee", U64), F("outputMint", Key), F("stablecoinBalanceBefore", U64),
    F("bump", U8), F("assertionSnapshots", Arr(8, Bytes(32))), F("snapshotLens", Bytes(8)),
    F("nonce", U64), F("outputStablecoinAccount", Key)>>

getSessionAuthorityDecoder ==
  <<F("vault", Key), F("agent", Key), F("authorized", Bool), F("authorizedAmount", U64),
    F("authorizedToken", Key), F("authorizedProtocol", Key), F("expiresAtTimestamp", I64),
    F("delegated", Bool), F("delegationTokenAccount", Key), F("protocolFee", U64),
    F("developerFee", U64), F("outputMint", Key), F("stablecoinBalanceBefore", U64),
    F("bump", U8), F("assertionSnapshots", Arr(8, Bytes(32))), F("snapshotLens", Bytes(8)),
    F("nonce", U64), F("outputStablecoinAccount", Key), F("outputSwapAccount", Key),
    F("outputSwapMint", Key), F("outputSwapBalanceBefore", U64)>>

SessionAuthority ==
  <<F("vault", Key), F("agent", Key), F("authorized", Bool), F("authorizedAmount", U64),
    F("authorizedToken", Key), F("authorizedProtocol", Key), F("expiresAtTimestamp", I64),
    F("delegated", Bool), F("delegationTokenAccount", Key), F("protocolFee", U64),
    F("developerFee", U64), F("outputMint", Key), F("stablecoinBalanceBefore", U64),
    F("bump", U8), F("assertionSnapshots", Arr(8, Bytes(32))), F("snapshotLens", Bytes(8)),
    F("nonce", U64), F("outputStablecoinAccount", Key), F("outputSwapAccount", Key),
    F("outputSwapMint", Key), F("outputSwapBalanceBefore", U64)>>

SessionAuthoritySIZE ==
  8 + 32 + 32 + 1 + 8 + 32 + 32 + 8 + 1 + 32 + 8 + 8 + 32 + 8 + 1 + 256 + 8 + 8 + 32 + 32 + 32
  + 8

-----------------------------------------------------------------------------
getPostExecutionAssertionsDecoder ==
  <<F("vault", Bytes(32)), F("entries", Arr(8, Of(getPostAssertionEntryZCDecoder))),
    F("entryCount", U8), F("bump", U8), F("padding", Bytes(6))>>

PostExecutionAssertions ==
  <<F("vault", Bytes(32)), F("entries", Arr(8, Of(PostAssertionEntryZC))), F("entryCount", U8),
    F("bump", U8), F("padding", Bytes(6))>>

PostExecutionAssertionsSIZE == 8 + 32 + (78 * 8) + 1 + 1 + 6

-----------------------------------------------------------------------------
getPendingPolicyUpdateDecoder ==
  <<F("vault", Key), F("queuedAt", I64), F("executesAt", I64), F("queuedAtSlot", U64),
    F("dailySpendingCapUsd", Opt(U64)), F("maxTransactionAmountUsd", Opt(U64)),
    F("protocolMode", Opt(U8)), F("protocols", Opt(Vec(Key))), F("developerFeeRate", Opt(U16)),
    F("maxSlippageBps", Opt(U16)), F("timelockDuration", Opt(U64)),
    F("allowedDestinations", Opt(Vec(Key))), F("sessionExpirySeconds", Opt(U64)),
    F("hasProtocolCaps", Opt(Bool)), F("protocolCaps", Opt(Vec(U64))),
    F("destinationMode", Opt(U8)), F("bump", U8), F("operatingHours", Opt(U32)),
    F("cosignDigest", Bytes(32)), F("cosignSession", Key), F("newPolicyPreviewDigest", Bytes(32)),
    F("stableBalanceFloor", Opt(U64)), F("perRecipientDailyCapUsd", Opt(U64)),
    F("cosignRequired", Opt(Bool)), F("cosignSessionPubkey", Opt(Key)),
    F("operatorGrantDelaySeconds", Opt(U64)), F("cosignApproved", Bool), F("approvedAtSlot", U64),
    F("queuedPolicyVersion", U64), F("protocolHashes", Opt(Arr(10, Bytes(32))))>>

PendingPolicyUpdate ==
  <<F("vault", Key), F("queuedAt", I64), F("executesAt", I64), F("queuedAtSlot", U64),
    F("dailySpendingCapUsd", Opt(U64)), F("maxTransactionAmountUsd", Opt(U64)),
    F("protocolMode", Opt(U8)), F("protocols", Opt(UpTo(10, Key))),
    F("developerFeeRate", Opt(U16)), F("maxSlippageBps", Opt(U16)),
    F("timelockDuration", Opt(U64)), F("allowedDestinations", Opt(UpTo(10, Key))),
    F("sessionExpirySeconds", Opt(U64)), F("hasProtocolCaps", Opt(Bool)),
    F("protocolCaps", Opt(UpTo(10, U64))), F("destinationMode", Opt(U8)), F("bump", U8),
    F("operatingHours", Opt(U32)), F("cosignDigest", Bytes(32)), F("cosignSession", Key),
    F("newPolicyPreviewDigest", Bytes(32)), F("stableBalanceFloor", Opt(U64)),
    F("perRecipientDailyCapUsd", Opt(U64)), F("cosignRequired", Opt(Bool)),
    F("cosignSessionPubkey", Opt(Key)), F("operatorGrantDelaySeconds", Opt(U64)),
    F("cosignApproved", Bool), F("approvedAtSlot", U64), F("queuedPolicyVersion", U64),
    F("protocolHashes", Opt(Arr(10, Bytes(32))))>>

PendingPolicyUpdateSIZE ==
  8 + 32 + 8 + 8 + 8 + (1 + 8) + (1 + 8) + (1 + 1) + (1 + 4 + 32 * 10) + (1 + 2) + (1 + 2)
  + (1 + 8) + (1 + 4 + 32 * 10) + (1 + 8) + (1 + 1) + (1 + 4 + 8 * 10) + (1 + 1) + 1 + 32
  + (1 + 4) + 32 + 32 + (1 + 8) + (1 + 8) + (1 + 1) + (1 + 32) + (1 + 8) + 1 + 8 + 8
  + (1 + 32 * 10)

-----------------------------------------------------------------------------
getPendingAgentGrantDecoder ==
  <<F("vault", Key), F("agent", Key), F("capability", U8), F("spendingLimitUsd", U64),
    F("queuedAt", I64), F("minDelaySeconds", U64), F("bump", U8), F("padding", Bytes(6)),
    F("pendingContentDigest", Bytes(32)), F("queuedAtSlot", U64)>>

PendingAgentGrant ==
  <<F("vault", Key), F("agent", Key), F("capability", U8), F("spendingLimitUsd", U64),
    F("queuedAt", I64), F("minDelaySeconds", U64), F("bump", U8), F("padding", Bytes(6)),
    F("pendingContentDigest", Bytes(32)), F("queuedAtSlot", U64)>>

PendingAgentGrantSIZE == 8 + 32 + 32 + 1 + 8 + 8 + 8 + 1 + 6 + 32 + 8

-----------------------------------------------------------------------------
getPendingAgentPermissionsUpdateDecoder ==
  <<F("vault", Key), F("agent", Key), F("newCapability", U8), F("reservedCap", Bytes(7)),
    F("spendingLimitUsd", U64), F("queuedAt", I64), F("executesAt", I64), F("queuedAtSlot", U64),
    F("bump", U8), F("cooldownSeconds", U64), F("cosignDigest", Bytes(32)), F("cosignSession", Key)>>

PendingAgentPermissionsUpdate ==
  <<F("vault", Key), F("agent", Key), F("newCapability", U8), F("reservedCap", Bytes(7)),
    F("spendingLimitUsd", U64), F("queuedAt", I64), F("executesAt", I64), F("queuedAtSlot", U64),
    F("bump", U8), F("cooldownSeconds", U64), F("cosignDigest", Bytes(32)), F("cosignSession", Key)>>

PendingAgentPermissionsUpdateSIZE == 185

-----------------------------------------------------------------------------
getPendingOwnershipTransferDecoder ==
  <<F("vault", Key), F("currentOwner", Key), F("newOwner", Key), F("queuedAt", I64),
    F("minDelaySeconds", U64), F("isMultisigTarget", Bool), F("bump", U8), F("padding", Bytes(6)),
    F("queuedAtSlot", U64)>>

PendingOwnershipTransfer ==
  <<F("vault", Key), F("currentOwner", Key), F("newOwner", Key), F("queuedAt", I64),
    F("minDelaySeconds", U64), F("isMultisigTarget", Bool), F("bump", U8), F("padding", Bytes(6)),
    F("queuedAtSlot", U64)>>

PendingOwnershipTransferSIZE == 8 + 32 + 32 + 32 + 8 + 8 + 1 + 1 + 6 + 8

-----------------------------------------------------------------------------
getAuditLogSuccessDecoder ==
  <<F("vault", Key), F("entries", Arr(128, Of(getAuditEntryDecoder))), F("head", U8),
    F("count", U8), F("padding", Bytes(13)), F("bump", U8)>>

AuditLogSuccess ==
  <<F("vault", Key), F("entries", Arr(128, Of(AuditEntry))), F("head", U8), F("count", U8),
    F("padding", Bytes(13)), F("bump", U8)>>

AuditLogSuccessSIZE == 8 + 32 + (128 * 64) + 1 + 1 + 13 + 1

-----------------------------------------------------------------------------
getAuditLogRejectedDecoder ==
  <<F("vault", Key), F("entries", Arr(64, Of(getAuditEntryDecoder))), F("head", U8),
    F("count", U8), F("padding", Bytes(13)), F("bump", U8)>>

AuditLogRejected ==
  <<F("vault", Key), F("entries", Arr(64, Of(AuditEntry))), F("head", U8), F("count", U8),
    F("padding", Bytes(13)), F("bump", U8)>>

AuditLogRejectedSIZE == 8 + 32 + (64 * 64) + 1 + 1 + 13 + 1

-----------------------------------------------------------------------------
AccountLayoutsTable ==
  [AgentVault |->
     Borsh(getAgentVaultDecoder, AgentVault, AgentVaultSIZE),
   PolicyConfig |->
     Borsh(getPolicyConfigDecoder, PolicyConfig, PolicyConfigSIZE),
   SpendTracker |->
     ZeroCopy(getSpendTrackerDecoder, SpendTracker, SpendTrackerSIZE),
   AgentSpendOverlay |->
     ZeroCopy(getAgentSpendOverlayDecoder, AgentSpendOverlay, AgentSpendOverlaySIZE),
   SessionAuthority |->
     Borsh(getSessionAuthorityDecoder, SessionAuthority, SessionAuthoritySIZE),
   PostExecutionAssertions |->
     ZeroCopy(getPostExecutionAssertionsDecoder, PostExecutionAssertions, PostExecutionAssertionsSIZE),
   PendingPolicyUpdate |->
     Borsh(getPendingPolicyUpdateDecoder, PendingPolicyUpdate, PendingPolicyUpdateSIZE),
   PendingAgentGrant |->
     Borsh(getPendingAgentGrantDecoder, PendingAgentGrant, PendingAgentGrantSIZE),
   PendingAgentPermissionsUpdate |->
     Borsh(getPendingAgentPermissionsUpdateDecoder, PendingAgentPermissionsUpdate, PendingAgentPermissionsUpdateSIZE),
   PendingOwnershipTransfer |->
     Borsh(getPendingOwnershipTransferDecoder, PendingOwnershipTransfer, PendingOwnershipTransferSIZE),
   AuditLogSuccess |->
     ZeroCopy(getAuditLogSuccessDecoder, AuditLogSuccess, AuditLogSuccessSIZE),
   AuditLogRejected |->
     ZeroCopy(getAuditLogRejectedDecoder, AuditLogRejected, AuditLogRejectedSIZE)]
=============================================================================
