---------------------------- MODULE ErrorTables -----------------------------
(***************************************************************************)
(* The error codes of the program and what the client knows of each: its   *)
(* name, its category, whether the same request may succeed when it is     *)
(* retried, and after how many milliseconds. Messages and recovery texts   *)
(* are left out.                                                           *)
(***************************************************************************)
EXTENDS Naturals, Sequences

E(name, category, retryable, after) ==
  [name |-> name, category |-> category, retryable |-> retryable, after |-> after]

\* The program: the variant at position i is reported as 6000 + i - 1.
SigilError ==
  <<"VaultNotActive", "UnauthorizedAgent", "UnauthorizedOwner", "UnsupportedToken",
    "ProtocolNotAllowed", "TransactionTooLarge", "SpendingCapExceeded", "SessionNotAuthorized",
    "InvalidSession", "TooManyAllowedProtocols", "AgentAlreadyRegistered", "NoAgentRegistered",
    "VaultNotFrozen", "VaultAlreadyClosed", "InsufficientBalance", "DeveloperFeeTooHigh",
    "InvalidFeeDestination", "InvalidProtocolTreasury", "InvalidAgentKey", "AgentIsOwner",
    "Overflow", "InvalidTokenAccount", "TimelockNotExpired", "NoTimelockConfigured",
    "DestinationNotAllowed", "TooManyDestinations", "InvalidProtocolMode", "CpiCallNotAllowed",
    "MissingFinalizeInstruction", "NonTrackedSwapMustReturnStablecoin",
    "UnauthorizedTokenTransfer", "SlippageBpsTooHigh", "ProtocolMismatch",
    "TooManyDeFiInstructions", "MaxAgentsReached", "InsufficientPermissions",
    "InvalidPermissions", "InvalidConstraintConfig", "AgentSpendLimitExceeded",
    "OverlaySlotExhausted", "AgentSlotNotFound", "UnauthorizedTokenApproval",
    "InvalidSessionExpiry", "ProtocolCapExceeded", "ProtocolCapsMismatch", "PendingPolicyExists",
    "AgentPaused", "AgentAlreadyPaused", "AgentNotPaused", "UnauthorizedPostFinalizeInstruction",
    "UnexpectedBalanceDecrease", "TimelockTooShort", "PolicyVersionMismatch",
    "ActiveSessionsExist", "PostAssertionFailed", "InvalidPostAssertionIndex",
    "UnauthorizedPreValidateInstruction", "SnapshotNotCaptured", "InvalidConstraintOperator",
    "ZeroCopyVaultMismatch", "QueuedUpdateExpired", "AccountWritabilityMismatch",
    "SysvarScanBoundExceeded", "AsyncFulfillmentNotPermitted", "ConfidentialTransferBlocked",
    "PermanentDelegateBlocked", "TransferHookBlocked", "LamportDrainBlocked",
    "BatchInstructionBlocked", "InvalidDestinationMode", "InvalidCapability",
    "PolicyPreviewMismatch", "ObserveOnlyModeBlocksExecute", "ActiveVaultRequiresAllowlist",
    "ErrMintNotPinned", "ErrOutsideOperatingHours", "ErrCooldownActive", "ErrGraylistFriction",
    "ErrGraylistFull", "ErrToken2022ExtensionForbidden", "ErrCosignRequired", "ErrAutoRevoked",
    "ErrSandwichIntegrity", "ErrProtectedWritable", "ErrSessionNonceMismatch",
    "ErrStableFloorViolation", "ErrDailyCapExceeded", "ErrRecipientCapExceeded",
    "ErrMintDeltaCapExceeded", "MintDeltaCapMisconfigured", "ErrAtaAuthorityChanged",
    "ErrOutputBelowFloor", "ErrDeclarationInconsistent", "IxMetaCountExceeded",
    "ErrPendingOwnershipExists", "ErrPendingOwnershipNotReady", "ErrInvalidFreezeReason",
    "ErrReactivateCooldownActive", "ErrInvalidOwnershipTarget", "ErrTooManyRevokePairs",
    "ErrPostAssertionsNotClosed", "ErrDestinationIsProtectedPda", "ErrIntentDigestMismatch",
    "ErrPendingAgentGrantDigestMismatch", "ErrReactivateCosignRequiredForFullCapability",
    "DestinationAccountUnresolvable", "ErrToken2022OutputMintUnresolvable",
    "ErrOperatorGrantRequiresTimelock", "ErrOperatorGrantDelayTooLong", "InvalidOwnerType",
    "SpendAccountingUnderflow", "ErrMultisigCustodyUnsupported", "ErrOutputNotVaultOwned",
    "ErrFinalizeMetaUnresolvable", "ErrDeFiInstructionNotAdjacentToFinalize",
    "ErrUnmeasurableSpend", "ErrProgramDataUnresolvable", "ErrProgramBuildMismatch",
    "TimelockTooLong">>

\* The generated client: the constants, in the order of their codes.
SIGIL_ERROR ==
  <<"VaultNotActive", "UnauthorizedAgent", "UnauthorizedOwner", "UnsupportedToken",
    "ProtocolNotAllowed", "TransactionTooLarge", "SpendingCapExceeded", "SessionNotAuthorized",
    "InvalidSession", "TooManyAllowedProtocols", "AgentAlreadyRegistered", "NoAgentRegistered",
    "VaultNotFrozen", "VaultAlreadyClosed", "InsufficientBalance", "DeveloperFeeTooHigh",
    "InvalidFeeDestination", "InvalidProtocolTreasury", "InvalidAgentKey", "AgentIsOwner",
    "Overflow", "InvalidTokenAccount", "TimelockNotExpired", "NoTimelockConfigured",
    "DestinationNotAllowed", "TooManyDestinations", "InvalidProtocolMode", "CpiCallNotAllowed",
    "MissingFinalizeInstruction", "NonTrackedSwapMustReturnStablecoin",
    "UnauthorizedTokenTransfer", "SlippageBpsTooHigh", "ProtocolMismatch",
    "TooManyDeFiInstructions", "MaxAgentsReached", "InsufficientPermissions",
    "InvalidPermissions", "InvalidConstraintConfig", "AgentSpendLimitExceeded",
    "OverlaySlotExhausted", "AgentSlotNotFound", "UnauthorizedTokenApproval",
    "InvalidSessionExpiry", "ProtocolCapExceeded", "ProtocolCapsMismatch", "PendingPolicyExists",
    "AgentPaused", "AgentAlreadyPaused", "AgentNotPaused", "UnauthorizedPostFinalizeInstruction",
    "UnexpectedBalanceDecrease", "TimelockTooShort", "PolicyVersionMismatch",
    "ActiveSessionsExist", "PostAssertionFailed", "InvalidPostAssertionIndex",
    "UnauthorizedPreValidateInstruction", "SnapshotNotCaptured", "InvalidConstraintOperator",
    "ZeroCopyVaultMismatch", "QueuedUpdateExpired", "AccountWritabilityMismatch",
    "SysvarScanBoundExceeded", "AsyncFulfillmentNotPermitted", "ConfidentialTransferBlocked",
    "PermanentDelegateBlocked", "TransferHookBlocked", "LamportDrainBlocked",
    "BatchInstructionBlocked", "InvalidDestinationMode", "InvalidCapability",
    "PolicyPreviewMismatch", "ObserveOnlyModeBlocksExecute", "ActiveVaultRequiresAllowlist",
    "ErrMintNotPinned", "ErrOutsideOperatingHours", "ErrCooldownActive", "ErrGraylistFriction",
    "ErrGraylistFull", "ErrToken2022ExtensionForbidden", "ErrCosignRequired", "ErrAutoRevoked",
    "ErrSandwichIntegrity", "ErrProtectedWritable", "ErrSessionNonceMismatch",
    "ErrStableFloorViolation", "ErrDailyCapExceeded", "ErrRecipientCapExceeded",
    "ErrMintDeltaCapExceeded", "MintDeltaCapMisconfigured", "ErrAtaAuthorityChanged",
    "ErrOutputBelowFloor", "ErrDeclarationInconsistent", "IxMetaCountExceeded",
    "ErrPendingOwnershipExists", "ErrPendingOwnershipNotReady", "ErrInvalidFreezeReason",
    "ErrReactivateCooldownActive", "ErrInvalidOwnershipTarget", "ErrTooManyRevokePairs",
    "ErrPostAssertionsNotClosed", "ErrDestinationIsProtectedPda", "ErrIntentDigestMismatch",
    "ErrPendingAgentGrantDigestMismatch", "ErrReactivateCosignRequiredForFullCapability",
    "DestinationAccountUnresolvable", "ErrToken2022OutputMintUnresolvable",
    "ErrOperatorGrantRequiresTimelock", "ErrOperatorGrantDelayTooLong", "InvalidOwnerType",
    "SpendAccountingUnderflow", "ErrMultisigCustodyUnsupported", "ErrOutputNotVaultOwned",
    "ErrFinalizeMetaUnresolvable", "ErrDeFiInstructionNotAdjacentToFinalize",
    "ErrUnmeasurableSpend", "ErrProgramDataUnresolvable", "ErrProgramBuildMismatch",
    "TimelockTooLong">>

-----------------------------------------------------------------------------
Errors6000 ==
  <<E("VaultNotActive", "RESOURCE_NOT_FOUND", FALSE, 0),
    E("UnauthorizedAgent", "PERMISSION", FALSE, 0),
    E("UnauthorizedOwner", "PERMISSION", FALSE, 0),
    E("UnsupportedToken", "INPUT_VALIDATION", FALSE, 0),
    E("ProtocolNotAllowed", "POLICY_VIOLATION", FALSE, 0),
    E("TransactionTooLarge", "SPENDING_CAP", FALSE, 0),
    E("SpendingCapExceeded", "SPENDING_CAP", TRUE, 3600000),
    E("SessionNotAuthorized", "PERMISSION", FALSE, 0),
    E("InvalidSession", "PERMISSION", FALSE, 0)>>

Errors6009 ==
  <<E("TooManyAllowedProtocols", "INPUT_VALIDATION", FALSE, 0),
    E("AgentAlreadyRegistered", "INPUT_VALIDATION", FALSE, 0),
    E("NoAgentRegistered", "RESOURCE_NOT_FOUND", FALSE, 0),
    E("VaultNotFrozen", "INPUT_VALIDATION", FALSE, 0),
    E("VaultAlreadyClosed", "INPUT_VALIDATION", FALSE, 0),
    E("InsufficientBalance", "SPENDING_CAP", FALSE, 0),
    E("DeveloperFeeTooHigh", "INPUT_VALIDATION", FALSE, 0),
    E("InvalidFeeDestination", "INPUT_VALIDATION", FALSE, 0),
    E("InvalidProtocolTreasury", "INPUT_VALIDATION", FALSE, 0),
    E("InvalidAgentKey", "INPUT_VALIDATION", FALSE, 0),
    E("AgentIsOwner", "INPUT_VALIDATION", FALSE, 0)>>

Errors6020 ==
  <<E("Overflow", "FATAL", FALSE, 0),
    E("InvalidTokenAccount", "INPUT_VALIDATION", FALSE, 0),
    E("TimelockNotExpired", "POLICY_VIOLATION", TRUE, 60000),
    E("NoTimelockConfigured", "INPUT_VALIDATION", FALSE, 0),
    E("DestinationNotAllowed", "POLICY_VIOLATION", FALSE, 0),
    E("TooManyDestinations", "INPUT_VALIDATION", FALSE, 0),
    E("InvalidProtocolMode", "INPUT_VALIDATION", FALSE, 0),
    E("CpiCallNotAllowed", "FATAL", FALSE, 0),
    E("MissingFinalizeInstruction", "INPUT_VALIDATION", FALSE, 0),
    E("NonTrackedSwapMustReturnStablecoin", "INPUT_VALIDATION", FALSE, 0)>>

Errors6030 ==
  <<E("UnauthorizedTokenTransfer", "POLICY_VIOLATION", FALSE, 0),
    E("SlippageBpsTooHigh", "INPUT_VALIDATION", FALSE, 0),
    E("ProtocolMismatch", "INPUT_VALIDATION", FALSE, 0),
    E("TooManyDeFiInstructions", "INPUT_VALIDATION", FALSE, 0),
    E("MaxAgentsReached", "INPUT_VALIDATION", FALSE, 0),
    E("InsufficientPermissions", "PERMISSION", FALSE, 0),
    E("InvalidPermissions", "INPUT_VALIDATION", FALSE, 0),
    E("InvalidConstraintConfig", "INPUT_VALIDATION", FALSE, 0),
    E("AgentSpendLimitExceeded", "SPENDING_CAP", TRUE, 3600000)>>

Errors6039 ==
  <<E("OverlaySlotExhausted", "INPUT_VALIDATION", FALSE, 0),
    E("AgentSlotNotFound", "RESOURCE_NOT_FOUND", FALSE, 0),
    E("UnauthorizedTokenApproval", "POLICY_VIOLATION", FALSE, 0),
    E("InvalidSessionExpiry", "INPUT_VALIDATION", FALSE, 0),
    E("ProtocolCapExceeded", "SPENDING_CAP", TRUE, 3600000),
    E("ProtocolCapsMismatch", "INPUT_VALIDATION", FALSE, 0),
    E("PendingPolicyExists", "RESOURCE_NOT_FOUND", FALSE, 0),
    E("AgentPaused", "PERMISSION", FALSE, 0),
    E("AgentAlreadyPaused", "INPUT_VALIDATION", FALSE, 0),
    E("AgentNotPaused", "INPUT_VALIDATION", FALSE, 0)>>

Errors6049 ==
  <<E("UnauthorizedPostFinalizeInstruction", "POLICY_VIOLATION", FALSE, 0),
    E("UnexpectedBalanceDecrease", "FATAL", FALSE, 0),
    E("TimelockTooShort", "INPUT_VALIDATION", FALSE, 0),
    E("PolicyVersionMismatch", "TRANSIENT", TRUE, 1000),
    E("ActiveSessionsExist", "POLICY_VIOLATION", TRUE, 10000),
    E("PostAssertionFailed", "POLICY_VIOLATION", FALSE, 0),
    E("InvalidPostAssertionIndex", "INPUT_VALIDATION", FALSE, 0),
    E("UnauthorizedPreValidateInstruction", "PERMISSION", FALSE, 0),
    E("SnapshotNotCaptured", "INPUT_VALIDATION", FALSE, 0)>>

Errors6058 ==
  <<E("InvalidConstraintOperator", "INPUT_VALIDATION", FALSE, 0),
    E("ZeroCopyVaultMismatch", "INPUT_VALIDATION", FALSE, 0),
    E("QueuedUpdateExpired", "POLICY_VIOLATION", FALSE, 0),
    E("AccountWritabilityMismatch", "INPUT_VALIDATION", FALSE, 0),
    E("SysvarScanBoundExceeded", "INPUT_VALIDATION", FALSE, 0),
    E("AsyncFulfillmentNotPermitted", "POLICY_VIOLATION", FALSE, 0),
    E("ConfidentialTransferBlocked", "POLICY_VIOLATION", FALSE, 0),
    E("PermanentDelegateBlocked", "POLICY_VIOLATION", FALSE, 0),
    E("TransferHookBlocked", "POLICY_VIOLATION", FALSE, 0),
    E("LamportDrainBlocked", "POLICY_VIOLATION", FALSE, 0)>>

Errors6068 ==
  <<E("BatchInstructionBlocked", "POLICY_VIOLATION", FALSE, 0),
    E("InvalidDestinationMode", "INPUT_VALIDATION", FALSE, 0),
    E("InvalidCapability", "INPUT_VALIDATION", FALSE, 0),
    E("PolicyPreviewMismatch", "INPUT_VALIDATION", FALSE, 0),
    E("ObserveOnlyModeBlocksExecute", "POLICY_VIOLATION", FALSE, 0),
    E("ActiveVaultRequiresAllowlist", "INPUT_VALIDATION", FALSE, 0),
    E("ErrMintNotPinned", "INPUT_VALIDATION", FALSE, 0),
    E("ErrOutsideOperatingHours", "POLICY_VIOLATION", TRUE, 0),
    E("ErrCooldownActive", "POLICY_VIOLATION", TRUE, 0),
    E("ErrGraylistFriction", "POLICY_VIOLATION", TRUE, 0)>>

Errors6078 ==
  <<E("ErrGraylistFull", "INPUT_VALIDATION", FALSE, 0),
    E("ErrToken2022ExtensionForbidden", "INPUT_VALIDATION", FALSE, 0),
    E("ErrCosignRequired", "PERMISSION", FALSE, 0),
    E("ErrAutoRevoked", "PERMISSION", FALSE, 0),
    E("ErrSandwichIntegrity", "POLICY_VIOLATION", FALSE, 0),
    E("ErrProtectedWritable", "POLICY_VIOLATION", FALSE, 0),
    E("ErrSessionNonceMismatch", "INPUT_VALIDATION", FALSE, 0),
    E("ErrStableFloorViolation", "POLICY_VIOLATION", FALSE, 0)>>

Errors6086 ==
  <<E("ErrDailyCapExceeded", "SPENDING_CAP", TRUE, 3600000),
    E("ErrRecipientCapExceeded", "SPENDING_CAP", TRUE, 3600000),
    E("ErrMintDeltaCapExceeded", "POLICY_VIOLATION", FALSE, 0),
    E("MintDeltaCapMisconfigured", "FATAL", FALSE, 0)>>

Errors6090 ==
  <<E("ErrAtaAuthorityChanged", "POLICY_VIOLATION", FALSE, 0),
    E("ErrOutputBelowFloor", "POLICY_VIOLATION", FALSE, 0),
    E("ErrDeclarationInconsistent", "POLICY_VIOLATION", FALSE, 0),
    E("IxMetaCountExceeded", "POLICY_VIOLATION", FALSE, 0),
    E("ErrPendingOwnershipExists", "POLICY_VIOLATION", FALSE, 0),
    E("ErrPendingOwnershipNotReady", "TRANSIENT", TRUE, 0),
    E("ErrInvalidFreezeReason", "INPUT_VALIDATION", FALSE, 0),
    E("ErrReactivateCooldownActive", "TRANSIENT", TRUE, 300000)>>

Errors6098 ==
  <<E("ErrInvalidOwnershipTarget", "INPUT_VALIDATION", FALSE, 0),
    E("ErrTooManyRevokePairs", "INPUT_VALIDATION", FALSE, 0),
    E("ErrPostAssertionsNotClosed", "RESOURCE_NOT_FOUND", FALSE, 0),
    E("ErrDestinationIsProtectedPda", "INPUT_VALIDATION", FALSE, 0),
    E("ErrIntentDigestMismatch", "POLICY_VIOLATION", FALSE, 0),
    E("ErrPendingAgentGrantDigestMismatch", "POLICY_VIOLATION", FALSE, 0),
    E("ErrReactivateCosignRequiredForFullCapability", "ESCALATION_REQUIRED", FALSE, 0),
    E("DestinationAccountUnresolvable", "POLICY_VIOLATION", FALSE, 0)>>

Errors6106 ==
  <<E("ErrToken2022OutputMintUnresolvable", "POLICY_VIOLATION", FALSE, 0),
    E("ErrOperatorGrantRequiresTimelock", "POLICY_VIOLATION", FALSE, 0),
    E("ErrOperatorGrantDelayTooLong", "POLICY_VIOLATION", FALSE, 0),
    E("InvalidOwnerType", "POLICY_VIOLATION", FALSE, 0),
    E("SpendAccountingUnderflow", "POLICY_VIOLATION", FALSE, 0),
    E("ErrMultisigCustodyUnsupported", "POLICY_VIOLATION", FALSE, 0),
    E("ErrOutputNotVaultOwned", "POLICY_VIOLATION", FALSE, 0),
    E("ErrFinalizeMetaUnresolvable", "POLICY_VIOLATION", FALSE, 0),
    E("ErrDeFiInstructionNotAdjacentToFinalize", "POLICY_VIOLATION", FALSE, 0),
    E("ErrUnmeasurableSpend", "POLICY_VIOLATION", FALSE, 0)>>

Errors6116 ==
  <<E("ErrProgramDataUnresolvable", "POLICY_VIOLATION", FALSE, 0),
    E("ErrProgramBuildMismatch", "POLICY_VIOLATION", FALSE, 0),
    E("TimelockTooLong", "INPUT_VALIDATION", FALSE, 0)>>

ON_CHAIN_ERROR_MAP ==
  Errors6000 \o Errors6009 \o Errors6020 \o Errors6030 \o Errors6039 \o Errors6049
  \o Errors6058 \o Errors6068 \o Errors6078 \o Errors6086 \o Errors6090 \o Errors6098
  \o Errors6106 \o Errors6116

-----------------------------------------------------------------------------
\* The errors of the client itself: the entry at position i has code 7000 + i - 1.
SDK_ERROR_CODES ==
  <<"NETWORK_ERROR", "RPC_ERROR", "SIMULATION_FAILED", "DRAIN_DETECTED",
    "INTENT_VALIDATION_FAILED", "INTENT_EXPIRED", "PROTOCOL_NOT_SUPPORTED",
    "ADAPTER_VERIFICATION_FAILED", "PRECHECK_FAILED", "EXECUTION_FAILED", "TRANSACTION_TIMEOUT",
    "CONFIRMATION_TIMEOUT", "INSUFFICIENT_FUNDS", "SLIPPAGE_EXCEEDED", "TEE_VERIFICATION_FAILED",
    "SHIELD_DENIED", "SIMULATION_TIMEOUT", "BLOCKHASH_EXPIRED", "CODAMA_DECODE_FAILED",
    "CODAMA_VERSION_MISMATCH", "COMPAT_BRIDGE_FAILED", "INTENT_DRIFT_DETECTED",
    "VELOCITY_EXCEEDED", "AGENT_DEFENSE_TRIGGERED", "X402_PARSE_ERROR", "X402_PAYMENT_DENIED",
    "X402_UNSUPPORTED", "X402_DESTINATION_BLOCKED", "X402_REPLAY_DETECTED",
    "X402_AMOUNT_SUSPICIOUS", "X402_FACILITATOR_UNTRUSTED", "X402_CONNECTION_REQUIRED",
    "X402_SETTLEMENT_FAILED", "TX_SIZE_OVERFLOW">>

SdkErrors7000 ==
  <<E("NetworkError", "TRANSIENT", TRUE, 2000),
    E("RpcError", "TRANSIENT", TRUE, 3000),
    E("SimulationFailed", "TRANSIENT", TRUE, 2000),
    E("DrainDetected", "FATAL", FALSE, 0),
    E("IntentValidationFailed", "INPUT_VALIDATION", FALSE, 0),
    E("IntentExpired", "TRANSIENT", TRUE, 1000),
    E("ProtocolNotSupported", "PROTOCOL_NOT_SUPPORTED", FALSE, 0),
    E("AdapterVerificationFailed", "FATAL", FALSE, 0),
    E("PrecheckFailed", "INPUT_VALIDATION", FALSE, 0),
    E("ExecutionFailed", "TRANSIENT", TRUE, 2000),
    E("TransactionTimeout", "TRANSIENT", TRUE, 5000)>>

SdkErrors7011 ==
  <<E("ConfirmationTimeout", "TRANSIENT", TRUE, 5000),
    E("InsufficientFunds", "SPENDING_CAP", FALSE, 0),
    E("SlippageExceeded", "TRANSIENT", TRUE, 3000),
    E("TeeVerificationFailed", "FATAL", FALSE, 0),
    E("ShieldDenied", "POLICY_VIOLATION", FALSE, 0),
    E("SimulationTimeout", "TRANSIENT", TRUE, 5000),
    E("BlockhashExpired", "TRANSIENT", TRUE, 1000),
    E("CodamaDecodeFailed", "FATAL", FALSE, 0),
    E("CodamaVersionMismatch", "FATAL", FALSE, 0),
    E("CompatBridgeFailed", "FATAL", FALSE, 0)>>

SdkErrors7021 ==
  <<E("IntentDriftDetected", "POLICY_VIOLATION", FALSE, 0),
    E("VelocityExceeded", "RATE_LIMIT", TRUE, 30000),
    E("AgentDefenseTriggered", "POLICY_VIOLATION", FALSE, 0),
    E("X402ParseError", "INPUT_VALIDATION", FALSE, 0),
    E("X402PaymentDenied", "POLICY_VIOLATION", FALSE, 0),
    E("X402Unsupported", "INPUT_VALIDATION", FALSE, 0),
    E("X402DestinationBlocked", "POLICY_VIOLATION", FALSE, 0),
    E("X402ReplayDetected", "POLICY_VIOLATION", FALSE, 0),
    E("X402AmountSuspicious", "POLICY_VIOLATION", FALSE, 0),
    E("X402FacilitatorUntrusted", "POLICY_VIOLATION", FALSE, 0),
    E("X402ConnectionRequired", "INPUT_VALIDATION", FALSE, 0)>>

SdkErrors7032 ==
  <<E("X402SettlementFailed", "TRANSIENT", TRUE, 5000),
    E("TxSizeOverflow", "INPUT_VALIDATION", FALSE, 0)>>

SDK_ERRORS == SdkErrors7000 \o SdkErrors7011 \o SdkErrors7021 \o SdkErrors7032
=============================================================================
