------------------------- MODULE PolicyInstructions -------------------------
(***************************************************************************)
(* The generated clients of the instructions that change the policy, and   *)
(* what the program reads. For every instruction: its accounts in order    *)
(* with their roles, the accounts the caller must pass to the builder that *)
(* derives defaults and to the plain one, the defaults of the two builders *)
(* in the order they are filled in, the arguments, and the accounts in the *)
(* order the parser takes them; then the Accounts struct and the handler   *)
(* arguments of the program.                                               *)
(***************************************************************************)
EXTENDS ClientTables

-----------------------------------------------------------------------------
QueuePolicyUpdateInstruction ==
  <<SW("owner"), R("vault"), W("policy"), W("pendingPolicy"), R("systemProgram")>>

QueuePolicyUpdateInstructionData ==
  <<A("dailySpendingCapUsd", "option u64"), A("maxTransactionAmountUsd", "option u64"),
    A("protocolMode", "option u8"), A("protocols", "option vec address"),
    A("developerFeeRate", "option u16"), A("maxSlippageBps", "option u16"),
    A("timelockDuration", "option u64"), A("allowedDestinations", "option vec address"),
    A("sessionExpirySeconds", "option u64"), A("hasProtocolCaps", "option bool"),
    A("protocolCaps", "option vec u64"), A("destinationMode", "option u8"),
    A("operatingHours", "option u32"), A("stableBalanceFloor", "option u64"),
    A("perRecipientDailyCapUsd", "option u64"), A("cosignRequired", "option bool"),
    A("cosignSessionPubkey", "option address"), A("operatorGrantDelaySeconds", "option u64"),
    A("protocolHashes", "option array10 bytes32"), A("cosignSession", "address"),
    A("newPolicyPreviewDigest", "bytes32")>>

QueuePolicyUpdateAsyncInput == {"owner", "vault"}

getQueuePolicyUpdateInstructionAsync ==
  <<Pda("policy", "policy", <<"vault">>), Pda("pendingPolicy", "pending_policy", <<"vault">>),
    Known("systemProgram")>>

QueuePolicyUpdateInput == {"owner", "vault", "policy", "pendingPolicy"}

getQueuePolicyUpdateInstruction == <<Known("systemProgram")>>

parseQueuePolicyUpdateInstruction ==
  <<N("owner"), N("vault"), N("policy"), N("pendingPolicy"), N("systemProgram")>>

QueuePolicyUpdate ==
  <<SW("owner"), At(R("vault"), "vault", <<"vault.vaultAuthority", "vault.vaultId">>),
    At(W("policy"), "policy", <<"vault">>),
    At(W("pendingPolicy"), "pending_policy", <<"vault">>), R("systemProgram")>>

queue_policy_update ==
  <<A("dailySpendingCapUsd", "option u64"), A("maxTransactionAmountUsd", "option u64"),
    A("protocolMode", "option u8"), A("protocols", "option vec address"),
    A("developerFeeRate", "option u16"), A("maxSlippageBps", "option u16"),
    A("timelockDuration", "option u64"), A("allowedDestinations", "option vec address"),
    A("sessionExpirySeconds", "option u64"), A("hasProtocolCaps", "option bool"),
    A("protocolCaps", "option vec u64"), A("destinationMode", "option u8"),
    A("operatingHours", "option u32"), A("stableBalanceFloor", "option u64"),
    A("perRecipientDailyCapUsd", "option u64"), A("cosignRequired", "option bool"),
    A("cosignSessionPubkey", "option address"), A("operatorGrantDelaySeconds", "option u64"),
    A("protocolHashes", "option array10 bytes32"), A("cosignSession", "address"),
    A("newPolicyPreviewDigest", "bytes32")>>

-----------------------------------------------------------------------------
ApprovePendingPolicyInstruction == <<SR("cosigner"), R("vault"), R("policy"), W("pendingPolicy")>>

ApprovePendingPolicyInstructionData == <<>>

ApprovePendingPolicyAsyncInput == {"cosigner", "vault"}

getApprovePendingPolicyInstructionAsync ==
  <<Pda("policy", "policy", <<"vault">>), Pda("pendingPolicy", "pending_policy", <<"vault">>)>>

ApprovePendingPolicyInput == {"cosigner", "vault", "policy", "pendingPolicy"}

getApprovePendingPolicyInstruction == <<>>

parseApprovePendingPolicyInstruction ==
  <<N("cosigner"), N("vault"), N("policy"), N("pendingPolicy")>>

ApprovePendingPolicy ==
  <<SR("cosigner"), At(R("vault"), "vault", <<"vault.vaultAuthority", "vault.vaultId">>),
    At(R("policy"), "policy", <<"vault">>), At(W("pendingPolicy"), "pending_policy", <<"vault">>)>>

approve_pending_policy == <<>>

-----------------------------------------------------------------------------
ApplyPendingPolicyInstruction ==
  <<SW("owner"), R("vault"), W("policy"), W("pendingPolicy"), W("auditLogSuccess"),
    R("slotHashesSysvar"), R("systemProgram")>>

ApplyPendingPolicyInstructionData == <<>>

ApplyPendingPolicyAsyncInput == {"owner", "vault"}

getApplyPendingPolicyInstructionAsync ==
  <<Pda("policy", "policy", <<"vault">>), Pda("pendingPolicy", "pending_policy", <<"vault">>),
    Pda("auditLogSuccess", "audit_success", <<"vault">>), Known("slotHashesSysvar"),
    Known("systemProgram")>>

ApplyPendingPolicyInput == {"owner", "vault", "policy", "pendingPolicy", "auditLogSuccess"}

getApplyPendingPolicyInstruction == <<Known("slotHashesSysvar"), Known("systemProgram")>>

parseApplyPendingPolicyInstruction ==
  <<N("owner"), N("vault"), N("policy"), N("pendingPolicy"), N("auditLogSuccess"),
    N("slotHashesSysvar"), N("systemProgram")>>

ApplyPendingPolicy ==
  <<SW("owner"), At(R("vault"), "vault", <<"vault.vaultAuthority", "vault.vaultId">>),
    At(W("policy"), "policy", <<"vault">>),
    At(W("pendingPolicy"), "pending_policy", <<"vault">>),
    At(W("auditLogSuccess"), "audit_success", <<"vault">>), R("slotHashesSysvar"),
    R("systemProgram")>>

apply_pending_policy == <<>>

-----------------------------------------------------------------------------
CancelPendingPolicyInstruction == <<SW("owner"), R("vault"), W("policy"), W("pendingPolicy")>>

CancelPendingPolicyInstructionData == <<>>

CancelPendingPolicyAsyncInput == {"owner", "vault"}

getCancelPendingPolicyInstructionAsync ==
  <<Pda("policy", "policy", <<"vault">>), Pda("pendingPolicy", "pending_policy", <<"vault">>)>>

CancelPendingPolicyInput == {"owner", "vault", "policy", "pendingPolicy"}

getCancelPendingPolicyInstruction == <<>>

parseCancelPendingPolicyInstruction == <<N("owner"), N("vault"), N("policy"), N("pendingPolicy")>>

CancelPendingPolicy ==
  <<SW("owner"), At(R("vault"), "vault", <<"vault.vaultAuthority", "vault.vaultId">>),
    At(W("policy"), "policy", <<"vault">>), At(W("pendingPolicy"), "pending_policy", <<"vault">>)>>

cancel_pending_policy == <<>>

-----------------------------------------------------------------------------
PolicyInstructionsTable ==
  [queuePolicyUpdate |->
     Ix(QueuePolicyUpdateInstruction, QueuePolicyUpdateInstructionData, QueuePolicyUpdateAsyncInput,
        getQueuePolicyUpdateInstructionAsync, QueuePolicyUpdateInput, getQueuePolicyUpdateInstruction,
        parseQueuePolicyUpdateInstruction, QueuePolicyUpdate, queue_policy_update),
   approvePendingPolicy |->
     Ix(ApprovePendingPolicyInstruction, ApprovePendingPolicyInstructionData, ApprovePendingPolicyAsyncInput,
        getApprovePendingPolicyInstructionAsync, ApprovePendingPolicyInput, getApprovePendingPolicyInstruction,
        parseApprovePendingPolicyInstruction, ApprovePendingPolicy, approve_pending_policy),
   applyPendingPolicy |->
     Ix(ApplyPendingPolicyInstruction, ApplyPendingPolicyInstructionData, ApplyPendingPolicyAsyncInput,
        getApplyPendingPolicyInstructionAsync, ApplyPendingPolicyInput, getApplyPendingPolicyInstruction,
        parseApplyPendingPolicyInstruction, ApplyPendingPolicy, apply_pending_policy),
   cancelPendingPolicy |->
     Ix(CancelPendingPolicyInstruction, CancelPendingPolicyInstructionData, CancelPendingPolicyAsyncInput,
        getCancelPendingPolicyInstructionAsync, CancelPendingPolicyInput, getCancelPendingPolicyInstruction,
        parseCancelPendingPolicyInstruction, CancelPendingPolicy, cancel_pending_policy)]
=============================================================================
