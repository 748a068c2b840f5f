------------------------ MODULE SessionInstructions -------------------------
(***************************************************************************)
(* The generated clients of the session and transfer instructions agents   *)
(* send, and what the program reads. For every instruction: its accounts   *)
(* in order with their roles, the accounts the caller must pass to the     *)
(* builder that derives defaults and to the plain one, the defaults of the *)
(* two builders in the order they are filled in, the arguments, and the    *)
(* accounts in the order the parser takes them; then the Accounts struct   *)
(* and the handler arguments of the program.                               *)
(***************************************************************************)
EXTENDS ClientTables

-----------------------------------------------------------------------------
ValidateAndAuthorizeInstruction ==
  <<SW("agent"), W("vault"), R("policy"), W("tracker"), W("agentSpendOverlay"), W("session"),
    W("vaultTokenAccount"), R("tokenMintAccount"), O(W("outputStablecoinAccount")),
    O(W("outputSwapAccount")), R("tokenProgram"), R("systemProgram"), R("instructionsSysvar")>>

ValidateAndAuthorizeInstructionData ==
  <<A("tokenMint", "address"), A("amount", "u64"), A("targetProtocol", "address"),
    A("expectedPolicyVersion", "u64"), A("expectedNonce", "u64"),
    A("expectedIntentDigest", "bytes32")>>

ValidateAndAuthorizeAsyncInput ==
  {"agent", "vault", "agentSpendOverlay", "vaultTokenAccount", "tokenMintAccount"}

getValidateAndAuthorizeInstructionAsync ==
  <<Pda("policy", "policy", <<"vault">>), Pda("tracker", "tracker", <<"vault">>),
    Pda("session", "session", <<"vault", "agent", "tokenMint">>), Known("tokenProgram"),
    Known("systemProgram"), Known("instructionsSysvar")>>

ValidateAndAuthorizeInput ==
  {"agent", "vault", "policy", "tracker", "agentSpendOverlay", "session", "vaultTokenAccount",
   "tokenMintAccount"}

getValidateAndAuthorizeInstruction ==
  <<Known("tokenProgram"), Known("systemProgram"), Known("instructionsSysvar")>>

parseValidateAndAuthorizeInstruction ==
  <<N("agent"), N("vault"), N("policy"), N("tracker"), N("agentSpendOverlay"), N("session"),
    N("vaultTokenAccount"), N("tokenMintAccount"), Maybe("outputStablecoinAccount"),
    Maybe("outputSwapAccount"), N("tokenProgram"), N("systemProgram"), N("instructionsSysvar")>>

ValidateAndAuthorize ==
  <<SW("agent"), At(W("vault"), "vault", <<"vault.vaultAuthority", "vault.vaultId">>),
    At(R("policy"), "policy", <<"vault">>), At(W("tracker"), "tracker", <<"vault">>),
    At(W("agentSpendOverlay"), "agent_spend", <<"vault", "0">>),
    At(W("session"), "session", <<"vault", "agent", "tokenMint">>), W("vaultTokenAccount"),
    R("tokenMintAccount"), O(W("outputStablecoinAccount")), O(W("outputSwapAccount")),
    R("tokenProgram"), R("systemProgram"), R("instructionsSysvar")>>

validate_and_authorize ==
  <<A("tokenMint", "address"), A("amount", "u64"), A("targetProtocol", "address"),
    A("expectedPolicyVersion", "u64"), A("expectedNonce", "u64"),
    A("expectedIntentDigest", "bytes32")>>

-----------------------------------------------------------------------------
\* Faulty variant: a client generated before finalize wrote the tracker.
TrackerReadOnly ==
  <<SW("payer"), W("vault"), W("session"), W("sessionRentRecipient"), R("policy"), R("tracker"),
    W("agentSpendOverlay"), O(W("vaultTokenAccount")), O(W("outputStablecoinAccount")),
    O(W("outputSwapAccount")), O(W("protocolTreasuryTokenAccount")),
    O(W("feeDestinationTokenAccount")), R("tokenProgram"), R("systemProgram"),
    R("instructionsSysvar"), W("auditLogSuccess"), W("auditLogRejected"), R("slotHashesSysvar")>>

FinalizeSessionInstruction ==
  <<SW("payer"), W("vault"), W("session"), W("sessionRentRecipient"), R("policy"), W("tracker"),
    W("agentSpendOverlay"), O(W("vaultTokenAccount")), O(W("outputStablecoinAccount")),
    O(W("outputSwapAccount")), O(W("protocolTreasuryTokenAccount")),
    O(W("feeDestinationTokenAccount")), R("tokenProgram"), R("systemProgram"),
    R("instructionsSysvar"), W("auditLogSuccess"), W("auditLogRejected"), R("slotHashesSysvar")>>

FinalizeSessionInstructionData == <<>>

FinalizeSessionAsyncInput ==
  {"payer", "vault", "session", "sessionRentRecipient", "agentSpendOverlay"}

getFinalizeSessionInstructionAsync ==
  <<Pda("policy", "policy", <<"vault">>), Pda("tracker", "tracker", <<"vault">>),
    Known("tokenProgram"), Known("systemProgram"), Known("instructionsSysvar"),
    Pda("auditLogSuccess", "audit_success", <<"vault">>),
    Pda("auditLogRejected", "audit_rejected", <<"vault">>), Known("slotHashesSysvar")>>

FinalizeSessionInput ==
  {"payer", "vault", "session", "sessionRentRecipient", "policy", "tracker",
   "agentSpendOverlay", "auditLogSuccess", "auditLogRejected"}

getFinalizeSessionInstruction ==
  <<Known("tokenProgram"), Known("systemProgram"), Known("instructionsSysvar"),
    Known("slotHashesSysvar")>>

parseFinalizeSessionInstruction ==
  <<N("payer"), N("vault"), N("session"), N("sessionRentRecipient"), N("policy"), N("tracker"),
    N("agentSpendOverlay"), Maybe("vaultTokenAccount"), Maybe("outputStablecoinAccount"),
    Maybe("outputSwapAccount"), Maybe("protocolTreasuryTokenAccount"),
    Maybe("feeDestinationTokenAccount"), N("tokenProgram"), N("systemProgram"),
    N("instructionsSysvar"), N("auditLogSuccess"), N("auditLogRejected"), N("slotHashesSysvar")>>

FinalizeSession ==
  <<SW("payer"), At(W("vault"), "vault", <<"vault.vaultAuthority", "vault.vaultId">>),
    At(W("session"), "session", <<"vault", "session.agent", "session.authorizedToken">>),
    W("sessionRentRecipient"), At(R("policy"), "policy", <<"vault">>),
    At(W("tracker"), "tracker", <<"vault">>),
    At(W("agentSpendOverlay"), "agent_spend", <<"vault", "0">>), O(W("vaultTokenAccount")),
    O(W("outputStablecoinAccount")), O(W("outputSwapAccount")),
    O(W("protocolTreasuryTokenAccount")), O(W("feeDestinationTokenAccount")), R("tokenProgram"),
    R("systemProgram"), R("instructionsSysvar"),
    At(W("auditLogSuccess"), "audit_success", <<"vault">>),
    At(W("auditLogRejected"), "audit_rejected", <<"vault">>), R("slotHashesSysvar")>>

finalize_session == <<>>

-----------------------------------------------------------------------------
AgentTransferInstruction ==
  <<SW("agent"), W("vault"), R("policy"), W("tracker"), W("agentSpendOverlay"),
    W("vaultTokenAccount"), R("tokenMintAccount"), W("destinationTokenAccount"),
    O(W("feeDestinationTokenAccount")), O(W("protocolTreasuryTokenAccount")), R("tokenProgram"),
    W("auditLogSuccess"), R("slotHashesSysvar")>>

AgentTransferInstructionData == <<A("amount", "u64"), A("expectedPolicyVersion", "u64")>>

AgentTransferAsyncInput ==
  {"agent", "vault", "agentSpendOverlay", "vaultTokenAccount", "tokenMintAccount",
   "destinationTokenAccount"}

getAgentTransferInstructionAsync ==
  <<Pda("policy", "policy", <<"vault">>), Pda("tracker", "tracker", <<"vault">>),
    Known("tokenProgram"), Pda("auditLogSuccess", "audit_success", <<"vault">>),
    Known("slotHashesSysvar")>>

AgentTransferInput ==
  {"agent", "vault", "policy", "tracker", "agentSpendOverlay", "vaultTokenAccount",
   "tokenMintAccount", "destinationTokenAccount", "auditLogSuccess"}

getAgentTransferInstruction == <<Known("tokenProgram"), Known("slotHashesSysvar")>>

parseAgentTransferInstruction ==
  <<N("agent"), N("vault"), N("policy"), N("tracker"), N("agentSpendOverlay"),
    N("vaultTokenAccount"), N("tokenMintAccount"), N("destinationTokenAccount"),
    Maybe("feeDestinationTokenAccount"), Maybe("protocolTreasuryTokenAccount"),
    N("tokenProgram"), N("auditLogSuccess"), N("slotHashesSysvar")>>

AgentTransfer ==
  <<SW("agent"), At(W("vault"), "vault", <<"vault.vaultAuthority", "vault.vaultId">>),
    At(R("policy"), "policy", <<"vault">>), At(W("tracker"), "tracker", <<"vault">>),
    At(W("agentSpendOverlay"), "agent_spend", <<"vault", "0">>), W("vaultTokenAccount"),
    R("tokenMintAccount"), W("destinationTokenAccount"), O(W("feeDestinationTokenAccount")),
    O(W("protocolTreasuryTokenAccount")), R("tokenProgram"),
    At(W("auditLogSuccess"), "audit_success", <<"vault">>), R("slotHashesSysvar")>>

agent_transfer == <<A("amount", "u64"), A("expectedPolicyVersion", "u64")>>

-----------------------------------------------------------------------------
RecordAgentViolationInstruction ==
  <<SR("owner"), W("vault"), W("policy"), W("auditLogSuccess"), R("slotHashesSysvar")>>

RecordAgentViolationInstructionData == <<A("agent", "address"), A("errorCode", "u32")>>

RecordAgentViolationAsyncInput == {"owner", "vault"}

getRecordAgentViolationInstructionAsync ==
  <<Pda("policy", "policy", <<"vault">>), Pda("auditLogSuccess", "audit_success", <<"vault">>),
    Known("slotHashesSysvar")>>

RecordAgentViolationInput == {"owner", "vault", "policy", "auditLogSuccess"}

getRecordAgentViolationInstruction == <<Known("slotHashesSysvar")>>

parseRecordAgentViolationInstruction ==
  <<N("owner"), N("vault"), N("policy"), N("auditLogSuccess"), N("slotHashesSysvar")>>

RecordAgentViolation ==
  <<SR("owner"), At(W("vault"), "vault", <<"vault.vaultAuthority", "vault.vaultId">>),
    At(W("policy"), "policy", <<"vault">>),
    At(W("auditLogSuccess"), "audit_success", <<"vault">>), R("slotHashesSysvar")>>

record_agent_violation == <<A("agent", "address"), A("errorCode", "u32")>>

-----------------------------------------------------------------------------
SessionInstructionsTable ==
  [validateAndAuthorize |->
     Ix(ValidateAndAuthorizeInstruction, ValidateAndAuthorizeInstructionData, ValidateAndAuthorizeAsyncInput,
        getValidateAndAuthorizeInstructionAsync, ValidateAndAuthorizeInput, getValidateAndAuthorizeInstruction,
        parseValidateAndAuthorizeInstruction, ValidateAndAuthorize, validate_and_authorize),
   finalizeSession |->
     Ix(FinalizeSessionInstruction, FinalizeSessionInstructionData, FinalizeSessionAsyncInput,
        getFinalizeSessionInstructionAsync, FinalizeSessionInput, getFinalizeSessionInstruction,
        parseFinalizeSessionInstruction, FinalizeSession, finalize_session),
   agentTransfer |->
     Ix(AgentTransferInstruction, AgentTransferInstructionData, AgentTransferAsyncInput,
        getAgentTransferInstructionAsync, AgentTransferInput, getAgentTransferInstruction,
        parseAgentTransferInstruction, AgentTransfer, agent_transfer),
   recordAgentViolation |->
     Ix(RecordAgentViolationInstruction, RecordAgentViolationInstructionData, RecordAgentViolationAsyncInput,
        getRecordAgentViolationInstructionAsync, RecordAgentViolationInput, getRecordAgentViolationInstruction,
        parseRecordAgentViolationInstruction, RecordAgentViolation, record_agent_violation)]
=============================================================================
