------------------------- MODULE AgentInstructions --------------------------
(***************************************************************************)
(* The generated clients of the instructions that manage agents, and what  *)
(* the program reads. For every instruction: its accounts in order with    *)
(* their roles, the accounts the caller must pass to the builder that      *)
(* derives defaults and to the plain one, the defaults of the two builders *)
(* in the order they are filled in, the arguments, and the accounts in the *)
(* order the parser takes them; then the Accounts struct and the handler   *)
(* arguments of the program.                                               *)
(***************************************************************************)
EXTENDS ClientTables

-----------------------------------------------------------------------------
RegisterAgentInstruction ==
  <<SR("owner"), W("vault"), W("policy"), W("agentSpendOverlay"), W("auditLogSuccess"),
    R("slotHashesSysvar")>>

RegisterAgentInstructionData ==
  <<A("agent", "address"), A("capability", "u8"), A("spendingLimitUsd", "u64")>>

RegisterAgentAsyncInput == {"owner", "vault", "agentSpendOverlay"}

getRegisterAgentInstructionAsync ==
  <<Pda("policy", "policy", <<"vault">>), Pda("auditLogSuccess", "audit_success", <<"vault">>),
    Known("slotHashesSysvar")>>

RegisterAgentInput == {"owner", "vault", "policy", "agentSpendOverlay", "auditLogSuccess"}

getRegisterAgentInstruction == <<Known("slotHashesSysvar")>>

parseRegisterAgentInstruction ==
  <<N("owner"), N("vault"), N("policy"), N("agentSpendOverlay"), N("auditLogSuccess"),
    N("slotHashesSysvar")>>

RegisterAgent ==
  <<SR("owner"), At(W("vault"), "vault", <<"vault.vaultAuthority", "vault.vaultId">>),
    At(W("policy"), "policy", <<"vault">>),
    At(W("agentSpendOverlay"), "agent_spend", <<"vault", "0">>),
    At(W("auditLogSuccess"), "audit_success", <<"vault">>), R("slotHashesSysvar")>>

register_agent == <<A("agent", "address"), A("capability", "u8"), A("spendingLimitUsd", "u64")>>

-----------------------------------------------------------------------------
RevokeAgentInstruction ==
  <<SR("owner"), W("vault"), W("policy"), W("agentSpendOverlay"), W("auditLogSuccess"),
    R("slotHashesSysvar")>>

RevokeAgentInstructionData == <<A("agentToRemove", "address")>>

RevokeAgentAsyncInput == {"owner", "vault", "agentSpendOverlay"}

getRevokeAgentInstructionAsync ==
  <<Pda("policy", "policy", <<"vault">>), Pda("auditLogSuccess", "audit_success", <<"vault">>),
    Known("slotHashesSysvar")>>

RevokeAgentInput == {"owner", "vault", "policy", "agentSpendOverlay", "auditLogSuccess"}

getRevokeAgentInstruction == <<Known("slotHashesSysvar")>>

parseRevokeAgentInstruction ==
  <<N("owner"), N("vault"), N("policy"), N("agentSpendOverlay"), N("auditLogSuccess"),
    N("slotHashesSysvar")>>

RevokeAgent ==
  <<SR("owner"), At(W("vault"), "vault", <<"vault.vaultAuthority", "vault.vaultId">>),
    At(W("policy"), "policy", <<"vault">>),
    At(W("agentSpendOverlay"), "agent_spend", <<"vault", "0">>),
    At(W("auditLogSuccess"), "audit_success", <<"vault">>), R("slotHashesSysvar")>>

revoke_agent == <<A("agentToRemove", "address")>>

-----------------------------------------------------------------------------
PauseAgentInstruction ==
  <<SR("owner"), W("vault"), W("policy"), W("auditLogSuccess"), R("slotHashesSysvar")>>

PauseAgentInstructionData == <<A("agentToPause", "address")>>

PauseAgentAsyncInput == {"owner", "vault"}

getPauseAgentInstructionAsync ==
  <<Pda("policy", "policy", <<"vault">>), Pda("auditLogSuccess", "audit_success", <<"vault">>),
    Known("slotHashesSysvar")>>

PauseAgentInput == {"owner", "vault", "policy", "auditLogSuccess"}

getPauseAgentInstruction == <<Known("slotHashesSysvar")>>

parsePauseAgentInstruction ==
  <<N("owner"), N("vault"), N("policy"), N("auditLogSuccess"), N("slotHashesSysvar")>>

PauseAgent ==
  <<SR("owner"), At(W("vault"), "vault", <<"vault.vaultAuthority", "vault.vaultId">>),
    At(W("policy"), "policy", <<"vault">>),
    At(W("auditLogSuccess"), "audit_success", <<"vault">>), R("slotHashesSysvar")>>

pause_agent == <<A("agentToPause", "address")>>

-----------------------------------------------------------------------------
UnpauseAgentInstruction ==
  <<SR("owner"), W("vault"), W("policy"), W("auditLogSuccess"), R("slotHashesSysvar")>>

UnpauseAgentInstructionData == <<A("agentToUnpause", "address")>>

UnpauseAgentAsyncInput == {"owner", "vault"}

getUnpauseAgentInstructionAsync ==
  <<Pda("policy", "policy", <<"vault">>), Pda("auditLogSuccess", "audit_success", <<"vault">>),
    Known("slotHashesSysvar")>>

UnpauseAgentInput == {"owner", "vault", "policy", "auditLogSuccess"}

getUnpauseAgentInstruction == <<Known("slotHashesSysvar")>>

parseUnpauseAgentInstruction ==
  <<N("owner"), N("vault"), N("policy"), N("auditLogSuccess"), N("slotHashesSysvar")>>

UnpauseAgent ==
  <<SR("owner"), At(W("vault"), "vault", <<"vault.vaultAuthority", "vault.vaultId">>),
    At(W("policy"), "policy", <<"vault">>),
    At(W("auditLogSuccess"), "audit_success", <<"vault">>), R("slotHashesSysvar")>>

unpause_agent == <<A("agentToUnpause", "address")>>

-----------------------------------------------------------------------------
QueueAgentGrantInstruction ==
  <<SW("owner"), R("vault"), R("policy"), W("pending"), W("auditLogSuccess"),
    R("slotHashesSysvar"), R("systemProgram")>>

QueueAgentGrantInstructionData ==
  <<A("agent", "address"), A("capability", "u8"), A("spendingLimitUsd", "u64")>>

QueueAgentGrantAsyncInput == {"owner", "vault"}

getQueueAgentGrantInstructionAsync ==
  <<Pda("policy", "policy", <<"vault">>), Pda("pending", "pending_agent_grant", <<"vault">>),
    Pda("auditLogSuccess", "audit_success", <<"vault">>), Known("slotHashesSysvar"),
    Known("systemProgram")>>

QueueAgentGrantInput == {"owner", "vault", "policy", "pending", "auditLogSuccess"}

getQueueAgentGrantInstruction == <<Known("slotHashesSysvar"), Known("systemProgram")>>

parseQueueAgentGrantInstruction ==
  <<N("owner"), N("vault"), N("policy"), N("pending"), N("auditLogSuccess"),
    N("slotHashesSysvar"), N("systemProgram")>>

QueueAgentGrant ==
  <<SW("owner"), At(R("vault"), "vault", <<"vault.vaultAuthority", "vault.vaultId">>),
    At(R("policy"), "policy", <<"vault">>), At(W("pending"), "pending_agent_grant", <<"vault">>),
    At(W("auditLogSuccess"), "audit_success", <<"vault">>), R("slotHashesSysvar"),
    R("systemProgram")>>

queue_agent_grant == <<A("agent", "address"), A("capability", "u8"), A("spendingLimitUsd", "u64")>>

-----------------------------------------------------------------------------
ApplyAgentGrantInstruction ==
  <<SW("owner"), W("vault"), W("policy"), W("pending"), W("agentSpendOverlay"),
    W("auditLogSuccess"), R("slotHashesSysvar")>>

ApplyAgentGrantInstructionData == <<>>

ApplyAgentGrantAsyncInput == {"owner", "vault", "agentSpendOverlay"}

getApplyAgentGrantInstructionAsync ==
  <<Pda("policy", "policy", <<"vault">>), Pda("pending", "pending_agent_grant", <<"vault">>),
    Pda("auditLogSuccess", "audit_success", <<"vault">>), Known("slotHashesSysvar")>>

ApplyAgentGrantInput ==
  {"owner", "vault", "policy", "pending", "agentSpendOverlay", "auditLogSuccess"}

getApplyAgentGrantInstruction == <<Known("slotHashesSysvar")>>

parseApplyAgentGrantInstruction ==
  <<N("owner"), N("vault"), N("policy"), N("pending"), N("agentSpendOverlay"),
    N("auditLogSuccess"), N("slotHashesSysvar")>>

ApplyAgentGrant ==
  <<SW("owner"), At(W("vault"), "vault", <<"vault.vaultAuthority", "vault.vaultId">>),
    At(W("policy"), "policy", <<"vault">>), At(W("pending"), "pending_agent_grant", <<"vault">>),
    At(W("agentSpendOverlay"), "agent_spend", <<"vault", "0">>),
    At(W("auditLogSuccess"), "audit_success", <<"vault">>), R("slotHashesSysvar")>>

apply_agent_grant == <<>>

-----------------------------------------------------------------------------
CancelAgentGrantInstruction ==
  <<SW("owner"), R("vault"), R("policy"), W("pending"), W("auditLogSuccess"),
    R("slotHashesSysvar"), R("systemProgram")>>

CancelAgentGrantInstructionData == <<>>

CancelAgentGrantAsyncInput == {"owner", "vault"}

getCancelAgentGrantInstructionAsync ==
  <<Pda("policy", "policy", <<"vault">>), Pda("pending", "pending_agent_grant", <<"vault">>),
    Pda("auditLogSuccess", "audit_success", <<"vault">>), Known("slotHashesSysvar"),
    Known("systemProgram")>>

CancelAgentGrantInput == {"owner", "vault", "policy", "pending", "auditLogSuccess"}

getCancelAgentGrantInstruction == <<Known("slotHashesSysvar"), Known("systemProgram")>>

parseCancelAgentGrantInstruction ==
  <<N("owner"), N("vault"), N("policy"), N("pending"), N("auditLogSuccess"),
    N("slotHashesSysvar"), N("systemProgram")>>

CancelAgentGrant ==
  <<SW("owner"), At(R("vault"), "vault", <<"vault.vaultAuthority", "vault.vaultId">>),
    At(R("policy"), "policy", <<"vault">>), At(W("pending"), "pending_agent_grant", <<"vault">>),
    At(W("auditLogSuccess"), "audit_success", <<"vault">>), R("slotHashesSysvar"),
    R("systemProgram")>>

cancel_agent_grant == <<>>

-----------------------------------------------------------------------------
QueueAgentPermissionsUpdateInstruction ==
  <<SW("owner"), R("vault"), R("policy"), W("pendingAgentPerms"), R("systemProgram")>>

QueueAgentPermissionsUpdateInstructionData ==
  <<A("agent", "address"), A("newCapability", "u8"), A("spendingLimitUsd", "u64"),
    A("cooldownSeconds", "u64"), A("cosignSession", "address")>>

QueueAgentPermissionsUpdateAsyncInput == {"owner", "vault"}

getQueueAgentPermissionsUpdateInstructionAsync ==
  <<Pda("policy", "policy", <<"vault">>),
    Pda("pendingAgentPerms", "pending_agent_perms", <<"vault", "agent">>), Known("systemProgram")>>

QueueAgentPermissionsUpdateInput == {"owner", "vault", "policy", "pendingAgentPerms"}

getQueueAgentPermissionsUpdateInstruction == <<Known("systemProgram")>>

parseQueueAgentPermissionsUpdateInstruction ==
  <<N("owner"), N("vault"), N("policy"), N("pendingAgentPerms"), N("systemProgram")>>

QueueAgentPermissionsUpdate ==
  <<SW("owner"), At(R("vault"), "vault", <<"vault.vaultAuthority", "vault.vaultId">>),
    At(R("policy"), "policy", <<"vault">>),
    At(W("pendingAgentPerms"), "pending_agent_perms", <<"vault", "agent">>), R("systemProgram")>>

queue_agent_permissions_update ==
  <<A("agent", "address"), A("newCapability", "u8"), A("spendingLimitUsd", "u64"),
    A("cooldownSeconds", "u64"), A("cosignSession", "address")>>

-----------------------------------------------------------------------------
ApplyAgentPermissionsUpdateInstruction ==
  <<SW("owner"), W("vault"), W("policy"), W("pendingAgentPerms"), W("agentSpendOverlay"),
    W("auditLogSuccess"), R("slotHashesSysvar")>>

ApplyAgentPermissionsUpdateInstructionData == <<>>

ApplyAgentPermissionsUpdateAsyncInput ==
  {"owner", "vault", "pendingAgentPerms", "agentSpendOverlay"}

getApplyAgentPermissionsUpdateInstructionAsync ==
  <<Pda("policy", "policy", <<"vault">>), Pda("auditLogSuccess", "audit_success", <<"vault">>),
    Known("slotHashesSysvar")>>

ApplyAgentPermissionsUpdateInput ==
  {"owner", "vault", "policy", "pendingAgentPerms", "agentSpendOverlay", "auditLogSuccess"}

getApplyAgentPermissionsUpdateInstruction == <<Known("slotHashesSysvar")>>

parseApplyAgentPermissionsUpdateInstruction ==
  <<N("owner"), N("vault"), N("policy"), N("pendingAgentPerms"), N("agentSpendOverlay"),
    N("auditLogSuccess"), N("slotHashesSysvar")>>

ApplyAgentPermissionsUpdate ==
  <<SW("owner"), At(W("vault"), "vault", <<"vault.vaultAuthority", "vault.vaultId">>),
    At(W("policy"), "policy", <<"vault">>),
    At(W("pendingAgentPerms"), "pending_agent_perms", <<"vault", "pendingAgentPerms.agent">>),
    At(W("agentSpendOverlay"), "agent_spend", <<"vault", "0">>),
    At(W("auditLogSuccess"), "audit_success", <<"vault">>), R("slotHashesSysvar")>>

apply_agent_permissions_update == <<>>

-----------------------------------------------------------------------------
CancelAgentPermissionsUpdateInstruction ==
  <<SW("owner"), R("vault"), R("policy"), W("pendingAgentPerms")>>

CancelAgentPermissionsUpdateInstructionData == <<>>

CancelAgentPermissionsUpdateAsyncInput == {"owner", "vault", "pendingAgentPerms"}

getCancelAgentPermissionsUpdateInstructionAsync == <<Pda("policy", "policy", <<"vault">>)>>

CancelAgentPermissionsUpdateInput == {"owner", "vault", "policy", "pendingAgentPerms"}

getCancelAgentPermissionsUpdateInstruction == <<>>

parseCancelAgentPermissionsUpdateInstruction ==
  <<N("owner"), N("vault"), N("policy"), N("pendingAgentPerms")>>

CancelAgentPermissionsUpdate ==
  <<SW("owner"), At(R("vault"), "vault", <<"vault.vaultAuthority", "vault.vaultId">>),
    At(R("policy"), "policy", <<"vault">>),
    At(W("pendingAgentPerms"), "pending_agent_perms", <<"vault", "pendingAgentPerms.agent">>)>>

cancel_agent_permissions_update == <<>>

-----------------------------------------------------------------------------
AgentInstructionsTable ==
  [registerAgent |->
     Ix(RegisterAgentInstruction, RegisterAgentInstructionData, RegisterAgentAsyncInput,
        getRegisterAgentInstructionAsync, RegisterAgentInput, getRegisterAgentInstruction,
        parseRegisterAgentInstruction, RegisterAgent, register_agent),
   revokeAgent |->
     Ix(RevokeAgentInstruction, RevokeAgentInstructionData, RevokeAgentAsyncInput,
        getRevokeAgentInstructionAsync, RevokeAgentInput, getRevokeAgentInstruction,
        parseRevokeAgentInstruction, RevokeAgent, revoke_agent),
   pauseAgent |->
     Ix(PauseAgentInstruction, PauseAgentInstructionData, PauseAgentAsyncInput,
        getPauseAgentInstructionAsync, PauseAgentInput, getPauseAgentInstruction,
        parsePauseAgentInstruction, PauseAgent, pause_agent),
   unpauseAgent |->
     Ix(UnpauseAgentInstruction, UnpauseAgentInstructionData, UnpauseAgentAsyncInput,
        getUnpauseAgentInstructionAsync, UnpauseAgentInput, getUnpauseAgentInstruction,
        parseUnpauseAgentInstruction, UnpauseAgent, unpause_agent),
   queueAgentGrant |->
     Ix(QueueAgentGrantInstruction, QueueAgentGrantInstructionData, QueueAgentGrantAsyncInput,
        getQueueAgentGrantInstructionAsync, QueueAgentGrantInput, getQueueAgentGrantInstruction,
        parseQueueAgentGrantInstruction, QueueAgentGrant, queue_agent_grant),
   applyAgentGrant |->
     Ix(ApplyAgentGrantInstruction, ApplyAgentGrantInstructionData, ApplyAgentGrantAsyncInput,
        getApplyAgentGrantInstructionAsync, ApplyAgentGrantInput, getApplyAgentGrantInstruction,
        parseApplyAgentGrantInstruction, ApplyAgentGrant, apply_agent_grant),
   cancelAgentGrant |->
     Ix(CancelAgentGrantInstruction, CancelAgentGrantInstructionData, CancelAgentGrantAsyncInput,
        getCancelAgentGrantInstructionAsync, CancelAgentGrantInput, getCancelAgentGrantInstruction,
        parseCancelAgentGrantInstruction, CancelAgentGrant, cancel_agent_grant),
   queueAgentPermissionsUpdate |->
     Ix(QueueAgentPermissionsUpdateInstruction, QueueAgentPermissionsUpdateInstructionData, QueueAgentPermissionsUpdateAsyncInput,
        getQueueAgentPermissionsUpdateInstructionAsync, QueueAgentPermissionsUpdateInput, getQueueAgentPermissionsUpdateInstruction,
        parseQueueAgentPermissionsUpdateInstruction, QueueAgentPermissionsUpdate, queue_agent_permissions_update),
   applyAgentPermissionsUpdate |->
     Ix(ApplyAgentPermissionsUpdateInstruction, ApplyAgentPermissionsUpdateInstructionData, ApplyAgentPermissionsUpdateAsyncInput,
        getApplyAgentPermissionsUpdateInstructionAsync, ApplyAgentPermissionsUpdateInput, getApplyAgentPermissionsUpdateInstruction,
        parseApplyAgentPermissionsUpdateInstruction, ApplyAgentPermissionsUpdate, apply_agent_permissions_update),
   cancelAgentPermissionsUpdate |->
     Ix(CancelAgentPermissionsUpdateInstruction, CancelAgentPermissionsUpdateInstructionData, CancelAgentPermissionsUpdateAsyncInput,
        getCancelAgentPermissionsUpdateInstructionAsync, CancelAgentPermissionsUpdateInput, getCancelAgentPermissionsUpdateInstruction,
        parseCancelAgentPermissionsUpdateInstruction, CancelAgentPermissionsUpdate, cancel_agent_permissions_update)]
=============================================================================
