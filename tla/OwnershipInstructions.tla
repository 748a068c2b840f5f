----------------------- MODULE OwnershipInstructions ------------------------
(***************************************************************************)
(* The generated clients of the instructions that move a vault to another  *)
(* owner, and what the program reads. For every instruction: its accounts  *)
(* in order with their roles, the accounts the caller must pass to the     *)
(* builder that derives defaults and to the plain one, the defaults of the *)
(* two builders in the order they are filled in, the arguments, and the    *)
(* accounts in the order the parser takes them; then the Accounts struct   *)
(* and the handler arguments of the program.                               *)
(***************************************************************************)
EXTENDS ClientTables

-----------------------------------------------------------------------------
InitiateOwnershipTransferInstruction ==
  <<SW("owner"), R("vault"), R("policy"), W("pending"), W("auditLogSuccess"),
    R("slotHashesSysvar"), R("systemProgram")>>

InitiateOwnershipTransferInstructionData ==
  <<A("newOwner", "address"), A("isMultisigTarget", "bool")>>

InitiateOwnershipTransferAsyncInput == {"owner", "vault"}

getInitiateOwnershipTransferInstructionAsync ==
  <<Pda("policy", "policy", <<"vault">>), Pda("pending", "pending_owner", <<"vault">>),
    Pda("auditLogSuccess", "audit_success", <<"vault">>), Known("slotHashesSysvar"),
    Known("systemProgram")>>

InitiateOwnershipTransferInput == {"owner", "vault", "policy", "pending", "auditLogSuccess"}

getInitiateOwnershipTransferInstruction == <<Known("slotHashesSysvar"), Known("systemProgram")>>

parseInitiateOwnershipTransferInstruction ==
  <<N("owner"), N("vault"), N("policy"), N("pending"), N("auditLogSuccess"),
    N("slotHashesSysvar"), N("systemProgram")>>

InitiateOwnershipTransfer ==
  <<SW("owner"), At(R("vault"), "vault", <<"vault.vaultAuthority", "vault.vaultId">>),
    At(R("policy"), "policy", <<"vault">>), At(W("pending"), "pending_owner", <<"vault">>),
    At(W("auditLogSuccess"), "audit_success", <<"vault">>), R("slotHashesSysvar"),
    R("systemProgram")>>

initiate_ownership_transfer == <<A("newOwner", "address"), A("isMultisigTarget", "bool")>>

-----------------------------------------------------------------------------
AcceptOwnershipTransferInstruction ==
  <<SW("newOwner"), W("vault"), W("policy"), W("pending"), W("auditLogSuccess"),
    R("slotHashesSysvar"), R("systemProgram")>>

AcceptOwnershipTransferInstructionData == <<>>

AcceptOwnershipTransferAsyncInput == {"newOwner", "vault"}

getAcceptOwnershipTransferInstructionAsync ==
  <<Pda("policy", "policy", <<"vault">>), Pda("pending", "pending_owner", <<"vault">>),
    Pda("auditLogSuccess", "audit_success", <<"vault">>), Known("slotHashesSysvar"),
    Known("systemProgram")>>

AcceptOwnershipTransferInput == {"newOwner", "vault", "policy", "pending", "auditLogSuccess"}

getAcceptOwnershipTransferInstruction == <<Known("slotHashesSysvar"), Known("systemProgram")>>

parseAcceptOwnershipTransferInstruction ==
  <<N("newOwner"), N("vault"), N("policy"), N("pending"), N("auditLogSuccess"),
    N("slotHashesSysvar"), N("systemProgram")>>

AcceptOwnershipTransfer ==
  <<SW("newOwner"), At(W("vault"), "vault", <<"vault.vaultAuthority", "vault.vaultId">>),
    At(W("policy"), "policy", <<"vault">>), At(W("pending"), "pending_owner", <<"vault">>),
    At(W("auditLogSuccess"), "audit_success", <<"vault">>), R("slotHashesSysvar"),
    R("systemProgram")>>

accept_ownership_transfer == <<>>

-----------------------------------------------------------------------------
AcceptOwnershipTransferMultisigInstruction ==
  <<W("multisigPda"), W("vault"), W("policy"), W("pending"), W("auditLogSuccess"),
    R("slotHashesSysvar"), R("systemProgram")>>

AcceptOwnershipTransferMultisigInstructionData == <<>>

AcceptOwnershipTransferMultisigAsyncInput == {"multisigPda", "vault"}

getAcceptOwnershipTransferMultisigInstructionAsync ==
  <<Pda("policy", "policy", <<"vault">>), Pda("pending", "pending_owner", <<"vault">>),
    Pda("auditLogSuccess", "audit_success", <<"vault">>), Known("slotHashesSysvar"),
    Known("systemProgram")>>

AcceptOwnershipTransferMultisigInput ==
  {"multisigPda", "vault", "policy", "pending", "auditLogSuccess"}

getAcceptOwnershipTransferMultisigInstruction ==
  <<Known("slotHashesSysvar"), Known("systemProgram")>>

parseAcceptOwnershipTransferMultisigInstruction ==
  <<N("multisigPda"), N("vault"), N("policy"), N("pending"), N("auditLogSuccess"),
    N("slotHashesSysvar"), N("systemProgram")>>

AcceptOwnershipTransferMultisig ==
  <<W("multisigPda"), At(W("vault"), "vault", <<"vault.vaultAuthority", "vault.vaultId">>),
    At(W("policy"), "policy", <<"vault">>), At(W("pending"), "pending_owner", <<"vault">>),
    At(W("auditLogSuccess"), "audit_success", <<"vault">>), R("slotHashesSysvar"),
    R("systemProgram")>>

accept_ownership_transfer_multisig == <<>>

-----------------------------------------------------------------------------
CancelOwnershipTransferInstruction ==
  <<SW("currentOwner"), R("vault"), R("policy"), W("pending"), W("auditLogSuccess"),
    R("slotHashesSysvar"), R("systemProgram")>>

CancelOwnershipTransferInstructionData == <<>>

CancelOwnershipTransferAsyncInput == {"currentOwner", "vault"}

getCancelOwnershipTransferInstructionAsync ==
  <<Pda("policy", "policy", <<"vault">>), Pda("pending", "pending_owner", <<"vault">>),
    Pda("auditLogSuccess", "audit_success", <<"vault">>), Known("slotHashesSysvar"),
    Known("systemProgram")>>

CancelOwnershipTransferInput == {"currentOwner", "vault", "policy", "pending", "auditLogSuccess"}

getCancelOwnershipTransferInstruction == <<Known("slotHashesSysvar"), Known("systemProgram")>>

parseCancelOwnershipTransferInstruction ==
  <<N("currentOwner"), N("vault"), N("policy"), N("pending"), N("auditLogSuccess"),
    N("slotHashesSysvar"), N("systemProgram")>>

CancelOwnershipTransfer ==
  <<SW("currentOwner"), At(R("vault"), "vault", <<"vault.vaultAuthority", "vault.vaultId">>),
    At(R("policy"), "policy", <<"vault">>), At(W("pending"), "pending_owner", <<"vault">>),
    At(W("auditLogSuccess"), "audit_success", <<"vault">>), R("slotHashesSysvar"),
    R("systemProgram")>>

cancel_ownership_transfer == <<>>

-----------------------------------------------------------------------------
OwnershipInstructionsTable ==
  [initiateOwnershipTransfer |->
     Ix(InitiateOwnershipTransferInstruction, InitiateOwnershipTransferInstructionData, InitiateOwnershipTransferAsyncInput,
        getInitiateOwnershipTransferInstructionAsync, InitiateOwnershipTransferInput, getInitiateOwnershipTransferInstruction,
        parseInitiateOwnershipTransferInstruction, InitiateOwnershipTransfer, initiate_ownership_transfer),
   acceptOwnershipTransfer |->
     Ix(AcceptOwnershipTransferInstruction, AcceptOwnershipTransferInstructionData, AcceptOwnershipTransferAsyncInput,
        getAcceptOwnershipTransferInstructionAsync, AcceptOwnershipTransferInput, getAcceptOwnershipTransferInstruction,
        parseAcceptOwnershipTransferInstruction, AcceptOwnershipTransfer, accept_ownership_transfer),
   acceptOwnershipTransferMultisig |->
     Ix(AcceptOwnershipTransferMultisigInstruction, AcceptOwnershipTransferMultisigInstructionData, AcceptOwnershipTransferMultisigAsyncInput,
        getAcceptOwnershipTransferMultisigInstructionAsync, AcceptOwnershipTransferMultisigInput, getAcceptOwnershipTransferMultisigInstruction,
        parseAcceptOwnershipTransferMultisigInstruction, AcceptOwnershipTransferMultisig, accept_ownership_transfer_multisig),
   cancelOwnershipTransfer |->
     Ix(CancelOwnershipTransferInstruction, CancelOwnershipTransferInstructionData, CancelOwnershipTransferAsyncInput,
        getCancelOwnershipTransferInstructionAsync, CancelOwnershipTransferInput, getCancelOwnershipTransferInstruction,
        parseCancelOwnershipTransferInstruction, CancelOwnershipTransfer, cancel_ownership_transfer)]
=============================================================================
