------------------------- MODULE VaultInstructions --------------------------
(***************************************************************************)
(* The generated clients of the instructions that create, fund, freeze and *)
(* close a vault, and what the program reads. For every instruction: its   *)
(* accounts in order with their roles, the accounts the caller must pass   *)
(* to the builder that derives defaults and to the plain one, the defaults *)
(* of the two builders in the order they are filled in, the arguments, and *)
(* the accounts in the order the parser takes them; then the Accounts      *)
(* struct and the handler arguments of the program.                        *)
(***************************************************************************)
EXTENDS ClientTables

-----------------------------------------------------------------------------
InitializeVaultInstruction ==
  <<SW("owner"), W("vault"), W("policy"), W("tracker"), W("agentSpendOverlay"),
    W("auditLogSuccess"), W("auditLogRejected"), R("feeDestination"), R("systemProgram")>>

InitializeVaultInstructionData ==
  <<A("vaultId", "u64"), A("dailySpendingCapUsd", "u64"), A("maxTransactionSizeUsd", "u64"),
    A("protocolMode", "u8"), A("protocols", "vec address"), A("developerFeeRate", "u16"),
    A("maxSlippageBps", "u16"), A("timelockDuration", "u64"),
    A("allowedDestinations", "vec address"), A("protocolCaps", "vec u64"),
    A("observeOnly", "bool"), A("operatingHours", "u32"), A("autoPromoteGrays", "bool"),
    A("autoRevokeThreshold", "u8"), A("stableBalanceFloor", "u64"),
    A("perRecipientDailyCapUsd", "u64"), A("cosignRequired", "bool"),
    A("previewDigest", "bytes32")>>

InitializeVaultAsyncInput == {"owner", "agentSpendOverlay", "feeDestination"}

getInitializeVaultInstructionAsync ==
  <<Pda("vault", "vault", <<"owner", "vaultId">>), Pda("policy", "policy", <<"vault">>),
    Pda("tracker", "tracker", <<"vault">>), Pda("auditLogSuccess", "audit_success", <<"vault">>),
    Pda("auditLogRejected", "audit_rejected", <<"vault">>), Known("systemProgram")>>

InitializeVaultInput ==
  {"owner", "vault", "policy", "tracker", "agentSpendOverlay", "auditLogSuccess",
   "auditLogRejected", "feeDestination"}

getInitializeVaultInstruction == <<Known("systemProgram")>>

parseInitializeVaultInstruction ==
  <<N("owner"), N("vault"), N("policy"), N("tracker"), N("agentSpendOverlay"),
    N("auditLogSuccess"), N("auditLogRejected"), N("feeDestination"), N("systemProgram")>>

InitializeVault ==
  <<SW("owner"), At(W("vault"), "vault", <<"owner", "vaultId">>),
    At(W("policy"), "policy", <<"vault">>), At(W("tracker"), "tracker", <<"vault">>),
    At(W("agentSpendOverlay"), "agent_spend", <<"vault", "0">>),
    At(W("auditLogSuccess"), "audit_success", <<"vault">>),
    At(W("auditLogRejected"), "audit_rejected", <<"vault">>), R("feeDestination"),
    R("systemProgram")>>

initialize_vault ==
  <<A("vaultId", "u64"), A("dailySpendingCapUsd", "u64"), A("maxTransactionSizeUsd", "u64"),
    A("protocolMode", "u8"), A("protocols", "vec address"), A("developerFeeRate", "u16"),
    A("maxSlippageBps", "u16"), A("timelockDuration", "u64"),
    A("allowedDestinations", "vec address"), A("protocolCaps", "vec u64"),
    A("observeOnly", "bool"), A("operatingHours", "u32"), A("autoPromoteGrays", "bool"),
    A("autoRevokeThreshold", "u8"), A("stableBalanceFloor", "u64"),
    A("perRecipientDailyCapUsd", "u64"), A("cosignRequired", "bool"),
    A("previewDigest", "bytes32")>>

-----------------------------------------------------------------------------
DepositFundsInstruction ==
  <<SW("owner"), W("vault"), R("mint"), W("ownerTokenAccount"), W("vaultTokenAccount"),
    W("auditLogSuccess"), R("slotHashesSysvar"), R("tokenProgram"), R("associatedTokenProgram"),
    R("systemProgram")>>

DepositFundsInstructionData == <<A("amount", "u64")>>

DepositFundsAsyncInput == {"owner", "vault", "mint"}

getDepositFundsInstructionAsync ==
  <<Ata("ownerTokenAccount", "owner", "mint"), Ata("vaultTokenAccount", "vault", "mint"),
    Pda("auditLogSuccess", "audit_success", <<"vault">>), Known("slotHashesSysvar"),
    Known("tokenProgram"), Known("associatedTokenProgram"), Known("systemProgram")>>

DepositFundsInput ==
  {"owner", "vault", "mint", "ownerTokenAccount", "vaultTokenAccount", "auditLogSuccess"}

getDepositFundsInstruction ==
  <<Known("slotHashesSysvar"), Known("tokenProgram"), Known("associatedTokenProgram"),
    Known("systemProgram")>>

parseDepositFundsInstruction ==
  <<N("owner"), N("vault"), N("mint"), N("ownerTokenAccount"), N("vaultTokenAccount"),
    N("auditLogSuccess"), N("slotHashesSysvar"), N("tokenProgram"), N("associatedTokenProgram"),
    N("systemProgram")>>

DepositFunds ==
  <<SW("owner"), At(W("vault"), "vault", <<"vault.vaultAuthority", "vault.vaultId">>), R("mint"),
    AtaOf(W("ownerTokenAccount"), "owner", "mint"),
    AtaOf(W("vaultTokenAccount"), "vault", "mint"),
    At(W("auditLogSuccess"), "audit_success", <<"vault">>), R("slotHashesSysvar"),
    R("tokenProgram"), R("associatedTokenProgram"), R("systemProgram")>>

deposit_funds == <<A("amount", "u64")>>

-----------------------------------------------------------------------------
WithdrawFundsInstruction ==
  <<SW("owner"), W("vault"), R("policy"), R("mint"), W("vaultTokenAccount"),
    W("ownerTokenAccount"), W("auditLogSuccess"), R("slotHashesSysvar"), R("tokenProgram")>>

WithdrawFundsInstructionData == <<A("amount", "u64")>>

WithdrawFundsAsyncInput == {"owner", "vault", "mint"}

getWithdrawFundsInstructionAsync ==
  <<Pda("policy", "policy", <<"vault">>), Ata("vaultTokenAccount", "vault", "mint"),
    Ata("ownerTokenAccount", "owner", "mint"),
    Pda("auditLogSuccess", "audit_success", <<"vault">>), Known("slotHashesSysvar"),
    Known("tokenProgram")>>

WithdrawFundsInput ==
  {"owner", "vault", "policy", "mint", "vaultTokenAccount", "ownerTokenAccount",
   "auditLogSuccess"}

getWithdrawFundsInstruction == <<Known("slotHashesSysvar"), Known("tokenProgram")>>

parseWithdrawFundsInstruction ==
  <<N("owner"), N("vault"), N("policy"), N("mint"), N("vaultTokenAccount"),
    N("ownerTokenAccount"), N("auditLogSuccess"), N("slotHashesSysvar"), N("tokenProgram")>>

WithdrawFunds ==
  <<SW("owner"), At(W("vault"), "vault", <<"vault.vaultAuthority", "vault.vaultId">>),
    At(R("policy"), "policy", <<"vault">>), R("mint"),
    AtaOf(W("vaultTokenAccount"), "vault", "mint"),
    AtaOf(W("ownerTokenAccount"), "owner", "mint"),
    At(W("auditLogSuccess"), "audit_success", <<"vault">>), R("slotHashesSysvar"),
    R("tokenProgram")>>

withdraw_funds == <<A("amount", "u64")>>

-----------------------------------------------------------------------------
CloseVaultInstruction ==
  <<SW("owner"), W("vault"), W("policy"), W("tracker"), W("agentSpendOverlay"),
    W("auditLogSuccess"), W("auditLogRejected"), R("systemProgram")>>

CloseVaultInstructionData == <<>>

CloseVaultAsyncInput == {"owner", "vault", "agentSpendOverlay"}

getCloseVaultInstructionAsync ==
  <<Pda("policy", "policy", <<"vault">>), Pda("tracker", "tracker", <<"vault">>),
    Pda("auditLogSuccess", "audit_success", <<"vault">>),
    Pda("auditLogRejected", "audit_rejected", <<"vault">>), Known("systemProgram")>>

CloseVaultInput ==
  {"owner", "vault", "policy", "tracker", "agentSpendOverlay", "auditLogSuccess",
   "auditLogRejected"}

getCloseVaultInstruction == <<Known("systemProgram")>>

parseCloseVaultInstruction ==
  <<N("owner"), N("vault"), N("policy"), N("tracker"), N("agentSpendOverlay"),
    N("auditLogSuccess"), N("auditLogRejected"), N("systemProgram")>>

CloseVault ==
  <<SW("owner"), At(W("vault"), "vault", <<"vault.vaultAuthority", "vault.vaultId">>),
    At(W("policy"), "policy", <<"vault">>), At(W("tracker"), "tracker", <<"vault">>),
    At(W("agentSpendOverlay"), "agent_spend", <<"vault", "0">>),
    At(W("auditLogSuccess"), "audit_success", <<"vault">>),
    At(W("auditLogRejected"), "audit_rejected", <<"vault">>), R("systemProgram")>>

close_vault == <<>>

-----------------------------------------------------------------------------
FreezeVaultInstruction ==
  <<SR("owner"), W("vault"), W("auditLogSuccess"), R("slotHashesSysvar"), R("tokenProgram")>>

FreezeVaultInstructionData == <<>>

FreezeVaultAsyncInput == {"owner", "vault"}

getFreezeVaultInstructionAsync ==
  <<Pda("auditLogSuccess", "audit_success", <<"vault">>), Known("slotHashesSysvar"),
    Known("tokenProgram")>>

FreezeVaultInput == {"owner", "vault", "auditLogSuccess"}

getFreezeVaultInstruction == <<Known("slotHashesSysvar"), Known("tokenProgram")>>

parseFreezeVaultInstruction ==
  <<N("owner"), N("vault"), N("auditLogSuccess"), N("slotHashesSysvar"), N("tokenProgram")>>

FreezeVault ==
  <<SR("owner"), At(W("vault"), "vault", <<"vault.vaultAuthority", "vault.vaultId">>),
    At(W("auditLogSuccess"), "audit_success", <<"vault">>), R("slotHashesSysvar"),
    R("tokenProgram")>>

freeze_vault == <<>>

-----------------------------------------------------------------------------
ReactivateVaultInstruction ==
  <<SR("owner"), W("vault"), W("policy"), W("auditLogSuccess"), R("slotHashesSysvar")>>

ReactivateVaultInstructionData ==
  <<A("newAgent", "option address"), A("newAgentCapability", "option u8")>>

ReactivateVaultAsyncInput == {"owner", "vault"}

getReactivateVaultInstructionAsync ==
  <<Pda("policy", "policy", <<"vault">>), Pda("auditLogSuccess", "audit_success", <<"vault">>),
    Known("slotHashesSysvar")>>

ReactivateVaultInput == {"owner", "vault", "policy", "auditLogSuccess"}

getReactivateVaultInstruction == <<Known("slotHashesSysvar")>>

parseReactivateVaultInstruction ==
  <<N("owner"), N("vault"), N("policy"), N("auditLogSuccess"), N("slotHashesSysvar")>>

ReactivateVault ==
  <<SR("owner"), At(W("vault"), "vault", <<"vault.vaultAuthority", "vault.vaultId">>),
    At(W("policy"), "policy", <<"vault">>),
    At(W("auditLogSuccess"), "audit_success", <<"vault">>), R("slotHashesSysvar")>>

reactivate_vault == <<A("newAgent", "option address"), A("newAgentCapability", "option u8")>>

-----------------------------------------------------------------------------
SetObserveOnlyInstruction == <<W("vault"), W("policy"), SR("owner")>>

SetObserveOnlyInstructionData == <<A("newValue", "bool")>>

SetObserveOnlyAsyncInput == {"vault", "owner"}

getSetObserveOnlyInstructionAsync == <<Pda("policy", "policy", <<"vault">>)>>

SetObserveOnlyInput == {"vault", "policy", "owner"}

getSetObserveOnlyInstruction == <<>>

parseSetObserveOnlyInstruction == <<N("vault"), N("policy"), N("owner")>>

SetObserveOnly ==
  <<At(W("vault"), "vault", <<"vault.vaultAuthority", "vault.vaultId">>),
    At(W("policy"), "policy", <<"vault">>), SR("owner")>>

set_observe_only == <<A("newValue", "bool")>>

-----------------------------------------------------------------------------
CreatePostAssertionsInstruction ==
  <<SW("owner"), W("vault"), W("policy"), W("postAssertions"), R("systemProgram")>>

CreatePostAssertionsInstructionData ==
  <<A("entries", "vec PostAssertionEntry"), A("expectedDigest", "bytes32")>>

CreatePostAssertionsAsyncInput == {"owner", "vault"}

getCreatePostAssertionsInstructionAsync ==
  <<Pda("policy", "policy", <<"vault">>), Pda("postAssertions", "post_assertions", <<"vault">>),
    Known("systemProgram")>>

CreatePostAssertionsInput == {"owner", "vault", "policy", "postAssertions"}

getCreatePostAssertionsInstruction == <<Known("systemProgram")>>

parseCreatePostAssertionsInstruction ==
  <<N("owner"), N("vault"), N("policy"), N("postAssertions"), N("systemProgram")>>

CreatePostAssertions ==
  <<SW("owner"), At(W("vault"), "vault", <<"vault.vaultAuthority", "vault.vaultId">>),
    At(W("policy"), "policy", <<"vault">>),
    At(W("postAssertions"), "post_assertions", <<"vault">>), R("systemProgram")>>

create_post_assertions == <<A("entries", "vec PostAssertionEntry"), A("expectedDigest", "bytes32")>>

-----------------------------------------------------------------------------
ClosePostAssertionsInstruction ==
  <<SW("owner"), W("vault"), W("policy"), W("postAssertions"), R("systemProgram")>>

ClosePostAssertionsInstructionData == <<A("expectedDigest", "bytes32")>>

ClosePostAssertionsAsyncInput == {"owner", "vault"}

getClosePostAssertionsInstructionAsync ==
  <<Pda("policy", "policy", <<"vault">>), Pda("postAssertions", "post_assertions", <<"vault">>),
    Known("systemProgram")>>

ClosePostAssertionsInput == {"owner", "vault", "policy", "postAssertions"}

getClosePostAssertionsInstruction == <<Known("systemProgram")>>

parseClosePostAssertionsInstruction ==
  <<N("owner"), N("vault"), N("policy"), N("postAssertions"), N("systemProgram")>>

ClosePostAssertions ==
  <<SW("owner"), At(W("vault"), "vault", <<"vault.vaultAuthority", "vault.vaultId">>),
    At(W("policy"), "policy", <<"vault">>),
    At(W("postAssertions"), "post_assertions", <<"vault">>), R("systemProgram")>>

close_post_assertions == <<A("expectedDigest", "bytes32")>>

-----------------------------------------------------------------------------
PromoteGraylistDestinationInstruction == <<SR("owner"), R("vault"), W("policy")>>

PromoteGraylistDestinationInstructionData == <<A("destination", "address")>>

PromoteGraylistDestinationAsyncInput == {"owner", "vault"}

getPromoteGraylistDestinationInstructionAsync == <<Pda("policy", "policy", <<"vault">>)>>

PromoteGraylistDestinationInput == {"owner", "vault", "policy"}

getPromoteGraylistDestinationInstruction == <<>>

parsePromoteGraylistDestinationInstruction == <<N("owner"), N("vault"), N("policy")>>

PromoteGraylistDestination ==
  <<SR("owner"), At(R("vault"), "vault", <<"vault.vaultAuthority", "vault.vaultId">>),
    At(W("policy"), "policy", <<"vault">>)>>

promote_graylist_destination == <<A("destination", "address")>>

-----------------------------------------------------------------------------
VaultInstructionsTable ==
  [initializeVault |->
     Ix(InitializeVaultInstruction, InitializeVaultInstructionData, InitializeVaultAsyncInput,
        getInitializeVaultInstructionAsync, InitializeVaultInput, getInitializeVaultInstruction,
        parseInitializeVaultInstruction, InitializeVault, initialize_vault),
   depositFunds |->
     Ix(DepositFundsInstruction, DepositFundsInstructionData, DepositFundsAsyncInput,
        getDepositFundsInstructionAsync, DepositFundsInput, getDepositFundsInstruction,
        parseDepositFundsInstruction, DepositFunds, deposit_funds),
   withdrawFunds |->
     Ix(WithdrawFundsInstruction, WithdrawFundsInstructionData, WithdrawFundsAsyncInput,
        getWithdrawFundsInstructionAsync, WithdrawFundsInput, getWithdrawFundsInstruction,
        parseWithdrawFundsInstruction, WithdrawFunds, withdraw_funds),
   closeVault |->
     Ix(CloseVaultInstruction, CloseVaultInstructionData, CloseVaultAsyncInput,
        getCloseVaultInstructionAsync, CloseVaultInput, getCloseVaultInstruction,
        parseCloseVaultInstruction, CloseVault, close_vault),
   freezeVault |->
     Ix(FreezeVaultInstruction, FreezeVaultInstructionData, FreezeVaultAsyncInput,
        getFreezeVaultInstructionAsync, FreezeVaultInput, getFreezeVaultInstruction,
        parseFreezeVaultInstruction, FreezeVault, freeze_vault),
   reactivateVault |->
     Ix(ReactivateVaultInstruction, ReactivateVaultInstructionData, ReactivateVaultAsyncInput,
        getReactivateVaultInstructionAsync, ReactivateVaultInput, getReactivateVaultInstruction,
        parseReactivateVaultInstruction, ReactivateVault, reactivate_vault),
   setObserveOnly |->
     Ix(SetObserveOnlyInstruction, SetObserveOnlyInstructionData, SetObserveOnlyAsyncInput,
        getSetObserveOnlyInstructionAsync, SetObserveOnlyInput, getSetObserveOnlyInstruction,
        parseSetObserveOnlyInstruction, SetObserveOnly, set_observe_only),
   createPostAssertions |->
     Ix(CreatePostAssertionsInstruction, CreatePostAssertionsInstructionData, CreatePostAssertionsAsyncInput,
        getCreatePostAssertionsInstructionAsync, CreatePostAssertionsInput, getCreatePostAssertionsInstruction,
        parseCreatePostAssertionsInstruction, CreatePostAssertions, create_post_assertions),
   closePostAssertions |->
     Ix(ClosePostAssertionsInstruction, ClosePostAssertionsInstructionData, ClosePostAssertionsAsyncInput,
        getClosePostAssertionsInstructionAsync, ClosePostAssertionsInput, getClosePostAssertionsInstruction,
        parseClosePostAssertionsInstruction, ClosePostAssertions, close_post_assertions),
   promoteGraylistDestination |->
     Ix(PromoteGraylistDestinationInstruction, PromoteGraylistDestinationInstructionData, PromoteGraylistDestinationAsyncInput,
        getPromoteGraylistDestinationInstructionAsync, PromoteGraylistDestinationInput, getPromoteGraylistDestinationInstruction,
        parsePromoteGraylistDestinationInstruction, PromoteGraylistDestination, promote_graylist_destination)]
=============================================================================
