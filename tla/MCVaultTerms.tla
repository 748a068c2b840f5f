---------------------------- MODULE MCVaultTerms ----------------------------
(***************************************************************************)
(* Two small instances of VaultAdmin in one run: one opens the granting of *)
(* rights to an agent wide while a cosigner is bound or rotated, the other *)
(* (Terms) the policy updates, with no agent.  The variable part says      *)
(* which of them a behaviour explores.                                     *)
(***************************************************************************)
EXTENDS MCVaultAdmin

VARIABLE part

Terms == INSTANCE VaultAdmin WITH
  Limits <- {}, Capabilities <- {}, Perms <- {},
  InitialTerms <- TwoTerms, Updates <- PolicyUpdates, MaxVersion <- 3, MaxTime <- 5

ASSUME Terms!VaultAssumption
ASSUME Terms!TermsAssumption

BothInit ==
  \/ part = "grants" /\ Init
  \/ part = "terms" /\ Terms!Init

BothNext ==
  \/ part = "grants" /\ Next /\ UNCHANGED part
  \/ part = "terms" /\ Terms!Next /\ UNCHANGED part

BothSpec == BothInit /\ [][BothNext]_<<part, vars>>

=============================================================================
