------------------------------ MODULE MCClient ------------------------------
(***************************************************************************)
(* The parts of the client that keep state or act on what they read, each   *)
(* in a small instance of its own: the agent's pipeline (extended), the     *)
(* shielded signer, the velocity tracker and the owner's mutations.         *)
(* They share no state, so a behaviour explores one of them (part) and      *)
(* leaves the variables of the others out.                                  *)
(***************************************************************************)
EXTENDS SealClient, TLC

CONSTANTS
  s1, s2, agent, usdc, sol, dex, NoMint, NotSynced, NoBudget, NoList,
  Token, Token2022, Sigil,                       \* the shielded signer
  a1, P, Q, h1, h2, Unpinned, Null,              \* the owner's mutations
  Unused

VARIABLES
  part,
  st, pol, paused, now, call, since, passes, signed, ops,   \* shielded signer
  vt, pending, trackerPasses,                                \* velocity tracker
  policy, pdas, closed, client, last, budget                 \* mutations

sealVars == <<tokens, table, cache, held, calls, onchain, tip, faults, moves>>
signerVars == <<pol, paused, since, passes, signed, ops>>
trackerVars == <<vt, trackerPasses>>
ownerVars == <<policy, pdas, closed, client, last, budget>>
clientVars == <<part, vault, sealVars, st, now, call, signerVars, trackerVars, pending,
                ownerVars>>

-----------------------------------------------------------------------------
(* The agent's pipeline: two calls, the second from the caller's cache.     *)

W(a) == [address |-> a, writable |-> TRUE]
R(a) == [address |-> a, writable |-> FALSE]
Ix(program, metas) == [program |-> program, disc |-> 0, recognized |-> TRUE, accounts |-> metas]
Dex == Program("dex")
Pool == <<"pool">>

Request ==
  [kind |-> "seal", mint |-> "usdc", amount |-> 2, target |-> None, instructions |-> <<>>,
   outputSwapMint |-> None, outputStablecoin |-> None, additional |-> {},
   destination |-> <<"wallet">>, gate |-> FALSE, confirmed |-> FALSE, veto |-> None,
   useCache |-> FALSE, commitment |-> "confirmed"]

\* A purchase: the acquired token is sent to the agent's account, and a second
\* leg goes straight to an account of the vault that is a Token-2022 one.
Buy ==
  [Request EXCEPT
     !.outputSwapMint = "sol",
     !.instructions = << Ix(Program("computebudget"), {}),
                         Ix(Dex, {W(deriveAta("agent", "usdc")), W(deriveAta("agent", "sol")),
                                  W(Pool), R(Agent), W(<<"vault", "lst", "token2022">>),
                                  R(Program("token2022"))}) >>]

Sell ==
  [Request EXCEPT
     !.mint = "sol", !.amount = 3,
     !.instructions = << Ix(Dex, {W(deriveAta("agent", "sol")), W(deriveAta("agent", "usdc")),
                                  W(Pool)}) >>]

Stake == [Request EXCEPT !.amount = 0, !.commitment = "processed",
                         !.instructions = << Ix(Dex, {W(Pool), R(Agent)}) >>]

Pay == [Request EXCEPT !.kind = "transfer", !.amount = 2]

\* Requests the client is to refuse, and one it only warns about.
Refused ==
  { [Buy EXCEPT !.gate = TRUE],
    [Buy EXCEPT !.veto = "hook"], [Buy EXCEPT !.veto = "plugin"],
    [Buy EXCEPT !.outputSwapMint = None], [Buy EXCEPT !.amount = 9],
    [Buy EXCEPT !.instructions = << [Ix(Program("token"), {}) EXCEPT !.disc = 3] >>],
    [Sell EXCEPT !.outputStablecoin = <<"vault", "usdc", "other">>],
    [Buy EXCEPT !.additional = {<<deriveAta("agent", "usdc"), Pool>>}],
    [Pay EXCEPT !.mint = "sol"], [Pay EXCEPT !.destination = <<"stranger">>] }

MCRequests ==
  << {Buy, Sell, Stake, Pay, [Buy EXCEPT !.outputSwapMint = "bonk"]} \cup Refused,
     {[Buy EXCEPT !.useCache = TRUE]} >>

MCTable == {Pool, Dex}

MCVault ==
  [version |-> 0, status |-> "Active", agent |-> "operator", protocols |-> {Dex}, armed |-> {},
   destinations |-> {<<"wallet">>}, developerFeeRate |-> 0, floor |-> 4, cap |-> 6, spent |-> 0]

MCTokens ==
  [a \in {deriveAta("vault", "usdc"), deriveAta("vault", "usdt"), deriveAta("vault", "sol"),
          <<"vault", "lst", "token2022">>} |-> IF a[2] = "usdc" THEN 7 ELSE IF a[2] = "usdt" THEN 2 ELSE 1]

-----------------------------------------------------------------------------
(* The shielded signer: two concurrent calls over small batches.            *)

Instr(p, op, m, a) ==
  [program |-> p, op |-> op, complete |-> TRUE, mint |-> m, amount |-> a, authority |-> agent]
Sandwich(ixs) ==
  <<Instr(Sigil, "validate", NoMint, 0)>> \o ixs \o <<Instr(Sigil, "finalize", NoMint, 0)>>

\* A swap paid with two transfers, one of them without a mint, a payment, and
\* a transfer outside a session.
Swap == Sandwich(<<Instr(Token, "transfer_checked", usdc, 2), Instr(Token, "transfer", sol, 1),
                   Instr(dex, "no_data", NoMint, 0)>>)
Payment == Sandwich(<<Instr(Token, "transfer_checked", usdc, 1)>>)
Bare == <<Instr(Token, "transfer_checked", usdc, 1)>>

SignerBatches == {<<Payment, Swap, Bare>>}

ShieldPolicies ==
  {[rateLimit |-> [maxTransactions |-> 4, window |-> 1],
    maxSpend |-> {[mint |-> usdc, amount |-> 6, window |-> 1]}],
   [allowedProtocols |-> {Token, Sigil}, customCheck |-> {Payment}]}

SignerCeilings == [maxTxPerHour |-> 2, maxUsdPerHour |-> 8]

SyncedStates ==
  {[spent |-> 1, cap |-> 4, maxTransactionUsd |-> 2, agentBudget |-> [spent |-> 1, cap |-> 4]]}

Signer == INSTANCE ShieldedSigner WITH
  SystemPrograms <- {}, StableMints <- {usdc}, WrappedSol <- sol,
  Minute <- 0, Hour <- 1, Day <- 1, PruneThreshold <- 2,
  Signers <- {s1, s2}, Agent <- agent, Severity <- "hard",
  Batches <- SignerBatches, PolicyInputs <- ShieldPolicies, Ceilings <- SignerCeilings,
  ResolvedStates <- SyncedStates, MaxTime <- 2, MaxPasses <- 2, MaxOps <- 2

Velocity == INSTANCE VelocityTracker WITH
  SystemPrograms <- {}, StableMints <- {usdc}, WrappedSol <- sol,
  Minute <- 0, Hour <- 1, Day <- 2, PruneThreshold <- 4,
  VelocityConfig <-
    [maxTxPerMinute |-> 3, maxTxPerHour |-> 4, maxUsdPerHour |-> 9,
     rapidFire |-> [count |-> 3, window |-> 1], cooldown |-> 2],
  Usd <- {0, 3}, MaxTime <- 4, MaxSends <- 4

-----------------------------------------------------------------------------
(* The owner's mutations, from two sessions.                               *)

PolicyChanges ==
  {[cap |-> 2], [protocols |-> <<Q, P>>], [pins |-> (P :> Unpinned)], [pins |-> (Q :> h2)],
   [cosign |-> FALSE]}

StartPolicies ==
  [cap : {1}, protocols : {<<P, Q>>}, hashes : {<<h1, Unpinned>>}, cosign : BOOLEAN,
   assertions : {0}]

Mutations == INSTANCE OwnerClient WITH
  Sessions <- {s1, s2}, Agents <- {a1}, Changes <- PolicyChanges, Policies <- StartPolicies,
  MaxRequests <- 2, MaxCloses <- 1, MaxOthers <- 1

-----------------------------------------------------------------------------

\* The two calls of the signer, and the two sessions of the owner, are
\* interchangeable.
ClientSymmetry == Permutations({s1, s2})

NoSeal ==
  /\ tokens = Unused /\ table = Unused /\ cache = Unused /\ held = Unused /\ calls = Unused
  /\ onchain = Unused /\ tip = Unused /\ faults = Unused /\ moves = Unused
NoSigner ==
  /\ pol = Unused /\ paused = Unused /\ since = Unused /\ passes = Unused /\ signed = Unused
  /\ ops = Unused
NoTracker == vt = Unused /\ trackerPasses = Unused
NoClock == st = Unused /\ now = Unused
NoOwner ==
  /\ policy = Unused /\ pdas = Unused /\ closed = Unused /\ client = Unused /\ last = Unused
  /\ budget = Unused

ClientInit ==
  \/ /\ part = "seal" /\ Init
     /\ NoSigner /\ NoTracker /\ NoClock /\ call = Unused /\ pending = Unused
     /\ NoOwner
  \/ /\ part = "signer" /\ Signer!Init
     /\ NoSeal /\ vault = Unused /\ NoTracker /\ pending = Unused
     /\ NoOwner
  \/ /\ part = "velocity" /\ Velocity!Init
     /\ NoSeal /\ vault = Unused /\ NoSigner /\ call = Unused
     /\ NoOwner
  \/ /\ part = "owner" /\ Mutations!Init
     /\ NoSeal /\ NoSigner /\ NoTracker /\ NoClock /\ call = Unused

ClientNext ==
  \/ /\ part = "seal" /\ Next
     /\ UNCHANGED <<part, st, now, call, signerVars, trackerVars, pending, ownerVars>>
  \/ /\ part = "signer" /\ Signer!Next
     /\ UNCHANGED <<part, vault, sealVars, trackerVars, pending, ownerVars>>
  \/ /\ part = "velocity" /\ Velocity!Next
     /\ UNCHANGED <<part, vault, sealVars, call, signerVars, ownerVars>>
  \/ /\ part = "owner" /\ Mutations!Next
     /\ UNCHANGED <<part, sealVars, st, now, call, signerVars, trackerVars>>

ClientSpec == ClientInit /\ [][ClientNext]_clientVars

-----------------------------------------------------------------------------
(* The properties of the parts, each where its part is explored.            *)


\* What the caller of seal is told agrees with the chain
\* (SealClient!OutcomeIsTrue).
SealOutcomeIsTrue == part = "seal" => OutcomeIsTrue


\* Concurrent calls exceed the hourly ceilings by at most one transaction each
\* (ShieldedSigner!HourlyOvershoot).
HourlyOvershoot == part = "signer" => Signer!HourlyOvershoot

\* The dollars charged since the last sync and the synced baseline respect the
\* vault's budget together (ShieldedSigner!BudgetKept).
BudgetKept == part = "signer" => Signer!BudgetKept

\* The rapid-fire limit holds across dry runs, breaches and cooldowns
\* (VelocityTracker!RapidFireBound).
RapidFireBound == part = "velocity" => Velocity!RapidFireBound

\* A policy update that is applied gives exactly the policy its session signed
\* (OwnerClient!AppliedAsReviewed).
AppliedAsReviewed == part = "owner" => Mutations!AppliedAsReviewed

\* An owner's transaction is refused only when something it read has changed
\* (OwnerClient!RefusedOnlyWhenStale).
RefusedOnlyWhenStale == part = "owner" => Mutations!RefusedOnlyWhenStale

\* A successful close reclaims the rent of every pending account it could have
\* found (OwnerClient!CloseReclaims).
CloseReclaims == part = "owner" => Mutations!CloseReclaims

=============================================================================
