--------------------------- MODULE VaultDiscovery ---------------------------
(***************************************************************************)
(* How the SDK finds the vaults of an owner and a free id for the next one *)
(* (state-resolver.ts, discover.ts, inscribe.ts, portfolio-analytics.ts)   *)
(* while vaults are created, handed over and closed, over an RPC that may  *)
(* or may not index the program's accounts.  A vault is named by its seeds: *)
(* the authority that created it, which never changes, and its id.         *)
(***************************************************************************)
EXTENDS FiniteSetsExt, Integers

CONSTANTS
  Owners, Me,     \* the owners, and the one whose client is modelled
  FastSlots,      \* ids findNextVaultId probes one by one; 5
  DefaultProbe,   \* ids discovery probes; 20
  MaxProbe,       \* the most ids findVaultsByOwner probes; 100
  IdLimit,        \* ids are below this; 256
  MaxVaults,      \* vaults that exist at once
  None

VARIABLES
  owner,          \* the owner of each vault that exists
  call            \* the call in progress, or the last one

vars == <<owner, call>>

getVaultPDA(authority, id) == <<authority, id>>

Ids == 0 .. IdLimit - 1
Existing == DOMAIN owner
Mine == {v \in Existing : owner[v] = Me}

\* How the RPC answers getProgramAccounts; "silent" is an empty list.
Indexes == {"indexed", "silent", "unsupported", "limited"}

Idle == [kind |-> None, pc |-> "idle", slot |-> 0, probes |-> 0, found |-> {}, answer |-> None,
         held |-> {}, lost |-> {}, created |-> FALSE, listed |-> FALSE]

Init == /\ owner = << >>
        /\ call = Idle

-----------------------------------------------------------------------------
\* The chain.  A call remembers which vaults were its owner's all along, and
\* whether one was created under its owner's seeds meanwhile.

Notice(mine, created) ==
  call' = IF call.pc = "idle" THEN call
          ELSE [call EXCEPT !.held = @ \cap mine, !.created = @ \/ created]

initialize_vault(o, i) ==
  /\ <<o, i>> \notin Existing
  /\ Cardinality(Existing) < MaxVaults
  /\ owner' = [v \in Existing \cup {<<o, i>>} |-> IF v = <<o, i>> THEN o ELSE owner[v]]
  /\ Notice(Mine, o = Me)

accept_ownership_transfer(v, o) ==
  /\ owner[v] # o
  /\ owner' = [owner EXCEPT ![v] = o]
  /\ Notice(Mine \ {v}, FALSE)

close_vault(v) ==
  /\ owner' = [u \in Existing \ {v} |-> owner[u]]
  /\ Notice(Mine \ {v}, FALSE)

-----------------------------------------------------------------------------

Start(kind, pc, probes) ==
  /\ call.pc \in {"idle", "done", "threw"}
  /\ call' = [Idle EXCEPT !.kind = kind, !.pc = pc, !.probes = probes, !.held = Mine]
  /\ UNCHANGED owner

discoverVaults == Start("discover", "list", DefaultProbe)
getPortfolioOverview == Start("portfolio", "list", DefaultProbe)
inscribe == Start("inscribe", "slot", MaxProbe)

Done(answer) == [call EXCEPT !.pc = "done", !.answer = answer, !.found = {}]
Threw == [call EXCEPT !.pc = "threw"]

\* findNextVaultId: one fetch per id, the first that finds nothing is free.
FastPath ==
  /\ call.pc = "slot"
  /\ call' = IF getVaultPDA(Me, call.slot) \notin Existing THEN Done(call.slot)
             ELSE IF call.slot + 1 < FastSlots THEN [call EXCEPT !.slot = @ + 1]
             ELSE [call EXCEPT !.pc = "list"]
  /\ UNCHANGED owner

\* Past the fast path: one more than the highest id found.
NextId(found) == IF found = {} THEN 0 ELSE Max({v[2] : v \in found}) + 1

Found(vaults, listed) ==
  IF call.kind = "inscribe" THEN IF NextId(vaults) >= IdLimit THEN Threw ELSE Done(NextId(vaults))
  ELSE [call EXCEPT !.pc = "fetch", !.found = vaults, !.listed = listed]

\* Faulty variant: the address is derived again from the current owner.
VerifiedByOwner == {v \in Mine : v = getVaultPDA(Me, v[2])}

\* Strategy A keeps the answers whose address follows from their own
\* vault_authority and vault_id.
Verified == {v \in Mine : v = getVaultPDA(v[1], v[2])}

\* getProgramAccounts filtered by the owner field.
StrategyA(index) ==
  /\ call.pc = "list"
  /\ call' = IF index = "limited" THEN Threw
             ELSE IF index = "indexed" /\ Verified # {} THEN Found(Verified, TRUE)
             ELSE [call EXCEPT !.pc = "probe"]
  /\ UNCHANGED owner

\* probeVaultsByOwner: the addresses of the low ids under the caller's own seed.
StrategyB ==
  /\ call.pc = "probe"
  /\ call' = Found({getVaultPDA(Me, i) : i \in 0 .. call.probes - 1} \cap Existing, FALSE)
  /\ UNCHANGED owner

\* Each vault found is fetched; one that is gone or whose fetch fails is left
\* out of the answer.
Fetch(lost) ==
  /\ call.pc = "fetch"
  /\ call' = [Done((call.found \cap Existing) \ lost) EXCEPT !.lost = lost]
  /\ UNCHANGED owner

Next ==
  \/ \E o \in Owners, i \in Ids : initialize_vault(o, i)
  \/ \E v \in Existing, o \in Owners : accept_ownership_transfer(v, o)
  \/ \E v \in Existing : close_vault(v)
  \/ discoverVaults
  \/ getPortfolioOverview
  \/ inscribe
  \/ FastPath
  \/ \E index \in Indexes : StrategyA(index)
  \/ StrategyB
  \/ \E lost \in {{}} \cup {{v} : v \in call.found} : Fetch(lost)

Spec == Init /\ [][Next]_vars

-----------------------------------------------------------------------------

\* A vault that was the owner's from the start of discoverVaults or
\* getPortfolioOverview to its end is in the answer, received vaults included,
\* when the RPC listed it; when the SDK had to probe, those the owner created
\* with a low id are.  Only a vault whose own fetch failed may be missing.
OwnedAreFound ==
  call.kind \in {"discover", "portfolio"} /\ call.pc = "done" =>
    \A v \in call.held \ call.lost :
      call.listed \/ v \in {<<Me, i>> : i \in 0 .. DefaultProbe - 1} => v \in call.answer

\* findNextVaultId "Returns 0n for a new owner, or the first unused ID": the id
\* names no vault, unless one was created while it looked.
NextIdIsUnused ==
  call.kind = "inscribe" /\ call.pc = "done" /\ ~call.created =>
    <<Me, call.answer>> \notin Existing
=============================================================================
