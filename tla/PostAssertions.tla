---------------------------- MODULE PostAssertions ----------------------------
(***************************************************************************)
(* Post-execution assertions: the batch of entries the owner stores through *)
(* the client (dashboard/post-assertion-validation.ts, mutations.ts) and    *)
(* create_post_assertions, the values validate_and_authorize captures, and  *)
(* what finalize_session compares with them.  The two instructions share    *)
(* one transaction but each is given its own list of remaining accounts,    *)
(* which the agent chooses.  Legacy modes (0..3) read the amount field of   *)
(* their target; amounts are below 2^63, where the signed and the unsigned  *)
(* operators agree.  A token account's mint never changes.                  *)
(***************************************************************************)
EXTENDS Integers, Sequences, FiniteSetsExt, Bitwise

CONSTANTS Drafts,     \* batches an owner may ask the client to store
          Deployed,   \* bound: the batches whose sessions are explored
          Payee,      \* a wallet outside the vault
          Zero,       \* Pubkey::default()
          TokenMint,  \* the mint of every token account here
          Amounts     \* bound: balances

VARIABLES batch,     \* the entries; stored on chain from phase "stored" on
          phase,     \* where the owner's call, then the agent's transaction, is
          accounts,  \* token accounts by key
          session,   \* snapshots of the open session, and the DeFi metas
          before     \* the accounts when the session was opened

vars == <<batch, phase, accounts, session, before>>

Vault == "vault"

\* derive_vault_atas: the vault's account under each of the two token programs
Canonical == {"classic", "token2022"}

Pda == "post_assertions"

Keys == Canonical \union {Pda}

\* An address with no data, or a token account of TokenMint
Uninitialised == [data |-> FALSE]

Holding(authority, amount) ==
    [data |-> TRUE, authority |-> authority, amount |-> amount]

AccountStates ==
    {Uninitialised} \union
        {Holding(w, n) : w \in {Vault, Payee}, n \in Amounts}

NotCaptured == [len |-> 0]

Captured(len, value) == [len |-> len, value |-> value]

Init ==
    /\ batch \in Drafts \union Deployed
    /\ phase = "draft"
    /\ accounts = [k \in Canonical |-> Uninitialised]
    /\ session = <<>>
    /\ before = accounts

-----------------------------------------------------------------------------
(* The client's validator.                                                  *)

requireUintInRange(value, max) == value \in 0 .. max

isZeroPubkeyAddress(key) == key = Zero

isZeroPubkeyBytes(e) == e.size < 32 \/ e.mint = Zero

isZeroAuxValue(e) == e.aux_value = 0

validatePhase6Entry(e) ==
    /\ requireUintInRange(e.aux_byte, 255)
    /\ \/ /\ e.mode = 4
          /\ e.size >= 32
          /\ e.aux_byte <= 1
          /\ e.aux_value # 0
       \/ /\ e.mode = 5
          /\ ~isZeroPubkeyAddress(e.target)
          /\ isZeroAuxValue(e)
          /\ e.aux_byte = 0
       \/ /\ e.mode = 6
          /\ ~isZeroPubkeyAddress(e.target)
          /\ e.size >= 32
          /\ e.aux_value # 0
          /\ e.aux_byte = 0
       \/ /\ e.mode = 7
          /\ ~isZeroPubkeyAddress(e.target)
          /\ e.size >= 32
          /\ ~isZeroPubkeyBytes(e)
          /\ e.aux_byte <= 63
          /\ isZeroAuxValue(e)

\* A validator that lets an empty comparison through
EntryOfAnyLength(e) ==
    /\ requireUintInRange(e.operator, 6)
    /\ requireUintInRange(e.mode, 7)
    /\ IF e.mode >= 4 THEN validatePhase6Entry(e)
       ELSE /\ requireUintInRange(e.value_len, 32)
            /\ e.size >= e.value_len
            /\ e.mode \in 1 .. 3 => e.value_len <= 8
            /\ isZeroAuxValue(e)
            /\ e.aux_byte = 0

validateSingleEntry(e) ==
    /\ requireUintInRange(e.operator, 6)
    /\ requireUintInRange(e.mode, 7)
    /\ IF e.mode >= 4 THEN validatePhase6Entry(e)
       ELSE /\ requireUintInRange(e.value_len, 32)
            /\ e.value_len # 0
            /\ e.size >= e.value_len
            /\ e.mode \in 1 .. 3 => e.value_len <= 8
            /\ isZeroAuxValue(e)
            /\ e.aux_byte = 0

validatePostAssertionEntries(entries) ==
    /\ Len(entries) \in 1 .. 8
    /\ \A i \in DOMAIN entries : validateSingleEntry(entries[i])

-----------------------------------------------------------------------------
(* The program's validator.                                                 *)

MintDeltaCapFits(e) == e.size >= 32 /\ e.aux_byte <= 1 /\ e.aux_value > 0

AtaAuthorityPinFits(e) == e.target # Zero /\ e.aux_value = 0 /\ e.aux_byte = 0

OutputBalanceFloorFits(e) ==
    e.target # Zero /\ e.size >= 32 /\ e.aux_value > 0 /\ e.aux_byte = 0

DeclarationConsistencyFits(e) ==
    /\ e.target # Zero
    /\ e.size >= 32
    /\ e.mint # Zero
    /\ e.aux_byte < 64
    /\ e.aux_value = 0

LegacyFits(e) ==
    /\ e.value_len > 0 /\ e.value_len <= 32
    /\ e.size >= e.value_len
    /\ e.operator \in 0 .. 6
    /\ e.mode \in 1 .. 3 => e.value_len <= 8
    /\ e.aux_value = 0 /\ e.aux_byte = 0

validate_entries(entries) ==
    /\ Len(entries) \in 1 .. 8
    /\ \A i \in DOMAIN entries :
           LET e == entries[i] IN
           CASE e.mode \in 0 .. 3 -> LegacyFits(e)
             [] e.mode = 4 -> MintDeltaCapFits(e)
             [] e.mode = 5 -> AtaAuthorityPinFits(e)
             [] e.mode = 6 -> OutputBalanceFloorFits(e)
             [] e.mode = 7 -> DeclarationConsistencyFits(e)
             [] OTHER -> FALSE

createPostAssertions ==
    /\ phase = "draft"
    /\ phase' = IF ~validatePostAssertionEntries(batch) THEN "refused"
                ELSE IF ~validate_entries(batch) THEN "rejected"
                ELSE "stored"
    /\ UNCHANGED <<batch, accounts, session, before>>

-----------------------------------------------------------------------------
(* Capture, by validate_and_authorize.                                      *)

Owned(k) == accounts[k].data /\ accounts[k].authority = Vault

BalanceOrZero(k) == IF Owned(k) THEN accounts[k].amount ELSE 0

\* The sum before every derived address had to be listed
SumOfListed(e, listed) ==
    IF e.aux_byte = 0
    THEN [ok |-> TRUE,
          sum |-> MapThenSumSet(BalanceOrZero, Canonical \intersect listed)]
    ELSE IF e.target \in listed /\ Owned(e.target)
         THEN [ok |-> TRUE, sum |-> accounts[e.target].amount]
         ELSE [ok |-> FALSE]

sum_vault_mint_balance(e, listed) ==
    IF e.aux_byte = 0
    THEN IF Canonical \subseteq listed
         THEN [ok |-> TRUE, sum |-> MapThenSumSet(BalanceOrZero, Canonical)]
         ELSE [ok |-> FALSE]
    ELSE IF e.target \in listed /\ Owned(e.target)
         THEN [ok |-> TRUE, sum |-> accounts[e.target].amount]
         ELSE [ok |-> FALSE]

Readable(k, listed) == k \in listed /\ accounts[k].data

Capturable(e, listed) ==
    CASE e.mode = 4 -> sum_vault_mint_balance(e, listed).ok
      [] e.mode = 6 -> Readable(e.target, listed) /\ Owned(e.target)
      [] e.mode \in 1 .. 3 -> Readable(e.target, listed)
      [] OTHER -> TRUE

Snapshot(e, listed) ==
    CASE e.mode = 4 -> Captured(8, sum_vault_mint_balance(e, listed).sum)
      [] e.mode = 6 -> Captured(8, accounts[e.target].amount)
      [] e.mode \in 1 .. 3 -> Captured(e.value_len, accounts[e.target].amount)
      [] OTHER -> NotCaptured

\* Accounts hold whatever they hold when the agent's transaction starts.
StartTransaction ==
    /\ phase \in {"stored", "done"}
    /\ batch \in Deployed
    /\ accounts' \in [Canonical -> AccountStates]
    /\ phase' = "started"
    /\ before' = accounts'
    /\ session' \in [snaps : {<<>>},
                     metas : {<<"classic">>, <<"classic", "token2022">>}]
    /\ UNCHANGED batch

\* Without the assertions account in its list, validate captures nothing.
validate_and_authorize ==
    /\ phase = "started"
    /\ \E listed \in SUBSET Keys :
           /\ Pda \in listed =>
                  \A i \in DOMAIN batch : Capturable(batch[i], listed)
           /\ session' = [session EXCEPT !.snaps =
                  [i \in DOMAIN batch |->
                      IF Pda \in listed THEN Snapshot(batch[i], listed)
                      ELSE NotCaptured]]
    /\ phase' = "open"
    /\ UNCHANGED <<batch, accounts, before>>

\* External: the protocol's instruction moves tokens as it likes.
DeFi ==
    /\ phase = "open"
    /\ phase' = "executed"
    /\ accounts' \in [Canonical -> AccountStates]
    /\ UNCHANGED <<batch, session, before>>

-----------------------------------------------------------------------------
(* Comparison, by finalize_session.                                         *)

Decrease(from, to) == IF from > to THEN from - to ELSE 0

bytes_match(actual, operator, expected) ==
    CASE operator = 0 -> actual = expected
      [] operator = 1 -> actual # expected
      [] operator \in {2, 4} -> actual >= expected
      [] operator \in {3, 5} -> actual <= expected
      [] operator = 6 -> actual & expected = expected

verify_mint_delta_cap(e, snap, listed) ==
    LET post == sum_vault_mint_balance(e, listed) IN
    /\ snap.len = 8
    /\ post.ok
    /\ Decrease(snap.value, post.sum) <= e.aux_value

verify_ata_authority_pin(e, listed) ==
    Readable(e.target, listed) /\ accounts[e.target].authority = Vault

verify_output_balance_floor(e, snap, listed) ==
    /\ snap.len = 8
    /\ Readable(e.target, listed)
    /\ Owned(e.target)
    /\ Decrease(accounts[e.target].amount, snap.value) >= e.aux_value

verify_declaration_consistency(e, listed) ==
    /\ e.aux_byte < Len(session.metas)
    /\ LET k == session.metas[e.aux_byte + 1] IN
       /\ Readable(k, listed)
       /\ TokenMint = e.mint
       /\ accounts[k].authority = e.target

VerifyLegacy(e, snap, listed) ==
    /\ Readable(e.target, listed)
    /\ e.mode # 0 => snap.len = e.value_len
    /\ LET actual == accounts[e.target].amount IN
       CASE e.mode = 0 -> bytes_match(actual, e.operator, e.expected)
         [] e.mode = 1 -> Decrease(snap.value, actual) <= e.expected
         [] e.mode = 2 -> Decrease(actual, snap.value) <= e.expected
         [] e.mode = 3 -> actual = snap.value

enforce_post_execution_assertions(listed) ==
    /\ Pda \in listed
    /\ \A i \in DOMAIN batch :
           LET e == batch[i]
               snap == session.snaps[i]
           IN CASE e.mode = 4 -> verify_mint_delta_cap(e, snap, listed)
                [] e.mode = 5 -> verify_ata_authority_pin(e, listed)
                [] e.mode = 6 -> verify_output_balance_floor(e, snap, listed)
                [] e.mode = 7 -> verify_declaration_consistency(e, listed)
                [] e.mode \in 0 .. 3 -> VerifyLegacy(e, snap, listed)

\* An error anywhere undoes the whole transaction.
finalize_session ==
    /\ phase = "executed"
    /\ \E listed \in SUBSET Keys :
           IF enforce_post_execution_assertions(listed)
           THEN phase' = "done" /\ UNCHANGED accounts
           ELSE phase' = "stored" /\ accounts' = before
    /\ session' = [session EXCEPT !.snaps = <<>>]
    /\ UNCHANGED <<batch, before>>

Next ==
    \/ createPostAssertions
    \/ StartTransaction
    \/ validate_and_authorize
    \/ DeFi
    \/ finalize_session

Spec == Init /\ [][Next]_vars

-----------------------------------------------------------------------------
(* Properties.                                                              *)

\* The client's validator and the program's agree ("the exact rules the
\* on-chain program enforces", post-assertion-validation.ts): what the client
\* sends is never rejected by validate_entries, and it withholds only what the
\* program would reject, or an operator no comparison knows (the program does
\* not look at the operator of modes 4..7).
ClientKnowsRules ==
    /\ phase # "rejected"
    /\ phase = "refused" =>
           \/ ~validate_entries(batch)
           \/ \E i \in DOMAIN batch : batch[i].operator \notin 0 .. 6

Total(accts) ==
    MapThenSumSet(LAMBDA k : IF accts[k].data /\ accts[k].authority = Vault
                             THEN accts[k].amount ELSE 0, Canonical)

HoldsAcross(e, old, new) ==
    CASE e.mode = 0 -> bytes_match(new[e.target].amount, e.operator, e.expected)
      [] e.mode = 1 -> new[e.target].amount >= old[e.target].amount - e.expected
      [] e.mode = 2 -> new[e.target].amount <= old[e.target].amount + e.expected
      [] e.mode = 3 -> new[e.target].amount = old[e.target].amount
      [] e.mode = 4 /\ e.aux_byte = 0 -> Total(new) >= Total(old) - e.aux_value
      [] e.mode = 4 /\ e.aux_byte = 1 ->
             new[e.target].amount >= old[e.target].amount - e.aux_value
      [] e.mode = 5 -> new[e.target].authority = Vault
      [] e.mode = 6 ->
             /\ new[e.target].amount >= old[e.target].amount + e.aux_value
             /\ new[e.target].authority = Vault
      [] e.mode = 7 ->
             new[session.metas[e.aux_byte + 1]].authority = e.target

\* A session that finalizes has kept every stored entry between the accounts
\* it started from and the ones it leaves, whichever accounts the agent listed
\* for validate_and_authorize and for finalize_session: leaving an account out
\* of either list may fail the transaction, never empty a comparison.
AssertionsBind ==
    phase = "done" =>
        \A i \in DOMAIN batch : HoldsAcross(batch[i], before, accounts)

=============================================================================
