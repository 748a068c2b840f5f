---------------------------- MODULE ClientCodec ----------------------------
(***************************************************************************)
(* What the generated clients do with the tables: an asynchronous builder  *)
(* fills in the accounts its caller left out, one after the other, and     *)
(* freezes the account list; the program and the parser read it back by    *)
(* position.  Left-out optional accounts travel as the program's address.  *)
(***************************************************************************)
EXTENDS SessionInstructions, VaultInstructions, AgentInstructions, PolicyInstructions,
        OwnershipInstructions, FiniteSets, SequencesExt

CONSTANTS
  Null,       \* an account without a value
  MaxExtra    \* bound: accounts passed or left out beyond the required ones

VARIABLES
  ix,        \* the instruction built
  mode,      \* the builder used: "async" or "sync"
  accounts,  \* accounts.x.value, as the builder goes on
  todo,      \* the defaults the builder has still to fill in
  metas,     \* the account list of the frozen instruction
  parsed,    \* what the parser returned
  pc

vars == <<ix, mode, accounts, todo, metas, parsed, pc>>

Tables == [i \in DOMAIN SessionInstructionsTable |-> SessionInstructionsTable[i]]
          @@ VaultInstructionsTable @@ AgentInstructionsTable @@ PolicyInstructionsTable
          @@ OwnershipInstructionsTable

Row == Tables[ix]

NamesOf(i) == {Tables[i].accounts[k].name : k \in DOMAIN Tables[i].accounts}

ProgramId == <<"program">>

Init == /\ ix \in DOMAIN Tables
        /\ mode \in {"async", "sync"}
        /\ accounts = [n \in NamesOf(ix) |-> Null]
        /\ todo = <<>>
        /\ metas = <<>>
        /\ parsed = <<>>
        /\ pc = "idle"

\* The caller passes every account the input type requires and some others.
Call(extra) ==
  /\ pc = "idle"
  /\ Cardinality(extra) <= MaxExtra \/ Cardinality(NamesOf(ix) \ extra) <= MaxExtra
  /\ accounts' = [n \in NamesOf(ix) |->
                    IF n \in extra \cup Row.input[mode] THEN <<"input", n>> ELSE Null]
  /\ todo' = Row.defaults[mode]
  /\ pc' = "resolving"
  /\ UNCHANGED <<ix, mode, metas, parsed>>

\* A seed that is no account of this instruction is one of its arguments.
SeedValue(n) == IF n \in NamesOf(ix) THEN accounts[n] ELSE <<"arg", n>>

Address(default) ==
  IF default.seeds = <<>> THEN <<"known", default.name>>
  ELSE <<"derived", default.seeds[1], default.seeds[2],
         [k \in DOMAIN default.seeds[3] |-> SeedValue(default.seeds[3][k])]>>

\* getAddressFromResolvedInstructionAccount throws for an account that has no
\* value yet.
Underivable(default) ==
  default.seeds # <<>> /\ \E n \in ToSet(default.seeds[3]) : SeedValue(n) = Null

\* One "if (!accounts.x.value)" block.
Resolve ==
  /\ pc = "resolving" /\ todo # <<>>
  /\ LET d == Head(todo)
         absent == accounts[d.name] = Null
     IN  /\ accounts' = IF absent /\ ~Underivable(d)
                        THEN [accounts EXCEPT ![d.name] = Address(d)] ELSE accounts
         /\ pc' = IF absent /\ Underivable(d) THEN "threw" ELSE pc
  /\ todo' = Tail(todo)
  /\ UNCHANGED <<ix, mode, metas, parsed>>

\* getAccountMetaFactory(programAddress, "programId"): without a value, a
\* read-only mention of the program.
getAccountMeta(a) ==
  IF accounts[a.name] = Null
  THEN [address |-> ProgramId, signer |-> FALSE, writable |-> FALSE]
  ELSE [address |-> accounts[a.name], signer |-> a.signer, writable |-> a.writable]

Freeze ==
  /\ pc = "resolving" /\ todo = <<>>
  /\ metas' = [k \in DOMAIN Row.accounts |-> getAccountMeta(Row.accounts[k])]
  /\ pc' = "built"
  /\ UNCHANGED <<ix, mode, accounts, todo, parsed>>

\* The parser wants as many accounts as it has names and takes them in turn.
Parse ==
  /\ pc = "built"
  /\ Len(metas) >= Len(Row.parsed)
  /\ parsed' = [n \in {p.name : p \in ToSet(Row.parsed)} |->
                  LET k == CHOOSE j \in DOMAIN Row.parsed : Row.parsed[j].name = n
                  IN  IF Row.parsed[k].optional /\ metas[k].address = ProgramId THEN Null
                      ELSE metas[k].address]
  /\ pc' = "parsed"
  /\ UNCHANGED <<ix, mode, accounts, todo, metas>>

Next ==
  \/ \E extra \in SUBSET (NamesOf(ix) \ Row.input[mode]) : Call(extra)
  \/ Resolve
  \/ Freeze
  \/ Parse

Spec == Init /\ [][Next]_vars

-----------------------------------------------------------------------------
\* Whatever the caller leaves out, every default is derived from accounts
\* that already have a value: no builder throws on inputs its type allows.
DefaultsInOrder == pc # "threw"

\* The parser gives back the accounts the builder put in, the left-out ones
\* included.
ParseInvertsBuild == pc = "parsed" => parsed = accounts

\* What the program's Accounts struct asks of a position: the signature, the
\* write lock, an account unless it is optional, and, for an address the
\* builder derived, the same derivation from the accounts in the list.
Accepts(a, m) ==
  LET k(n) == CHOOSE j \in DOMAIN Row.program : Row.program[j].name = n
      Seed(n) == IF \E j \in DOMAIN Row.program : Row.program[j].name = n
                 THEN metas[k(n)].address ELSE <<"arg", n>>
  IN  IF m.address = ProgramId THEN a.optional
      ELSE /\ a.signer = m.signer
           /\ a.writable => m.writable
           /\ m.address[1] = "derived"
                => m.address = <<"derived", a.seeds[1], a.seeds[2],
                                 [j \in DOMAIN a.seeds[3] |-> Seed(a.seeds[3][j])]>>

\* The account lists and arguments the clients produce are the ones the
\* program reads: same number, order, signatures, write locks, derivations,
\* and the same argument types in the same order.
ProgramAccepts ==
  pc = "built" =>
    /\ Row.data = Row.args
    /\ Len(metas) = Len(Row.program)
    /\ \A k \in DOMAIN metas : Accepts(Row.program[k], metas[k])
=============================================================================
