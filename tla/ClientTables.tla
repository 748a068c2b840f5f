---------------------------- MODULE ClientTables ----------------------------
(***************************************************************************)
(* The vocabulary the tables of the generated clients are written in: the  *)
(* accounts and arguments of an instruction, and how the fields of an      *)
(* account or an event are laid out in bytes, packed for the client's      *)
(* codecs and Borsh or as a #[repr(C)] struct lies in memory.              *)
(***************************************************************************)
EXTENDS Naturals, Sequences, FiniteSetsExt

(* Instructions.  An account is what the program sees of one position of   *)
(* the account list.                                                       *)

Account(name, signer, writable) ==
  [name |-> name, signer |-> signer, writable |-> writable, optional |-> FALSE, seeds |-> <<>>]

R(name)  == Account(name, FALSE, FALSE)
W(name)  == Account(name, FALSE, TRUE)
SR(name) == Account(name, TRUE, FALSE)
SW(name) == Account(name, TRUE, TRUE)

\* An account that may be left out.
O(account) == [account EXCEPT !.optional = TRUE]

\* An argument and its type.
A(name, type) == <<name, type>>

-----------------------------------------------------------------------------
\* Where an address comes from: a fixed prefix and the accounts or arguments
\* that go into the derivation.
Derived(program, prefix, from) == <<program, prefix, from>>

\* How a builder fills in an account the caller left out.
Pda(name, prefix, from) == [name |-> name, seeds |-> Derived("sigil", prefix, from)]
Ata(name, owner, mint)  == [name |-> name, seeds |-> Derived("ata", "token", <<owner, mint>>)]
Known(name)             == [name |-> name, seeds |-> <<>>]

\* The address the program insists on.
At(account, prefix, from)   == [account EXCEPT !.seeds = Derived("sigil", prefix, from)]
AtaOf(account, owner, mint) == [account EXCEPT !.seeds = Derived("ata", "token", <<owner, mint>>)]

\* What the parser takes next: an account, or one it may report as absent.
N(name)     == [name |-> name, optional |-> FALSE]
Maybe(name) == [name |-> name, optional |-> TRUE]

Ix(accounts, data, asyncInput, asyncDefaults, syncInput, syncDefaults, parsed, program, args) ==
  [accounts |-> accounts, data |-> data, parsed |-> parsed, program |-> program, args |-> args,
   input |-> [async |-> asyncInput, sync |-> syncInput],
   defaults |-> [async |-> asyncDefaults, sync |-> syncDefaults]]

-----------------------------------------------------------------------------
(* Layouts: the types and the bytes each takes.                            *)

F(name, type) == [name |-> name, type |-> type]

U8 == <<"fixed", 1, 1>>   \* a scalar: its bytes and its alignment
U16 == <<"fixed", 2, 2>>
U32 == <<"fixed", 4, 4>>
U64 == <<"fixed", 8, 8>>
I64 == <<"fixed", 8, 8>>
Bool == <<"fixed", 1, 1>>
Enum == <<"fixed", 1, 1>>
Key == <<"fixed", 32, 1>>
Bytes(n) == <<"fixed", n, 1>>
Arr(n, t) == <<"array", n, t>>   \* exactly n elements, no prefix
Vec(t) == <<"vec", 0, t>>        \* a four-byte length, then the elements
UpTo(n, t) == <<"vec", n, t>>    \* the same, and the program caps it at n
Opt(t) == <<"option", t>>        \* a flag byte, then the value if there is one
Of(fields) == <<"struct", fields>>

Borsh(client, program, size) ==
  [client |-> client, program |-> program, size |-> size, zeroCopy |-> FALSE]
ZeroCopy(client, program, size) ==
  [client |-> client, program |-> program, size |-> size, zeroCopy |-> TRUE]
\* An event is written to the log: nothing is allocated for it.
Emitted(client, program) == Borsh(client, program, 0)

-----------------------------------------------------------------------------
RECURSIVE Packed(_, _)

\* Bytes of a value whose vectors hold n elements, and whose options hold a
\* value unless n = 0.
Packed(t, n) ==
  CASE t[1] = "fixed"  -> t[2]
    [] t[1] = "array"  -> t[2] * Packed(t[3], n)
    [] t[1] = "vec"    -> 4 + n * Packed(t[3], n)
    [] t[1] = "option" -> IF n = 0 THEN 1 ELSE 1 + Packed(t[2], n - 1)
    [] t[1] = "struct" -> MapThenSumSet(LAMBDA k : Packed(t[2][k].type, n), DOMAIN t[2])

RECURSIVE Alignment(_)

Alignment(t) ==
  CASE t[1] = "fixed"  -> t[3]
    [] t[1] = "array"  -> Alignment(t[3])
    [] t[1] = "struct" -> Max({Alignment(t[2][k].type) : k \in DOMAIN t[2]})

RoundUp(at, a) == ((at + a - 1) \div a) * a

RECURSIVE InMemory(_)

\* Bytes of a #[repr(C)] value, the padding between its fields included.
InMemory(t) ==
  CASE t[1] = "fixed"  -> t[2]
    [] t[1] = "array"  -> t[2] * InMemory(t[3])
    [] t[1] = "struct" ->
         LET end[k \in 0..Len(t[2])] ==
               IF k = 0 THEN 0
               ELSE RoundUp(end[k - 1], Alignment(t[2][k].type)) + InMemory(t[2][k].type)
         IN  RoundUp(end[Len(t[2])], Alignment(t))

\* The element counts worth telling apart: none, one, as many as the program
\* lets in.  An option adds one for its own flag.
RECURSIVE Counts(_)

Counts(t) ==
  CASE t[1] = "vec"    -> {0, 1, t[2]}
    [] t[1] = "option" -> {0} \cup {n + 1 : n \in Counts(t[2])}
    [] OTHER           -> {0}
=============================================================================
