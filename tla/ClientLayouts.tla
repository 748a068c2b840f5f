--------------------------- MODULE ClientLayouts ----------------------------
(***************************************************************************)
(* A client reads an account or an event the program wrote: both go through *)
(* the fields in their own order, the writer leaving vectors and options as *)
(* full as it likes.  The account queries pick accounts out by size and by  *)
(* the bytes at an offset.                                                  *)
(***************************************************************************)
EXTENDS AccountLayouts, EventLayouts, TLC

VARIABLES
  kind,    \* the account or event
  k,       \* the field that is next
  wrote,   \* bytes the program has written, the discriminator included
  read     \* bytes the client has taken

vars == <<kind, k, wrote, read>>

Table == AccountLayoutsTable @@ EventLayoutsTable

Row == Table[kind]

DISCRIMINATOR == 8

Init == /\ kind \in DOMAIN Table
        /\ k = 1
        /\ wrote = DISCRIMINATOR
        /\ read = DISCRIMINATOR

\* Where the program puts field k: right behind the others, or at the next
\* multiple of its alignment in a struct stored as it lies in memory.
StartOf(fields) ==
  IF Row.zeroCopy THEN DISCRIMINATOR + RoundUp(wrote - DISCRIMINATOR, Alignment(fields[k].type))
  ELSE wrote

Field(n) ==
  /\ LET p == Row.program[k].type
     IN  wrote' = StartOf(Row.program) + IF Row.zeroCopy THEN InMemory(p) ELSE Packed(p, n)
  /\ read' = read + Packed(Row.client[k].type, n)
  /\ k' = k + 1
  /\ UNCHANGED kind

Next == k <= Len(Row.program) /\ \E n \in Counts(Row.program[k].type) : Field(n)

Spec == Init /\ [][Next]_vars

-----------------------------------------------------------------------------
\* The filters of findVaultsByOwner and findSessionsByVault: the size of the
\* account, the field compared and the offset it is looked for at.
AGENT_VAULT_SIZE == 676

SESSION_AUTHORITY_SIZE == 619

findVaultsByOwner == [kind |-> "AgentVault", dataSize |-> AGENT_VAULT_SIZE, field |-> "owner", offset |-> 8]

findSessionsByVault ==
  [kind |-> "SessionAuthority", dataSize |-> SESSION_AUTHORITY_SIZE, field |-> "vault", offset |-> 8]

Queries == {findVaultsByOwner, findSessionsByVault}

-----------------------------------------------------------------------------
\* Whatever the vectors and options hold, every field a client decodes is the
\* field the program put at that offset, and both stop at the same byte: no
\* decoder has drifted from the program's structs.
DecodersAligned ==
  /\ Len(Row.client) = Len(Row.program)
  /\ IF k <= Len(Row.program)
     THEN Row.client[k].name = Row.program[k].name /\ read = StartOf(Row.program)
     ELSE read = wrote

\* An account fits in the space the program allocates for it however full its
\* vectors are, a zero-copy one filling it to the byte; and the queries find
\* it: the size they ask for is the size allocated, the bytes compared are the
\* field.
AccountsFitAndAreFound ==
  kind \in DOMAIN AccountLayoutsTable =>
    /\ wrote <= Row.size
    /\ Row.zeroCopy /\ k > Len(Row.program) => wrote = Row.size
    /\ \A q \in Queries : q.kind = kind =>
         /\ q.dataSize = Row.size
         /\ k <= Len(Row.program) /\ Row.program[k].name = q.field => wrote = q.offset
=============================================================================
