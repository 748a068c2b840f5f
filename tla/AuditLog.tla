------------------------------ MODULE AuditLog ------------------------------
(***************************************************************************)
(* The audit logs of a vault: a ring the program writes in place, with a   *)
(* write position and a count of one byte each, and the SDK's reader,      *)
(* which has only the ring to tell the order from.  The log of successes   *)
(* and the log of rejections differ in their capacity.                     *)
(***************************************************************************)
EXTENDS Naturals, Sequences

CONSTANTS Entries, Capacity, Blank

\* A capacity that a byte can count up to; the code has 128 and 64.
ASSUME CapacityAssumption == Capacity \in 1 .. 255

VARIABLES entries, head, count

vars == <<entries, head, count>>

AsU8(n) == n % 256

\* Positions run modulo the capacity.
Slot(n) == n % Capacity

Init == /\ entries = [i \in 0 .. Capacity - 1 |-> Blank]
        /\ head = 0
        /\ count = 0

append(e) ==
  /\ entries' = [entries EXCEPT ![Slot(head)] = e]
  /\ head' = AsU8(Slot(head + 1))
  /\ count' = IF count < Capacity THEN count + 1 ELSE count

Next == \E e \in Entries : append(e)

Spec == Init /\ [][Next]_vars

-----------------------------------------------------------------------------

\* Faulty variant: a full ring is read from its first slot.
UnrotatedEntries(raw, first, n) == [i \in 1 .. n |-> raw[i - 1]]

\* The entries of a ring that was never full lie in order from slot 0; those of
\* a full one start at the write position.
orderCircularEntries(raw, first, n) ==
  IF n = 0 THEN <<>>
  ELSE IF n < Capacity THEN [i \in 1 .. n |-> raw[i - 1]]
  ELSE [i \in 1 .. Capacity |-> raw[Slot(first + (i - 1))]]

toView == orderCircularEntries(entries, head, count)

-----------------------------------------------------------------------------

History == INSTANCE AuditHistory WITH log <- toView

\* fetchAuditLogSuccess and fetchAuditLogRejected return the last Capacity
\* entries oldest first, whatever the number of times the ring wrapped: each
\* append shows as one entry more at the end and, in a full log, the oldest
\* one gone.
ReaderSeesHistory == History!Spec

\* Why that holds: until the ring is full its write position is its count.
RingInv ==
  /\ entries \in [0 .. Capacity - 1 -> Entries \cup {Blank}]
  /\ head \in 0 .. Capacity - 1
  /\ count \in 0 .. Capacity
  /\ count < Capacity => head = count
=============================================================================
