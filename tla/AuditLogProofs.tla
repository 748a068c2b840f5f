--------------------------- MODULE AuditLogProofs ---------------------------
(***************************************************************************)
(* The ring of AuditLog, read by the SDK, implements AuditHistory for every *)
(* capacity a byte can count and every set of entries.                     *)
(***************************************************************************)
EXTENDS AuditLog, TLAPS

\* The remainder of a position less than twice the capacity, which is all that
\* append and orderCircularEntries take.
LEMMA Wraps ==
  ASSUME NEW c \in Nat \ {0}, NEW a \in 0 .. 2 * c - 1
  PROVE  a % c = IF a < c THEN a ELSE a - c
  OBVIOUS

\* So every position computed is a slot of the ring.
LEMMA SlotOf ==
  ASSUME NEW a \in 0 .. 2 * Capacity - 1
  PROVE  /\ Slot(a) = IF a < Capacity THEN a ELSE a - Capacity
         /\ Slot(a) \in 0 .. Capacity - 1
<1>1. Capacity \in Nat \ {0}
  BY CapacityAssumption
<1>2. Slot(a) = IF a < Capacity THEN a ELSE a - Capacity
  BY Zenon, <1>1, Wraps DEF Slot
<1> QED
  BY <1>1, <1>2

\* append keeps the write position inside the ring and equal to the count until
\* the ring is full.
LEMMA RingInvariant == Spec => []RingInv
<1>1. Init => RingInv
  BY CapacityAssumption DEF Init, RingInv
<1>2. RingInv /\ [Next]_vars => RingInv'
  <2> SUFFICES ASSUME RingInv, [Next]_vars PROVE RingInv'
    OBVIOUS
  <2> USE CapacityAssumption
  <2>1. CASE UNCHANGED vars
    BY <2>1 DEF vars, RingInv
  <2>2. ASSUME NEW e \in Entries, append(e) PROVE RingInv'
    <3>1. Slot(head) = head
      BY SlotOf DEF RingInv
    <3>2. Slot(head + 1) = IF head + 1 < Capacity THEN head + 1 ELSE 0
      BY SlotOf DEF RingInv
    <3>3. head' = IF head + 1 < Capacity THEN head + 1 ELSE 0
      BY <2>2, <3>2 DEF append, AsU8, RingInv
    <3> QED
      BY <2>2, <3>1, <3>3 DEF append, RingInv
  <2> QED
    BY <2>1, <2>2 DEF Next
<1> QED
  BY <1>1, <1>2, PTL DEF Spec

\* What the reader finds in place i of a ring with n entries, place 1 being the
\* oldest.
PlaceOf(raw, h, n, i) ==
  IF n < Capacity THEN raw[i - 1]
  ELSE IF h + (i - 1) < Capacity THEN raw[h + (i - 1)] ELSE raw[h + (i - 1) - Capacity]

\* orderCircularEntries returns n entries, without a remainder to compute.
LEMMA ViewOf ==
  ASSUME NEW E, NEW raw \in [0 .. Capacity - 1 -> E],
         NEW h \in 0 .. Capacity - 1, NEW n \in 0 .. Capacity
  PROVE  /\ orderCircularEntries(raw, h, n) \in Seq(E)
         /\ Len(orderCircularEntries(raw, h, n)) = n
         /\ \A i \in 1 .. n : orderCircularEntries(raw, h, n)[i] = PlaceOf(raw, h, n, i)
<1> DEFINE view == orderCircularEntries(raw, h, n)
<1> USE CapacityAssumption
<1>1. CASE n = 0
  BY <1>1 DEF orderCircularEntries
<1>2. CASE n # 0 /\ n < Capacity
  <2>1. view = [i \in 1 .. n |-> raw[i - 1]]
    BY <1>2 DEF orderCircularEntries
  <2>2. \A i \in 1 .. n : raw[i - 1] \in E
    BY <1>2
  <2> HIDE DEF view
  <2>3. view \in [1 .. n -> E]
    BY <2>1, <2>2
  <2>4. view \in Seq(E) /\ Len(view) = n
    BY <2>3
  <2>5. \A i \in 1 .. n : view[i] = PlaceOf(raw, h, n, i)
    BY <1>2, <2>1 DEF PlaceOf
  <2> QED
    BY <2>4, <2>5 DEF view
<1>3. CASE n = Capacity
  <2>1. view = [i \in 1 .. Capacity |-> raw[Slot(h + (i - 1))]]
    BY <1>3 DEF orderCircularEntries
  <2>2. \A i \in 1 .. Capacity :
          /\ Slot(h + (i - 1)) =
               IF h + (i - 1) < Capacity THEN h + (i - 1) ELSE h + (i - 1) - Capacity
          /\ Slot(h + (i - 1)) \in 0 .. Capacity - 1
    BY SlotOf
  <2> HIDE DEF view
  <2>3. view \in [1 .. Capacity -> E]
    BY Zenon, <2>1, <2>2
  <2>4. view \in Seq(E) /\ Len(view) = n
    BY <1>3, <2>3
  <2>5. ASSUME NEW i \in 1 .. n PROVE view[i] = PlaceOf(raw, h, n, i)
    <3>1. view[i] = raw[Slot(h + (i - 1))]
      BY <1>3, <2>1
    <3> QED
      BY <1>3, <2>2, <3>1 DEF PlaceOf
  <2> QED
    BY <2>4, <2>5 DEF view
<1>4. n = 0 \/ (n # 0 /\ n < Capacity) \/ n = Capacity
  OBVIOUS
<1> QED
  BY <1>1, <1>2, <1>3, <1>4

\* Two sequences with the same entries are the same.
LEMMA SameSequence ==
  ASSUME NEW E, NEW s \in Seq(E), NEW t \in Seq(E), Len(s) = Len(t),
         \A i \in 1 .. Len(s) : s[i] = t[i]
  PROVE  s = t
  OBVIOUS

\* One append, seen by the reader, is one entry recorded.
LEMMA AppendIsRecord ==
  ASSUME RingInv, NEW e \in Entries, append(e)
  PROVE  History!Record(e)
<1> USE CapacityAssumption
<1> DEFINE E == Entries \cup {Blank}
           kept == IF Len(toView) < Capacity THEN toView ELSE Tail(toView)
<1>1. Slot(head) = head /\ Slot(head + 1) = IF head + 1 < Capacity THEN head + 1 ELSE 0
  BY SlotOf DEF RingInv
<1>2. /\ entries' = [entries EXCEPT ![head] = e]
      /\ head' = IF head + 1 < Capacity THEN head + 1 ELSE 0
      /\ count' = IF count < Capacity THEN count + 1 ELSE count
  BY <1>1 DEF append, AsU8, RingInv
<1>3. /\ entries' \in [0 .. Capacity - 1 -> E]
      /\ head' \in 0 .. Capacity - 1
      /\ count' \in 1 .. Capacity
  BY <1>2 DEF RingInv
<1>4. /\ toView \in Seq(E)
      /\ Len(toView) = count
      /\ \A i \in 1 .. count : toView[i] = PlaceOf(entries, head, count, i)
  BY ViewOf DEF RingInv, toView
<1>5. /\ toView' \in Seq(E)
      /\ Len(toView') = count'
      /\ \A i \in 1 .. count' : toView'[i] = PlaceOf(entries', head', count', i)
  BY <1>3, ViewOf DEF toView
<1>6. CASE count < Capacity
  <2>1. kept = toView
    BY <1>4, <1>6
  <2>2. Append(toView, e) \in Seq(E) /\ Len(Append(toView, e)) = count'
    BY <1>2, <1>4, <1>6
  <2>3. ASSUME NEW i \in 1 .. count' PROVE toView'[i] = Append(toView, e)[i]
    <3>1. toView'[i] = PlaceOf(entries', head', count', i)
      BY <1>5
    <3>2. Append(toView, e)[i] = IF i = count + 1 THEN e ELSE entries[i - 1]
      BY <1>2, <1>4, <1>6 DEF PlaceOf
    <3>3. PlaceOf(entries', head', count', i) = IF i = count + 1 THEN e ELSE entries[i - 1]
      BY <1>2, <1>6 DEF PlaceOf, RingInv
    <3> QED
      BY <3>1, <3>2, <3>3
  <2>4. toView' = Append(toView, e)
    BY <1>5, <2>2, <2>3, SameSequence
  <2> QED
    BY <2>1, <2>4 DEF History!Record
<1>7. CASE count = Capacity
  <2>1. kept = Tail(toView) /\ kept \in Seq(E) /\ Len(kept) = count - 1
    BY <1>4, <1>7
  <2>2. \A i \in 1 .. count - 1 : kept[i] = toView[i + 1]
    BY <1>4, <1>7, <2>1
  <2>3. Append(kept, e) \in Seq(E) /\ Len(Append(kept, e)) = count'
    BY <1>2, <1>7, <2>1
  <2>4. ASSUME NEW i \in 1 .. count' PROVE toView'[i] = Append(kept, e)[i]
    <3>1. toView'[i] = PlaceOf(entries', head', count', i)
      BY <1>5
    <3>2. CASE i = count
      <4> HIDE DEF kept
      <4>1. Append(kept, e)[i] = e
        BY <2>1, <3>2
      <4>2. PlaceOf(entries', head', count', i) = entries'[head]
        BY <1>2, <1>7, <3>2 DEF PlaceOf, RingInv
      <4>3. entries'[head] = e
        BY <1>2 DEF RingInv
      <4> QED
        BY <3>1, <4>1, <4>2, <4>3
    <3>3. CASE i < count
      <4>1. Append(kept, e)[i] = PlaceOf(entries, head, count, i + 1)
        BY <1>2, <1>4, <1>7, <2>1, <2>2, <3>3
      <4>2. PlaceOf(entries, head, count, i + 1) = PlaceOf(entries', head', count', i)
        BY <1>2, <1>7, <3>3 DEF PlaceOf, RingInv
      <4> QED
        BY Zenon, <3>1, <4>1, <4>2
    <3>4. i = count \/ i < count
      BY <1>2, <1>7
    <3> QED
      BY Zenon, <3>2, <3>3, <3>4
  <2>5. toView' = Append(kept, e)
    BY <1>5, <2>3, <2>4, SameSequence
  <2> QED
    BY <2>5 DEF History!Record
<1> QED
  BY <1>6, <1>7 DEF RingInv

\* The logs of a vault read through fetchAuditLogSuccess and
\* fetchAuditLogRejected are bounded histories: for every capacity a byte can
\* count, every behaviour of the ring is one of AuditHistory.
THEOREM RingImplementsHistory == Spec => ReaderSeesHistory
<1>1. Init => History!Init
  BY DEF Init, History!Init, toView, orderCircularEntries
<1>2. RingInv /\ [Next]_vars => [History!Next]_toView
  <2> SUFFICES ASSUME RingInv, [Next]_vars PROVE [History!Next]_toView
    OBVIOUS
  <2>1. CASE UNCHANGED vars
    BY <2>1 DEF vars, toView
  <2>2. CASE Next
    BY <2>2, AppendIsRecord DEF Next, History!Next
  <2> QED
    BY <2>1, <2>2
<1> QED
  BY <1>1, <1>2, RingInvariant, PTL DEF Spec, ReaderSeesHistory, History!Spec
=============================================================================
