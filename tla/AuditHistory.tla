---------------------------- MODULE AuditHistory ----------------------------
(***************************************************************************)
(* What an audit log promises its reader: the last Capacity entries, all   *)
(* of them, oldest first.                                                  *)
(***************************************************************************)
EXTENDS Naturals, Sequences

CONSTANTS Entries, Capacity

VARIABLE log

Init == log = <<>>

Record(e) == log' = Append(IF Len(log) < Capacity THEN log ELSE Tail(log), e)

Next == \E e \in Entries : Record(e)

Spec == Init /\ [][Next]_log
=============================================================================
