----------------------------- MODULE AbstractLog -----------------------------
(***************************************************************************)
(* What the logger promises of the records that wait to be written: they   *)
(* are the newest ones, in the order they were logged, and never more than *)
(* Limit of them.  A new one costs the oldest its place when there is no   *)
(* room.                                                                   *)
(***************************************************************************)
EXTENDS Naturals, Sequences

CONSTANTS Limit, Record

VARIABLE pending

Init == pending \in {<<>>, <<0>>}

Newest(q) == IF Len(q) >= Limit THEN Tail(q) ELSE q

Log ==
  \E r \in Record :
    /\ \A i \in 1..Len(pending) : pending[i] < r
    /\ pending' = Append(Newest(pending), r)

Write == pending # <<>> /\ pending' = Tail(pending)

Flush == pending' = <<>>

Spec == Init /\ [][Log \/ Write \/ Flush]_pending
==============================================================================
