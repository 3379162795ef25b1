------------------------------ MODULE AttemptLog ------------------------------
(***************************************************************************)
(* What the daemon promises about the tap rate of the attempts that ended: *)
(* they reach SQLite in the order they were played, each one once, and one *)
(* is lost only when Cap newer ones are waiting with it.                   *)
(***************************************************************************)
EXTENDS Naturals, Sequences

CONSTANTS
    Attempts,  \* numbered in the order they are played
    Cap        \* how many may wait

VARIABLES
    kept,     \* ended, in memory
    durable   \* in SQLite

Init == kept = <<>> /\ durable = <<>>

\* The attempt that ends is newer than all the others
End(a) ==
    /\ \A i \in 1..Len(kept) : kept[i] < a
    /\ \A i \in 1..Len(durable) : durable[i] < a
    /\ kept' = IF Len(kept) < Cap THEN Append(kept, a) ELSE Append(Tail(kept), a)
    /\ UNCHANGED durable

\* The oldest n go to SQLite, all of them or none
Save(n) ==
    /\ durable' = durable \o SubSeq(kept, 1, n)
    /\ kept' = SubSeq(kept, n + 1, Len(kept))

Next ==
    \/ \E a \in Attempts : End(a)
    \/ \E n \in 1..Len(kept) : Save(n)

Spec == Init /\ [][Next]_<<kept, durable>>
===============================================================================
