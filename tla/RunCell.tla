------------------------------ MODULE RunCell ------------------------------
(***************************************************************************)
(* What the run store promises of one workflow run: a cell with a version  *)
(* and the updates it reflects, changed one update at a time, each from    *)
(* the newest state, until it is removed for good.                         *)
(***************************************************************************)
EXTENDS Naturals

CONSTANTS Updates

VARIABLES cell,     \* [version, updates]
          present

Init == cell = [version |-> 1, updates |-> {}] /\ present = TRUE

Write(u) ==
    /\ present
    /\ u \notin cell.updates
    /\ cell' = [version |-> cell.version + 1, updates |-> cell.updates \cup {u}]
    /\ UNCHANGED present

Remove == present /\ present' = FALSE /\ UNCHANGED cell

Next == Remove \/ \E u \in Updates : Write(u)

Spec == Init /\ [][Next]_<<cell, present>>
=============================================================================
