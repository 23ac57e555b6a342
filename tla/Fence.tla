------------------------------- MODULE Fence -------------------------------
(***************************************************************************)
(* What callers of an account lock rely on: one task at a time is inside,  *)
(* and another one enters only after it has left.                          *)
(***************************************************************************)
CONSTANT Tasks

VARIABLE inside     \* the tasks inside the section

Init == inside = {}
Enter(t) == inside = {} /\ inside' = {t}
Exit(t) == inside = {t} /\ inside' = {}
Next == \E t \in Tasks : Enter(t) \/ Exit(t)
Spec == Init /\ [][Next]_inside
=============================================================================
