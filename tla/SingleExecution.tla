-------------------------- MODULE SingleExecution --------------------------
(***************************************************************************)
(* What the outbox promises of one logical order, whatever happens inside: *)
(* its attempts are made one after the other, under increasing numbers, a  *)
(* new one only after the exchange refused all those before, and at most   *)
(* one of them is ever taken on by the exchange.                           *)
(***************************************************************************)
EXTENDS Naturals

CONSTANTS Orders, MaxAttempts

VARIABLES
    used,       \* the attempts that reached the network
    phase       \* "free", "asked" (one attempt undecided) or "taken"

vars == <<used, phase>>

Init ==
    /\ used = [o \in Orders |-> {}]
    /\ phase = [o \in Orders |-> "free"]

Try(o, n) ==
    /\ phase[o] = "free"
    /\ \A m \in used[o] : m < n
    /\ used' = [used EXCEPT ![o] = @ \cup {n}]
    /\ phase' = [phase EXCEPT ![o] = "asked"]

Refuse(o) ==
    /\ phase[o] = "asked"
    /\ phase' = [phase EXCEPT ![o] = "free"]
    /\ UNCHANGED used

Take(o) ==
    /\ phase[o] = "asked"
    /\ phase' = [phase EXCEPT ![o] = "taken"]
    /\ UNCHANGED used

Next == \E o \in Orders :
    \/ \E n \in 1..MaxAttempts : Try(o, n)
    \/ Refuse(o)
    \/ Take(o)

Spec == Init /\ [][Next]_vars
=============================================================================
