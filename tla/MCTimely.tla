------------------------------ MODULE MCTimely ------------------------------
(***************************************************************************)
(* The two kinds of row of job_locks while their delays keep within what   *)
(* the ttls allow: a job lock that three tasks compete for, and the leases *)
(* of a worker of both roles and of one of the second role, two loops      *)
(* each.  In a behaviour one of the two moves, the part named by subject,  *)
(* and the other stays in its initial state.                               *)
(***************************************************************************)
EXTENDS JobLock, WorkerLease, TLC

CONSTANTS w1, w2

VARIABLE subject

Roles == w1 :> <<"trading", "maintenance">> @@ w2 :> <<"maintenance">>

timelyVars == <<subject, vars, leaseVars>>

Symmetry == Permutations(Tasks)

TimelyInit == subject \in {"lock", "lease"} /\ Init /\ LeaseInit

TimelyNext ==
    \/ subject = "lock" /\ Next /\ UNCHANGED <<subject, leaseVars>>
    \/ subject = "lease" /\ LeaseNext /\ UNCHANGED <<subject, vars>>

TimelySpec == TimelyInit /\ [][TimelyNext]_timelyVars
=============================================================================
