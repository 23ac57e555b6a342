----------------------------- MODULE InfoBudget -----------------------------
(***************************************************************************)
(* The weight budget of the exchange's info requests: one token bucket in  *)
(* Redis that the processes of a host share, a local bucket per process    *)
(* for the time Redis does not answer, and the requests that draw from     *)
(* them.  Background work must leave a reserve in the shared bucket and    *)
(* yields to the copy execution of its own process.                        *)
(*                                                                         *)
(* A bucket is refilled when time passes; the code refills it on access.   *)
(* Requests repeat without bound, so no variable counts them.              *)
(***************************************************************************)
EXTENDS Integers

CONSTANTS
    Processes,
    Executing,      \* callers that ask for copy execution
    Background,     \* callers that ask for anything else
    Home,           \* the process of each caller
    Burst, Rate, Reserve,       \* the shared bucket: size, refill, execution reserve
    LocalBurst, LocalRate,      \* the bucket of a process
    Base, Extra,    \* weight of a request; of the items of its largest response
    RetryAfter      \* how long a process leaves Redis alone after a failure

Callers == Executing \cup Background

ASSUME BudgetAssumption ==
    /\ Executing \cap Background = {} /\ Home \in [Callers -> Processes]
    /\ {Burst, Rate, Reserve, LocalBurst, LocalRate, Base, Extra, RetryAfter} \subseteq Nat
    /\ Reserve + Base + Extra <= Burst
    /\ Base + Extra <= LocalBurst

VARIABLES
    bucket,     \* tokens in Redis
    local,      \* tokens of each process
    silent,     \* how long each process will not try Redis
    caller,     \* where each caller is
    owed        \* ghost: what executions took of the reserve and time did not refill

budgetVars == <<bucket, local, silent, caller, owed>>
----------------------------------------------------------------------------
Lower(a, b) == IF a < b THEN a ELSE b
AtLeastZero(a) == IF a < 0 THEN 0 ELSE a

BudgetTypeOK ==
    /\ bucket \in Int /\ bucket <= Burst
    /\ local \in [Processes -> Int]
    /\ silent \in [Processes -> 0 .. RetryAfter]
    /\ caller \in [Callers -> {"idle", "waiting", "taking", "local", "shared grant", "local grant"}]
    /\ owed \in 0 .. Reserve

BudgetInit ==
    /\ bucket = Burst /\ owed = 0
    /\ local = [p \in Processes |-> LocalBurst]
    /\ silent = [p \in Processes |-> 0]
    /\ caller = [c \in Callers |-> "idle"]

Goes(c, place) == caller' = [caller EXCEPT ![c] = place]

(* What is reserved before a request is sent: a full response.             *)
Reserved == Base + Extra

(* The executions of a process that wait for weight, in all and in its     *)
(* local bucket.                                                           *)
Waiting(p, places) == \E e \in Executing : Home[e] = p /\ caller[e] \in places

(* The Lua script: a take leaves Redis untouched or succeeds whole.        *)
AnyLeft(c) == 0
Floor(c) == IF c \in Executing THEN 0 ELSE Reserve
CanTake(c) == bucket - Reserved >= Floor(c)
Taken(c) ==
    /\ bucket' = bucket - Reserved
    /\ owed' = IF c \in Executing THEN Lower(Reserve, owed + Reserved) ELSE owed
AdjustedUncapped(c, weight) ==
    /\ bucket' = bucket + weight
    /\ owed' = IF c \in Executing THEN Lower(Reserve, AtLeastZero(owed - weight)) ELSE owed
Adjusted(c, weight) ==
    /\ bucket' = Lower(Burst, bucket + weight)
    /\ owed' = IF c \in Executing THEN Lower(Reserve, AtLeastZero(owed - weight)) ELSE owed
----------------------------------------------------------------------------
(* A request, and a retry of one, asks Redis unless that failed lately.    *)
Ask(c) ==
    /\ caller[c] = "idle"
    /\ Goes(c, IF silent[Home[c]] = 0 THEN "waiting" ELSE "local")
    /\ UNCHANGED <<bucket, local, silent, owed>>

(* Background work yields to an execution that waits in its process; the   *)
(* answer of Redis comes later.                                            *)
Yield(c) ==
    /\ caller[c] = "waiting"
    /\ c \in Background => ~Waiting(Home[c], {"waiting", "taking", "local"})
    /\ Goes(c, "taking")
    /\ UNCHANGED <<bucket, local, silent, owed>>

Take(c) ==
    /\ caller[c] = "taking" /\ CanTake(c) /\ Taken(c)
    /\ Goes(c, "shared grant")
    /\ silent' = [silent EXCEPT ![Home[c]] = 0]
    /\ UNCHANGED local

Wait(c) ==
    /\ caller[c] = "taking" /\ ~CanTake(c)
    /\ Goes(c, "waiting")
    /\ UNCHANGED <<bucket, local, silent, owed>>

(* Redis fails, perhaps after its script ran: the process turns to its own *)
(* bucket.                                                                 *)
FallBack(c) ==
    /\ caller[c] = "taking"
    /\ (CanTake(c) /\ Taken(c)) \/ UNCHANGED <<bucket, owed>>
    /\ Goes(c, "local")
    /\ silent' = [silent EXCEPT ![Home[c]] = RetryAfter]
    /\ UNCHANGED local

TakeLocal(c) ==
    LET p == Home[c] IN
    /\ caller[c] = "local" /\ local[p] >= Reserved
    /\ c \in Background => ~Waiting(p, {"local"})
    /\ local' = [local EXCEPT ![p] = @ - Reserved]
    /\ Goes(c, "local grant")
    /\ UNCHANGED <<bucket, silent, owed>>

(* The response, an error, or none: what the reservation did not need goes *)
(* back to where it came from, if Redis answers.                           *)
Settle(c) == \E used \in Base .. Base + Extra :
    LET p == Home[c]  unused == Reserved - used IN
    /\ \/ /\ caller[c] = "shared grant"
          /\ Adjusted(c, unused)
          /\ silent' \in {silent, [silent EXCEPT ![p] = RetryAfter]}
          /\ UNCHANGED local
       \/ /\ caller[c] = "shared grant"
          /\ silent' = [silent EXCEPT ![p] = RetryAfter]
          /\ UNCHANGED <<bucket, local, owed>>
       \/ /\ caller[c] = "local grant"
          /\ local' = [local EXCEPT ![p] = Lower(LocalBurst, @ + unused)]
          /\ UNCHANGED <<bucket, silent, owed>>
    /\ Goes(c, "idle")

Tick ==
    /\ bucket' = Lower(Burst, bucket + Rate)
    /\ owed' = AtLeastZero(owed - Rate)
    /\ local' = [p \in Processes |-> Lower(LocalBurst, local[p] + LocalRate)]
    /\ silent' = [p \in Processes |-> AtLeastZero(silent[p] - 1)]
    /\ UNCHANGED caller

(* Redis keeps nothing on disk: after a restart the bucket is full.        *)
RedisRestarts ==
    /\ bucket' = Burst /\ owed' = 0
    /\ UNCHANGED <<local, silent, caller>>

(* A process dies with its grants and starts again.                        *)
Restart(p) ==
    /\ local' = [local EXCEPT ![p] = LocalBurst]
    /\ silent' = [silent EXCEPT ![p] = 0]
    /\ caller' = [c \in Callers |-> IF Home[c] = p THEN "idle" ELSE caller[c]]
    /\ UNCHANGED <<bucket, owed>>
----------------------------------------------------------------------------
BudgetNext ==
    \/ \E c \in Callers :
          Ask(c) \/ Yield(c) \/ Take(c) \/ Wait(c) \/ FallBack(c) \/ TakeLocal(c) \/ Settle(c)
    \/ \E p \in Processes : Restart(p)
    \/ Tick \/ RedisRestarts

BudgetSpec == BudgetInit /\ [][BudgetNext]_budgetVars
----------------------------------------------------------------------------
(* "A large fill page therefore never leaves the bucket below the          *)
(* execution reserve": whatever processes, lost answers and fall-backs do, *)
(* the reserve is in the shared bucket except for what executions took of  *)
(* it themselves and time has not refilled.                                *)
ReserveKept == bucket + owed >= Reserve
=============================================================================
