----------------------------- MODULE WorkerLease -----------------------------
(***************************************************************************)
(* The capability leases of the worker processes: every runtime acquires   *)
(* one row of job_locks per capability, renews them with a deadline while  *)
(* its supervised loops run, stops the loops when a renewal fails, drains, *)
(* cancels what is left and releases the rows.                             *)
(*                                                                         *)
(* Time is counted in ticks; leaseAge[c] stands for now() - updated_at,    *)
(* and a row expires when its age reaches LeaseTtl.                        *)
(***************************************************************************)
EXTENDS Naturals, Sequences

CONSTANTS
    Workers,          \* worker processes; a replaced container keeps its name
    Capabilities,
    Wants,            \* the capabilities of each worker's role, in order
    Loops,            \* the supervised loops of a runtime
    NoHolder,         \* there is no row
    Orphaned,         \* the row's owner is gone
    LeaseTtl,         \* worker_capability_lease_ttl_seconds
    RenewalInterval,  \* time between a renewal and the next one
    Timeout,          \* deadline of a renewal call
    Drain,            \* worker_shutdown_drain_seconds
    Startup,          \* the leases of a worker are acquired within this time
    Lag,              \* the reply to a renewal reaches the worker within this time
    Cleanup           \* canceled loops end within this time

ASSUME WorkerLeaseAssumption ==
    /\ NoHolder # Orphaned
    /\ Workers \cap {NoHolder, Orphaned} = {}
    /\ Wants \in [Workers -> Seq(Capabilities)]
    /\ \A w \in Workers :
          /\ Wants[w] # <<>>
          /\ \A i, j \in 1..Len(Wants[w]) : Wants[w][i] = Wants[w][j] => i = j
    /\ LeaseTtl \in Nat \ {0} /\ RenewalInterval \in Nat \ {0} /\ Timeout \in Nat
    /\ Drain \in Nat /\ Startup \in Nat /\ Lag \in Nat /\ Cleanup \in Nat

VARIABLES
    lease,            \* job_locks.owner of each capability's row
    leaseAge,         \* time since its updated_at
    stage,            \* where each worker is in run_monitor_services
    taken,            \* how many of its capabilities it has acquired
    clock,            \* time since the first acquisition, the stop or the cancellation
    renewing,         \* its lease renewal task
    timer,            \* time since that task's last step
    loop              \* the state of its supervised loops

leaseVars == <<lease, leaseAge, stage, taken, clock, renewing, timer, loop>>

WorkerPhases == {"out", "acquire", "run", "drain", "cancel", "release"}
RenewalStates == {"off", "timer", "ask", "reply"}
LoopStates == {"off", "running", "restarting"}

Held(w) == {Wants[w][i] : i \in 1..taken[w]}
Quiet == [l \in Loops |-> "off"]
Working(w) == \E l \in Loops : loop[w][l] = "running"

LeaseInit ==
    /\ lease = [c \in Capabilities |-> NoHolder]
    /\ leaseAge = [c \in Capabilities |-> 0]
    /\ stage = [w \in Workers |-> "out"]
    /\ taken = [w \in Workers |-> 0]
    /\ clock = [w \in Workers |-> 0]
    /\ renewing = [w \in Workers |-> "off"]
    /\ timer = [w \in Workers |-> 0]
    /\ loop = [w \in Workers |-> Quiet]

Goto(w, p) ==
    /\ stage' = [stage EXCEPT ![w] = p]
    /\ clock' = [clock EXCEPT ![w] = 0]
RenewalTo(w, r) ==
    /\ renewing' = [renewing EXCEPT ![w] = r]
    /\ timer' = [timer EXCEPT ![w] = 0]

-----------------------------------------------------------------------------
(* Acquisition: one transaction per capability, all or nothing.            *)

Boot(w) ==
    /\ stage[w] = "out"
    /\ Goto(w, "acquire")
    /\ UNCHANGED <<lease, leaseAge, taken, renewing, timer, loop>>

\* Mutant of Expired: a row may be taken while its owner still renews it.
ExpiredAtHalf(c) == lease[c] = NoHolder \/ leaseAge[c] * 2 >= LeaseTtl

\* Mutant of Expired: only a release frees a capability.
ExpiredOnceFree(c) == lease[c] = NoHolder

Expired(c) == lease[c] = NoHolder \/ leaseAge[c] >= LeaseTtl

AcquireLease(w) ==
    /\ stage[w] = "acquire"
    /\ LET c == Wants[w][taken[w] + 1]
           last == taken[w] + 1 = Len(Wants[w])
       IN /\ Expired(c)
          /\ lease' = [lease EXCEPT ![c] = w]
          /\ leaseAge' = [leaseAge EXCEPT ![c] = 0]
          /\ taken' = [taken EXCEPT ![w] = @ + 1]
          /\ clock' = [clock EXCEPT ![w] = IF taken[w] = 0 THEN 0 ELSE @]
          /\ IF last
             THEN /\ stage' = [stage EXCEPT ![w] = "run"]
                  /\ RenewalTo(w, "timer")
                  /\ loop' = [loop EXCEPT ![w] = [l \in Loops |-> "running"]]
             ELSE UNCHANGED <<stage, renewing, timer, loop>>

\* Somebody else owns the next capability: what was acquired is given back.
Unavailable(w) ==
    /\ stage[w] = "acquire"
    /\ ~Expired(Wants[w][taken[w] + 1])
    /\ Goto(w, "release")
    /\ UNCHANGED <<lease, leaseAge, taken, renewing, timer, loop>>

\* The acquisition is interrupted after its commit: the row stays behind.
AcquireLeaseAbandoned(w) ==
    /\ stage[w] = "acquire"
    /\ LET c == Wants[w][taken[w] + 1]
       IN /\ Expired(c)
          /\ lease' = [lease EXCEPT ![c] = Orphaned]
          /\ leaseAge' = [leaseAge EXCEPT ![c] = 0]
    /\ Goto(w, "release")
    /\ UNCHANGED <<taken, renewing, timer, loop>>

-----------------------------------------------------------------------------
(* Renewal beside the running loops.                                       *)

RenewalDue(w) ==
    /\ renewing[w] = "timer" /\ timer[w] >= RenewalInterval
    /\ RenewalTo(w, "ask")
    /\ UNCHANGED <<lease, leaseAge, stage, taken, clock, loop>>

\* One update renews the rows this worker still owns.
RenewedRows(w) ==
    leaseAge' = [c \in Capabilities |-> IF c \in Held(w) /\ lease[c] = w THEN 0 ELSE leaseAge[c]]

RenewalApplied(w) ==
    /\ renewing[w] = "ask"
    /\ \A c \in Held(w) : lease[c] = w
    /\ RenewedRows(w)
    /\ RenewalTo(w, "reply")
    /\ UNCHANGED <<lease, stage, taken, clock, loop>>

RenewalAnswered(w) ==
    /\ renewing[w] = "reply"
    /\ RenewalTo(w, "timer")
    /\ UNCHANGED <<lease, leaseAge, stage, taken, clock, loop>>

\* Mutant of FailClosed: the loops go on when the lease is lost.
FailOpen(w) ==
    /\ RenewalTo(w, "off")
    /\ UNCHANGED <<stage, clock>>

\* The stop signal is set, then the owner is canceled: it drains, or, if it was
\* draining already, cancels its loops.
FailClosed(w) ==
    /\ RenewalTo(w, "off")
    /\ IF stage[w] \in {"run", "drain"}
       THEN Goto(w, IF stage[w] = "run" THEN "drain" ELSE "cancel")
       ELSE UNCHANGED <<stage, clock>>

\* Fewer rows than leases were renewed.
RenewalLost(w) ==
    /\ renewing[w] = "ask"
    /\ \E c \in Held(w) : lease[c] # w
    /\ RenewedRows(w)
    /\ FailClosed(w)
    /\ UNCHANGED <<lease, taken, loop>>

\* An exception or the deadline, before or after the update took effect.
RenewalFails(w) ==
    /\ renewing[w] \in {"ask", "reply"}
    /\ FailClosed(w)
    /\ UNCHANGED <<lease, leaseAge, taken, loop>>

-----------------------------------------------------------------------------
(* The supervised loops.                                                   *)

SetLoop(w, l, s) == loop' = [loop EXCEPT ![w][l] = s]

LoopFails(w, l) ==
    /\ loop[w][l] = "running"
    /\ SetLoop(w, l, IF stage[w] = "run" THEN "restarting" ELSE "off")
    /\ UNCHANGED <<lease, leaseAge, stage, taken, clock, renewing, timer>>

\* Mutant of LoopRestarts: the supervisor gives a failed loop up.
LoopGivenUp(w, l) ==
    /\ loop[w][l] = "restarting"
    /\ SetLoop(w, l, "off")
    /\ UNCHANGED <<lease, leaseAge, stage, taken, clock, renewing, timer>>

\* After the restart delay, which the stop signal cuts short.
LoopRestarts(w, l) ==
    /\ loop[w][l] = "restarting"
    /\ SetLoop(w, l, IF stage[w] = "run" THEN "running" ELSE "off")
    /\ UNCHANGED <<lease, leaseAge, stage, taken, clock, renewing, timer>>

\* A loop sees the stop signal, or its cancellation, and ends.
LoopEnds(w, l) ==
    /\ stage[w] \in {"drain", "cancel"}
    /\ loop[w][l] # "off"
    /\ SetLoop(w, l, "off")
    /\ UNCHANGED <<lease, leaseAge, stage, taken, clock, renewing, timer>>

-----------------------------------------------------------------------------
(* Shutdown.                                                               *)

StopSignal(w) ==
    /\ stage[w] = "run"
    /\ Goto(w, "drain")
    /\ UNCHANGED <<lease, leaseAge, taken, renewing, timer, loop>>

DrainTimeout(w) ==
    /\ stage[w] = "drain" /\ clock[w] >= Drain
    /\ Goto(w, "cancel")
    /\ UNCHANGED <<lease, leaseAge, taken, renewing, timer, loop>>

\* Mutant of LoopsDone: canceled loops are not awaited.
LoopsCanceled(w) ==
    /\ stage[w] = "cancel" \/ (stage[w] = "drain" /\ loop[w] = Quiet)
    /\ Goto(w, "release")
    /\ RenewalTo(w, "off")
    /\ UNCHANGED <<lease, leaseAge, taken, loop>>

\* All loops have ended: the renewal task is canceled and the leases given up.
LoopsDone(w) ==
    /\ stage[w] \in {"drain", "cancel"}
    /\ loop[w] = Quiet
    /\ Goto(w, "release")
    /\ RenewalTo(w, "off")
    /\ UNCHANGED <<lease, leaseAge, taken, loop>>

\* In reverse order, one transaction each; a failed one leaves its row behind.
ReleaseLeases(w, ok) ==
    /\ stage[w] = "release"
    /\ IF taken[w] = 0
       THEN UNCHANGED <<lease, taken>>
       ELSE LET c == Wants[w][taken[w]] IN
            /\ lease' = [lease EXCEPT ![c] =
                           IF @ # w THEN @ ELSE IF ok THEN NoHolder ELSE Orphaned]
            /\ taken' = [taken EXCEPT ![w] = @ - 1]
    /\ IF taken[w] <= 1 THEN Goto(w, "out") ELSE UNCHANGED <<stage, clock>>
    /\ UNCHANGED <<leaseAge, renewing, timer, loop>>

Crash(w) ==
    /\ stage[w] # "out"
    /\ lease' = [c \in Capabilities |-> IF lease[c] = w THEN Orphaned ELSE lease[c]]
    /\ taken' = [taken EXCEPT ![w] = 0]
    /\ loop' = [loop EXCEPT ![w] = Quiet]
    /\ Goto(w, "out") /\ RenewalTo(w, "off")
    /\ UNCHANGED leaseAge

-----------------------------------------------------------------------------

\* Time passes, but never beyond a timer that is due or a delay that is assumed.
LeaseTick ==
    /\ \A w \in Workers :
          /\ stage[w] = "acquire" /\ taken[w] > 0 => clock[w] < Startup
          /\ stage[w] = "drain" => clock[w] < Drain
          /\ stage[w] = "cancel" => clock[w] < Cleanup
          /\ renewing[w] = "timer" => timer[w] < RenewalInterval
          /\ renewing[w] = "ask" => timer[w] < Timeout
          /\ renewing[w] = "reply" => timer[w] < Lag
    /\ leaseAge' = [c \in Capabilities |-> IF leaseAge[c] < LeaseTtl THEN leaseAge[c] + 1 ELSE leaseAge[c]]
    /\ clock' = [w \in Workers |->
                   IF \/ stage[w] \in {"drain", "cancel"}
                      \/ stage[w] = "acquire" /\ taken[w] > 0
                   THEN clock[w] + 1 ELSE clock[w]]
    /\ timer' = [w \in Workers |->
                   IF renewing[w] # "off" THEN timer[w] + 1 ELSE timer[w]]
    /\ UNCHANGED <<lease, stage, taken, renewing, loop>>

Renewing(w) ==
    \/ RenewalDue(w) \/ RenewalApplied(w) \/ RenewalAnswered(w)
    \/ RenewalLost(w) \/ RenewalFails(w)

Lifecycle(w) ==
    \/ Boot(w) \/ AcquireLease(w) \/ Unavailable(w) \/ AcquireLeaseAbandoned(w)
    \/ StopSignal(w) \/ DrainTimeout(w) \/ LoopsDone(w) \/ Crash(w)
    \/ \E ok \in BOOLEAN : ReleaseLeases(w, ok)

Supervision(w) ==
    \E l \in Loops : LoopFails(w, l) \/ LoopRestarts(w, l) \/ LoopEnds(w, l)

LeaseNext == LeaseTick \/ \E w \in Workers : Renewing(w) \/ Lifecycle(w) \/ Supervision(w)

LeaseSpec == LeaseInit /\ [][LeaseNext]_leaseVars

(* Fairness: the event loop serves its timers, a stop signal or a           *)
(* cancellation ends a loop, a lease is given up after its loops, workers   *)
(* keep trying to start (and not every acquisition is interrupted), and     *)
(* time passes.                                                             *)
LeaseFairness ==
    /\ WF_leaseVars(LeaseTick)
    /\ \A w \in Workers :
          /\ WF_leaseVars(RenewalDue(w)) /\ WF_leaseVars(RenewalAnswered(w) \/ RenewalFails(w))
          /\ WF_leaseVars(RenewalApplied(w) \/ RenewalLost(w) \/ RenewalFails(w))
          /\ WF_leaseVars(DrainTimeout(w)) /\ WF_leaseVars(LoopsDone(w))
          /\ WF_leaseVars(\E ok \in BOOLEAN : ReleaseLeases(w, ok))
          /\ \A l \in Loops : WF_leaseVars(LoopEnds(w, l)) /\ WF_leaseVars(LoopRestarts(w, l))
          /\ WF_leaseVars(Boot(w)) /\ WF_leaseVars(Unavailable(w)) /\ SF_leaseVars(AcquireLease(w))

FairLeaseSpec == LeaseSpec /\ LeaseFairness

-----------------------------------------------------------------------------
(* Properties.                                                             *)

\* The time from the last renewal of a row to the end of the last loop that
\* relies on it, in the worst case, is shorter than the lease.
LeasesTimely ==
    /\ Lag + RenewalInterval + Timeout + Drain + Cleanup < LeaseTtl
    /\ Startup + RenewalInterval + Timeout + Drain + Cleanup < LeaseTtl

\* Rows, phases, clocks and loops always hold values of these shapes.
LeaseTypeOK ==
    /\ lease \in [Capabilities -> Workers \cup {NoHolder, Orphaned}]
    /\ leaseAge \in [Capabilities -> 0..LeaseTtl]
    /\ stage \in [Workers -> WorkerPhases]
    /\ taken \in [Workers -> Nat] /\ \A w \in Workers : taken[w] <= Len(Wants[w])
    /\ clock \in [Workers -> Nat]
    /\ renewing \in [Workers -> RenewalStates]
    /\ timer \in [Workers -> Nat]
    /\ loop \in [Workers -> [Loops -> LoopStates]]

Alive == {"run", "drain", "cancel"}
Fresh == IF Startup < Lag THEN Lag ELSE Startup

\* How old a row may be that a worker relies on, given where the worker is.
Bound(w) ==
    CASE renewing[w] = "timer" -> Fresh + timer[w]
      [] renewing[w] = "ask" -> Fresh + RenewalInterval + timer[w]
      [] renewing[w] = "reply" -> timer[w]
      [] renewing[w] = "off" /\ stage[w] = "acquire" -> clock[w]
      [] renewing[w] = "off" /\ stage[w] = "drain" -> Fresh + RenewalInterval + Timeout + clock[w]
      [] OTHER -> Fresh + RenewalInterval + Timeout + Drain + clock[w]

\* Only a started runtime has loops or renews.
PhaseInv == \A w \in Workers :
    /\ stage[w] \in Alive => taken[w] = Len(Wants[w])
    /\ stage[w] \notin Alive => loop[w] = Quiet /\ renewing[w] = "off"
    /\ stage[w] = "run" => renewing[w] # "off"
    /\ stage[w] = "acquire" => taken[w] < Len(Wants[w])
    /\ stage[w] = "out" => taken[w] = 0

\* No timer has run beyond its end.
ClockInv == \A w \in Workers :
    /\ stage[w] = "acquire" /\ taken[w] > 0 => clock[w] <= Startup
    /\ stage[w] = "drain" => clock[w] <= Drain
    /\ stage[w] = "cancel" => clock[w] <= Cleanup
    /\ renewing[w] = "timer" => timer[w] <= RenewalInterval
    /\ renewing[w] = "ask" => timer[w] <= Timeout
    /\ renewing[w] = "reply" => timer[w] <= Lag

\* What a worker relies on is its own and fresh enough.
LeaseInv == \A w \in Workers : stage[w] \in Alive \cup {"acquire"} =>
    \A c \in Held(w) : lease[c] = w /\ leaseAge[c] <= Bound(w)

\* The inductive invariant: a runtime owns fresh leases until its loops ended.
WorkerInv == LeaseTypeOK /\ PhaseInv /\ ClockInv /\ LeaseInv

\* Two workers never run loops under the same capability.
Exclusive ==
    \A v, w \in Workers : v # w /\ Working(v) /\ Working(w) =>
        \A i \in 1..Len(Wants[v]), j \in 1..Len(Wants[w]) : Wants[v][i] # Wants[w][j]

\* All loops of a worker have ended before it gives a lease back.
LoopsEndFirst ==
    [][\A w \in Workers, c \in Capabilities :
         lease[c] = w /\ lease'[c] = NoHolder => loop[w] = Quiet]_leaseVars

\* A worker that lost a lease stops its loops, at any timing.
LoserStops ==
    \A w \in Workers :
        (Working(w) /\ \E c \in Held(w) : lease[c] # w) ~> loop[w] = Quiet

\* A failed loop runs again unless its worker stops.
FailedLoopRuns ==
    \A w \in Workers, l \in Loops :
        (stage[w] = "run" /\ loop[w][l] # "running") ~>
            (stage[w] # "run" \/ loop[w][l] = "running")

\* The lease of a dead worker passes on, without waiting for a release.
DeadReplaced == \A c \in Capabilities : lease[c] = Orphaned ~> lease[c] # Orphaned
=============================================================================
