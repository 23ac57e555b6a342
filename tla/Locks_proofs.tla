---------------------------- MODULE Locks_proofs ----------------------------
(***************************************************************************)
(* A timely renewed lock excludes, for any number of tasks and any delays, *)
(* and is the fence its callers rely on.  And while its delays are timely, *)
(* a worker owns fresh leases until its loops have ended, and no two       *)
(* workers run loops under one capability: for any number of workers,      *)
(* capabilities and loops.                                                 *)
(***************************************************************************)
EXTENDS JobLock, WorkerLease, TLAPS

LEMMA Ages ==
    /\ TakeoverAge \in Nat \ {0} /\ TakeoverAge <= Stale /\ TakeoverAge <= Ttl
    /\ Interval \in Nat /\ AskDelay \in Nat /\ LeaveDelay \in Nat
  BY JobLockAssumption DEF TakeoverAge

\* A row somebody works under is too young to be taken over.
LEMMA NotTakeable ==
    ASSUME Timely, LockInv, NEW t \in Tasks, phase[t] = "body"
    PROVE  ~Takeable
<1>1. /\ owner = t /\ owner # Nobody
      /\ age \in Nat /\ overdue[t] \in 0..LeaveDelay
      /\ age <= Interval + AskDelay \/ age <= Interval + AskDelay + overdue[t]
  BY Ages, JobLockAssumption DEF LockInv, TypeOK, HolderIsFresh, Renewals
<1> QED BY <1>1, Ages DEF Timely, Takeable

\* A step that keeps the row and lets no task further in keeps the invariant.
LEMMA LockTicks ==
    ASSUME LockInv, Tick
    PROVE  LockInv'
<1>1. /\ age \in 0..TakeoverAge /\ age' \in 0..TakeoverAge /\ age' <= age + 1
      /\ UNCHANGED <<owner, phase, renewal, canceled>>
  BY Ages DEF Tick, LockInv, TypeOK
<1>2. ASSUME NEW t \in Tasks
      PROVE  /\ overdue'[t] \in 0..LeaveDelay
             /\ overdue'[t] = IF phase[t] = "body" /\ canceled[t]
                              THEN overdue[t] + 1 ELSE overdue[t]
  BY Ages DEF Tick, LockInv, TypeOK
<1>3. TypeOK'
  <2>1. overdue' \in [Tasks -> 0..LeaveDelay]
    BY <1>2 DEF Tick
  <2> QED BY <1>1, <2>1 DEF LockInv, TypeOK
<1>4. ASSUME NEW t \in Tasks, phase[t] = "body"
      PROVE  /\ owner = t
             /\ renewal[t] # "off" => age' <= Interval + AskDelay
             /\ renewal[t] = "off" =>
                   canceled[t] /\ age' <= Interval + AskDelay + overdue'[t]
  <2>1. /\ owner = t /\ overdue[t] \in Nat /\ age \in Nat /\ age' \in Nat
        /\ renewal[t] = "off" => canceled[t] /\ age <= Interval + AskDelay + overdue[t]
    BY <1>4, <1>1 DEF LockInv, TypeOK, HolderIsFresh
  <2>2. renewal[t] # "off" => age < Interval + AskDelay
    BY <2>1 DEF Tick
  <2>3. renewal[t] = "off" => age' <= Interval + AskDelay + overdue'[t]
    BY <1>1, <1>2, <1>4, <2>1, Ages
  <2> QED BY <1>1, <2>1, <2>2, <2>3, Ages
<1>5. HolderIsFresh'
  BY <1>1, <1>4 DEF LockInv, HolderIsFresh
<1> QED BY <1>3, <1>5 DEF LockInv

\* Acquiring is possible only while nobody is inside.
LEMMA LockAcquired ==
    ASSUME Timely, LockInv, NEW t \in Tasks, Acquire(t) \/ AcquireAbandoned(t)
    PROVE  LockInv' /\ \A u \in Tasks : phase[u] # "body"
<1>1. \A u \in Tasks : phase[u] # "body" /\ renewal[u] = "off"
  BY NotTakeable DEF Acquire, AcquireAbandoned, LockInv, HolderIsFresh
<1>2. TypeOK'
  BY Ages DEF Acquire, AcquireAbandoned, Enter, Renewed, LockInv, TypeOK, Phases, Renewals
<1>3. CASE Acquire(t)
  <2>1. /\ owner' = t /\ age' = 0 /\ renewal'[t] = "timer" /\ phase'[t] = "body"
        /\ \A u \in Tasks : u # t => phase'[u] # "body" /\ renewal'[u] = "off"
    BY <1>1, <1>3 DEF Acquire, Enter, Renewed, LockInv, TypeOK
  <2> QED BY <1>1, <1>2, <2>1, Ages DEF LockInv, HolderIsFresh
<1>4. CASE AcquireAbandoned(t)
  BY <1>1, <1>2, <1>4 DEF AcquireAbandoned, LockInv, HolderIsFresh
<1> QED BY <1>3, <1>4

\* What a task does to itself leaves the others, and their row, alone.
LEMMA LockLeft ==
    ASSUME LockInv, NEW t \in Tasks,
           Leave(t) \/ Unwind(t) \/ Cancel(t) \/ Release(t) \/ Vanish(t)
    PROVE  LockInv'
<1>1. TypeOK'
  <2>1. CASE Leave(t) BY <2>1 DEF Leave, LockInv, TypeOK, Phases, Renewals
  <2>2. CASE Unwind(t) BY <2>2, Ages DEF Unwind, LockInv, TypeOK, Phases
  <2>3. CASE Cancel(t) BY <2>3, Ages DEF Cancel, LockInv, TypeOK
  <2>4. CASE Release(t) \/ Vanish(t)
    <3>1. /\ phase' \in [Tasks -> Phases] /\ renewal' \in [Tasks -> Renewals]
          /\ canceled' \in [Tasks -> BOOLEAN] /\ overdue' \in [Tasks -> 0..LeaveDelay]
      <4>1. Out(t)
        BY <2>4 DEF Release, Vanish
      <4> QED BY <4>1, Ages DEF Out, LockInv, TypeOK, Phases, Renewals
    <3>2. owner' \in Tasks \cup {Nobody, Orphan} /\ age' = age
      BY <2>4 DEF Release, Vanish, LockInv, TypeOK
    <3> QED BY <3>1, <3>2 DEF LockInv, TypeOK
  <2> QED BY <2>1, <2>2, <2>3, <2>4
<1>2. /\ age' = age
      /\ owner' = owner \/ (owner = t /\ phase'[t] # "body")
      /\ phase'[t] = phase[t] \/ phase'[t] # "body"
      /\ renewal'[t] = renewal[t] \/ renewal'[t] = "off"
      /\ phase'[t] = "body" => /\ renewal'[t] = renewal[t]
                               /\ canceled'[t] /\ ~canceled[t]
      /\ phase'[t] # "body" => renewal'[t] = "off"
  <2>1. CASE Leave(t) BY <2>1 DEF Leave, LockInv, TypeOK
  <2>2. CASE Unwind(t) BY <2>2 DEF Unwind, LockInv, TypeOK, HolderIsFresh
  <2>3. CASE Cancel(t) BY <2>3 DEF Cancel, LockInv, TypeOK, HolderIsFresh
  <2>4. CASE Release(t) BY <2>4 DEF Release, Out, LockInv, TypeOK
  <2>5. CASE Vanish(t) BY <2>5 DEF Vanish, Out, LockInv, TypeOK
  <2> QED BY <2>1, <2>2, <2>3, <2>4, <2>5
<1>3. \A u \in Tasks : u # t => /\ phase'[u] = phase[u] /\ renewal'[u] = renewal[u]
                                /\ canceled'[u] = canceled[u] /\ overdue'[u] = overdue[u]
  BY DEF Leave, Unwind, Cancel, Release, Vanish, Out, LockInv, TypeOK
<1>4. HolderIsFresh'
  BY <1>2, <1>3 DEF LockInv, HolderIsFresh
<1> QED BY <1>1, <1>4 DEF LockInv

LEMMA RenewalStep ==
    ASSUME LockInv, NEW t \in Tasks, RenewalLoop(t)
    PROVE  LockInv'
<1>1. TypeOK'
  <2>1. CASE Due(t) BY <2>1 DEF Due, LockInv, TypeOK, Renewals
  <2>2. CASE Renew(t)
    <3>1. CASE owner = t
      BY <2>2, <3>1, Ages DEF Renew, Renewed, LockInv, TypeOK, Renewals
    <3>2. CASE owner # t
      <4>1. CancelOwner(t) /\ UNCHANGED <<owner, age, phase>>
        BY <2>2, <3>2 DEF Renew
      <4>2. /\ renewal' \in [Tasks -> Renewals] /\ canceled' \in [Tasks -> BOOLEAN]
            /\ overdue' \in [Tasks -> 0..LeaveDelay]
        BY <4>1, Ages DEF CancelOwner, LockInv, TypeOK, Renewals
      <4> QED BY <4>1, <4>2 DEF LockInv, TypeOK
    <3> QED BY <3>1, <3>2
  <2>3. CASE RenewFails(t)
    BY <2>3, Ages DEF RenewFails, CancelOwner, LockInv, TypeOK, Renewals
  <2> QED BY <2>1, <2>2, <2>3 DEF RenewalLoop
<1>2. /\ UNCHANGED <<owner, phase>> /\ renewal[t] # "off"
      /\ age' = age \/ (age' = 0 /\ owner = t)
      /\ \A u \in Tasks : u # t => /\ renewal'[u] = renewal[u] /\ canceled'[u] = canceled[u]
                                   /\ overdue'[u] = overdue[u]
  BY DEF RenewalLoop, Due, Renew, RenewFails, CancelOwner, Renewed, LockInv, TypeOK
<1>3. /\ phase[t] = "body" /\ owner = t /\ age <= Interval + AskDelay
      /\ age \in Nat /\ overdue[t] \in Nat
  BY <1>2, Ages DEF LockInv, TypeOK, HolderIsFresh
<1>4. /\ age' <= Interval + AskDelay /\ age' \in Nat /\ overdue'[t] \in Nat
      /\ renewal'[t] = "off" => canceled'[t]
  <2>1. renewal'[t] = "off" => canceled'[t]
    BY DEF RenewalLoop, Due, Renew, RenewFails, CancelOwner, LockInv, TypeOK
  <2> QED BY <1>1, <1>2, <1>3, <2>1, Ages DEF TypeOK
<1>5. HolderIsFresh'
  BY <1>2, <1>3, <1>4, Ages DEF LockInv, HolderIsFresh
<1> QED BY <1>1, <1>5 DEF LockInv

LEMMA LockStarts == ASSUME Init PROVE LockInv /\ Inside = {}
  BY Ages, JobLockAssumption DEF Init, LockInv, TypeOK, HolderIsFresh, Phases, Renewals, Inside

LEMMA LockStep ==
    ASSUME Timely, LockInv, [Next]_vars
    PROVE  LockInv'
<1>1. CASE Tick BY <1>1, LockTicks
<1>2. ASSUME NEW t \in Tasks, Holder(t) PROVE LockInv'
  BY <1>2, LockAcquired, LockLeft DEF Holder
<1>3. ASSUME NEW t \in Tasks, RenewalLoop(t) PROVE LockInv'
  BY <1>3, RenewalStep
<1>4. CASE UNCHANGED vars
  BY <1>4 DEF vars, LockInv, TypeOK, HolderIsFresh
<1> QED BY <1>1, <1>2, <1>3, <1>4 DEF Next

\* Under timely renewal every holder owns a fresh row in every reachable state
\* (job_lock_service: try_acquire_job_lock against renew_job_lock_loop).
THEOREM LockIsFresh == ASSUME Timely PROVE Spec => []LockInv
<1>1. Init => LockInv BY LockStarts
<1>2. LockInv /\ [Next]_vars => LockInv' BY LockStep
<1> QED BY <1>1, <1>2, PTL DEF Spec

\* Under timely renewal no takeover lets a second task in.
THEOREM LockExcludes == ASSUME Timely PROVE Spec => []MutualExclusion
<1>1. LockInv => MutualExclusion BY DEF LockInv, HolderIsFresh, MutualExclusion
<1> QED BY <1>1, LockIsFresh, PTL

\* A step of the lock is a step of the fence, or none.
LEMMA FenceStep ==
    ASSUME Timely, LockInv, [Next]_vars
    PROVE  [F!Next]_Inside
<1>1. CASE Tick \/ UNCHANGED vars
  BY <1>1 DEF Tick, vars, Inside
<1>2. ASSUME NEW t \in Tasks, Acquire(t) PROVE F!Enter(t)
  <2>1. \A u \in Tasks : phase[u] # "body"
    BY <1>2, LockAcquired
  <2>2. phase' = [phase EXCEPT ![t] = "body"] /\ phase \in [Tasks -> Phases]
    BY <1>2 DEF Acquire, Enter, LockInv, TypeOK
  <2> QED BY <2>1, <2>2 DEF F!Enter, Inside
<1>3. ASSUME NEW t \in Tasks, phase[t] = "body", phase'[t] # "body",
             \A u \in Tasks : u # t => phase'[u] = phase[u]
      PROVE  F!Exit(t)
  <2>1. \A u \in Tasks : u # t => phase[u] # "body"
    BY <1>3 DEF LockInv, HolderIsFresh
  <2> QED BY <1>3, <2>1 DEF F!Exit, Inside
<1>4. ASSUME NEW t \in Tasks, Leave(t) \/ Unwind(t) \/ Cancel(t) \/ Release(t) \/ Vanish(t)
      PROVE  F!Exit(t) \/ UNCHANGED Inside
  <2>1. /\ phase'[t] = phase[t] \/ phase'[t] # "body"
        /\ \A u \in Tasks : u # t => phase'[u] = phase[u]
    BY <1>4 DEF Leave, Unwind, Cancel, Release, Vanish, Out, LockInv, TypeOK
  <2>2. CASE phase[t] = "body" /\ phase'[t] # "body"
    BY <1>3, <2>1, <2>2
  <2>3. CASE ~(phase[t] = "body" /\ phase'[t] # "body")
    BY <2>1, <2>3 DEF Inside
  <2> QED BY <2>2, <2>3
<1>5. ASSUME NEW t \in Tasks, AcquireAbandoned(t) \/ RenewalLoop(t) PROVE UNCHANGED Inside
  BY <1>5 DEF AcquireAbandoned, RenewalLoop, Due, Renew, RenewFails, Inside
<1> QED BY <1>1, <1>2, <1>4, <1>5 DEF Next, Holder, F!Next

\* Under timely renewal job_lock implements the fence LiveOrderDispatch assumes.
THEOREM ImplementsFence == ASSUME Timely PROVE Spec => IsFence
<1>1. Init => LockInv /\ F!Init BY LockStarts DEF F!Init
<1>2. LockInv /\ [Next]_vars => LockInv' BY LockStep
<1>3. LockInv /\ [Next]_vars => [F!Next]_Inside BY FenceStep
<1> QED BY <1>1, <1>2, <1>3, PTL DEF Spec, IsFence, F!Spec

\* At any timing a late release frees no successor's row.
THEOREM NoForeignRelease == Spec => FreedByOwner
<1>1. ASSUME [Next]_vars, NEW t \in Tasks, owner = t, owner' = Nobody
      PROVE  phase[t] = "release"
  <2>1. owner' # owner /\ owner' \notin Tasks \cup {Orphan}
    BY <1>1, JobLockAssumption
  <2>2. PICK u \in Tasks : Release(u)
    BY <2>1, <1>1
    DEF Next, Holder, RenewalLoop, Tick, vars, Acquire, AcquireAbandoned, Leave, Unwind, Cancel,
        Vanish, Due, Renew, RenewFails
  <2> QED BY <1>1, <2>1, <2>2 DEF Release
<1>2. [Next]_vars => [\A t \in Tasks : owner = t /\ owner' = Nobody => phase[t] = "release"]_vars
  BY <1>1
<1> QED BY <1>2, PTL DEF Spec, FreedByOwner
----------------------------------------------------------------------------
(* The leases of the workers.                                              *)

Relies(w) == stage[w] \in Alive \cup {"acquire"}
Same(u) ==
    /\ stage'[u] = stage[u] /\ taken'[u] = taken[u] /\ clock'[u] = clock[u]
    /\ renewing'[u] = renewing[u] /\ timer'[u] = timer[u] /\ loop'[u] = loop[u]

LEMMA Delays ==
    /\ LeaseTtl \in Nat \ {0} /\ RenewalInterval \in Nat /\ Timeout \in Nat /\ Drain \in Nat
    /\ Startup \in Nat /\ Lag \in Nat /\ Cleanup \in Nat
    /\ Fresh \in Nat /\ Startup <= Fresh /\ Lag <= Fresh
  BY WorkerLeaseAssumption DEF Fresh

LEMMA Roles ==
    ASSUME NEW w \in Workers
    PROVE  /\ Wants[w] \in Seq(Capabilities) /\ Len(Wants[w]) \in Nat \ {0}
           /\ \A i \in 1..Len(Wants[w]) : Wants[w][i] \in Capabilities
<1>1. Wants[w] \in Seq(Capabilities) /\ Wants[w] # <<>>
  BY WorkerLeaseAssumption
<1>2. Len(Wants[w]) \in Nat /\ \A i \in 1..Len(Wants[w]) : Wants[w][i] \in Capabilities
  BY <1>1
<1>3. Len(Wants[w]) # 0 BY <1>1
<1> QED BY <1>1, <1>2, <1>3

LEMMA HeldKnown ==
    ASSUME LeaseTypeOK, NEW w \in Workers
    PROVE  Held(w) \subseteq Capabilities
<1>1. \A i \in 1..taken[w] : i \in 1..Len(Wants[w]) BY Roles DEF LeaseTypeOK
<1> QED BY <1>1, Roles DEF Held

\* The bound, case by case.
LEMMA Bounds ==
    ASSUME LeaseTypeOK, NEW w \in Workers
    PROVE  /\ renewing[w] = "timer" => Bound(w) = Fresh + timer[w]
           /\ renewing[w] = "ask" => Bound(w) = Fresh + RenewalInterval + timer[w]
           /\ renewing[w] = "reply" => Bound(w) = timer[w]
           /\ renewing[w] = "off" /\ stage[w] = "acquire" => Bound(w) = clock[w]
           /\ renewing[w] = "off" /\ stage[w] = "drain" =>
                Bound(w) = Fresh + RenewalInterval + Timeout + clock[w]
           /\ renewing[w] = "off" /\ stage[w] \notin {"acquire", "drain"} =>
                Bound(w) = Fresh + RenewalInterval + Timeout + Drain + clock[w]
           /\ timer[w] \in Nat /\ clock[w] \in Nat
<1>1. timer[w] \in Nat /\ clock[w] \in Nat BY DEF LeaseTypeOK
<1> QED BY <1>1 DEF Bound

\* A lease that a worker relies on has not expired.
LEMMA BoundShort ==
    ASSUME LeasesTimely, WorkerInv, NEW w \in Workers, Relies(w), taken[w] > 0
    PROVE  Bound(w) \in Nat /\ Bound(w) < LeaseTtl
<1>1. /\ stage[w] = "acquire" => renewing[w] = "off" /\ clock[w] <= Startup
      /\ stage[w] = "run" => renewing[w] # "off"
      /\ renewing[w] \in RenewalStates /\ stage[w] \in {"acquire", "run", "drain", "cancel"}
  BY DEF WorkerInv, PhaseInv, ClockInv, LeaseTypeOK, Relies, Alive
<1>2. /\ stage[w] = "drain" => clock[w] <= Drain
      /\ stage[w] = "cancel" => clock[w] <= Cleanup
      /\ renewing[w] = "timer" => timer[w] <= RenewalInterval
      /\ renewing[w] = "ask" => timer[w] <= Timeout
      /\ renewing[w] = "reply" => timer[w] <= Lag
  BY DEF WorkerInv, ClockInv
<1>3. Fresh + RenewalInterval + Timeout + Drain + Cleanup < LeaseTtl
  BY Delays DEF LeasesTimely, Fresh
<1>4. LeaseTypeOK BY DEF WorkerInv
<1> QED BY <1>1, <1>2, <1>3, <1>4, Bounds, Delays DEF RenewalStates

LEMMA NotExpired ==
    ASSUME LeasesTimely, WorkerInv, NEW w \in Workers, Relies(w), NEW c \in Held(w)
    PROVE  lease[c] = w /\ ~Expired(c)
<1>1. taken[w] > 0 BY DEF Held, WorkerInv, LeaseTypeOK
<1>2. lease[c] = w /\ leaseAge[c] <= Bound(w) BY DEF WorkerInv, LeaseInv, Relies
<1>3. leaseAge[c] \in Nat /\ c \in Capabilities BY HeldKnown, Delays DEF WorkerInv, LeaseTypeOK
<1>4. lease[c] # NoHolder BY <1>2, WorkerLeaseAssumption
<1> QED BY <1>1, <1>2, <1>3, <1>4, BoundShort, Delays DEF Expired

\* What a step must show of the workers for their leases to stay good.
LEMMA LeaseKept ==
    ASSUME WorkerInv, LeaseTypeOK', NEW w \in Workers,
           \A u \in Workers \ {w} : Same(u),
           \A u \in Workers \ {w} : Relies(u) =>
               \A c \in Held(u) : lease'[c] = lease[c] /\ leaseAge'[c] <= leaseAge[c],
           Relies(w)' => \A c \in Held(w)' : lease'[c] = w /\ leaseAge'[c] <= Bound(w)'
    PROVE  LeaseInv'
<1>0. LeaseTypeOK BY DEF WorkerInv
<1>1. SUFFICES ASSUME NEW u \in Workers, Relies(u)', NEW c \in Held(u)'
               PROVE  lease'[c] = u /\ leaseAge'[c] <= Bound(u)'
  BY DEF LeaseInv, Relies
<1>2. CASE u = w BY <1>1, <1>2
<1>3. CASE u # w
  <2>1. Same(u) /\ Held(u)' = Held(u) /\ (Relies(u)' <=> Relies(u))
    BY <1>3 DEF Same, Held, Relies
  <2>2. lease[c] = u /\ leaseAge[c] <= Bound(u) /\ lease'[c] = lease[c] /\ leaseAge'[c] <= leaseAge[c]
    BY <1>1, <1>3, <2>1 DEF WorkerInv, LeaseInv, Relies
  <2>3. Bound(u)' = Bound(u)
    BY <2>1 DEF Bound, Same
  <2>4. c \in Capabilities /\ leaseAge[c] \in Nat /\ leaseAge'[c] \in Nat
    <3>1. c \in Capabilities BY <1>1, <2>1, <1>0, HeldKnown
    <3> QED BY <3>1, <1>0, Delays DEF LeaseTypeOK
  <2>5. Bound(u) \in Nat
    <3>1. renewing[u] \in RenewalStates /\ stage[u] \in WorkerPhases BY <1>0 DEF LeaseTypeOK
    <3> QED BY <3>1, <1>0, Bounds, Delays DEF RenewalStates, WorkerPhases
  <2> QED BY <2>2, <2>3, <2>4, <2>5
<1> QED BY <1>2, <1>3

LEMMA RowsOld ==
    ASSUME WorkerInv
    PROVE  \A u \in Workers : \A c \in Held(u) : leaseAge[c] \in Nat /\ leaseAge[c] <= leaseAge[c]
  BY HeldKnown, Delays DEF WorkerInv, LeaseTypeOK

\* A step that writes no row, and after which nobody relies on more.
LEMMA RowsKept ==
    ASSUME WorkerInv, LeaseTypeOK', NEW w \in Workers, UNCHANGED <<lease, leaseAge>>,
           \A u \in Workers \ {w} : Same(u),
           Relies(w)' => Relies(w) /\ taken'[w] = taken[w] /\ Bound(w) <= Bound(w)'
    PROVE  LeaseInv'
<1>0. LeaseTypeOK BY DEF WorkerInv
<1>1. ASSUME Relies(w)', NEW c \in Held(w)' PROVE lease'[c] = w /\ leaseAge'[c] <= Bound(w)'
  <2>1. Held(w)' = Held(w) /\ Relies(w) BY <1>1 DEF Held
  <2>2. lease[c] = w /\ leaseAge[c] <= Bound(w) BY <1>1, <2>1 DEF WorkerInv, LeaseInv, Relies
  <2>3. leaseAge[c] \in Nat BY <1>1, <2>1, RowsOld
  <2>4. /\ renewing[w] \in RenewalStates /\ stage[w] \in WorkerPhases
        /\ renewing'[w] \in RenewalStates /\ stage'[w] \in WorkerPhases
        /\ timer'[w] \in Nat /\ clock'[w] \in Nat
    BY <1>0 DEF LeaseTypeOK
  <2>5. Bound(w) \in Nat BY <2>4, <1>0, Bounds, Delays DEF RenewalStates, WorkerPhases
  <2>6. Bound(w)' \in Nat
    BY <2>4, Delays DEF Bound, Fresh, RenewalStates, WorkerPhases
  <2> QED BY <1>1, <2>2, <2>3, <2>5, <2>6
<1> QED BY <1>1, LeaseKept, RowsOld

\* One lemma per group of actions; WorkerInv is kept by each.
LEMMA BootStep ==
    ASSUME WorkerInv, NEW w \in Workers, Boot(w)
    PROVE  WorkerInv'
<1>1. LeaseTypeOK' BY DEF Boot, Goto, WorkerInv, LeaseTypeOK, WorkerPhases
<1>2. PhaseInv'
  BY Roles DEF Boot, Goto, WorkerInv, LeaseTypeOK, PhaseInv, Alive
<1>3. ClockInv' BY Delays DEF Boot, Goto, WorkerInv, LeaseTypeOK, ClockInv, PhaseInv
<1>4. \A u \in Workers \ {w} : Same(u)
  BY DEF Boot, Goto, Same, WorkerInv, LeaseTypeOK
<1>5. Held(w)' = {} BY DEF Boot, Held, WorkerInv, PhaseInv, LeaseTypeOK
<1>6. LeaseInv' BY <1>1, <1>4, <1>5, LeaseKept, RowsOld DEF Boot
<1> QED BY <1>1, <1>2, <1>3, <1>6 DEF WorkerInv

LEMMA AcquireStep ==
    ASSUME LeasesTimely, WorkerInv, NEW w \in Workers, AcquireLease(w)
    PROVE  WorkerInv'
<1> DEFINE c == Wants[w][taken[w] + 1]
<1>0. LeaseTypeOK BY DEF WorkerInv
<1>1. /\ stage[w] = "acquire" /\ renewing[w] = "off" /\ loop[w] = Quiet
      /\ taken[w] \in Nat /\ taken[w] < Len(Wants[w]) /\ clock[w] \in Nat
      /\ taken[w] > 0 => clock[w] <= Startup
  BY DEF AcquireLease, WorkerInv, LeaseTypeOK, PhaseInv, ClockInv, Alive
<1>2. /\ c \in Capabilities /\ Expired(c)
      /\ lease' = [lease EXCEPT ![c] = w] /\ leaseAge' = [leaseAge EXCEPT ![c] = 0]
      /\ taken' = [taken EXCEPT ![w] = taken[w] + 1]
      /\ clock' = [clock EXCEPT ![w] = IF taken[w] = 0 THEN 0 ELSE clock[w]]
  <2>1. taken[w] + 1 \in 1..Len(Wants[w]) BY <1>1, Roles
  <2> QED BY <2>1, Roles DEF AcquireLease
<1>3. \/ /\ taken[w] + 1 = Len(Wants[w])
         /\ stage' = [stage EXCEPT ![w] = "run"]
         /\ renewing' = [renewing EXCEPT ![w] = "timer"]
         /\ timer' = [timer EXCEPT ![w] = 0]
         /\ loop' = [loop EXCEPT ![w] = [l \in Loops |-> "running"]]
      \/ taken[w] + 1 < Len(Wants[w]) /\ UNCHANGED <<stage, renewing, timer, loop>>
  BY <1>1, Roles DEF AcquireLease, RenewalTo
<1>4. LeaseTypeOK'
  <2>1. /\ lease' \in [Capabilities -> Workers \cup {NoHolder, Orphaned}]
        /\ leaseAge' \in [Capabilities -> 0..LeaseTtl]
        /\ taken' \in [Workers -> Nat] /\ \A u \in Workers : taken'[u] <= Len(Wants[u])
        /\ clock' \in [Workers -> Nat]
    BY <1>0, <1>1, <1>2, Delays, Roles DEF LeaseTypeOK
  <2>2. /\ stage' \in [Workers -> WorkerPhases] /\ renewing' \in [Workers -> RenewalStates]
        /\ timer' \in [Workers -> Nat]
    <3>1. stage \in [Workers -> WorkerPhases] /\ renewing \in [Workers -> RenewalStates]
          /\ timer \in [Workers -> Nat]
      BY <1>0 DEF LeaseTypeOK
    <3>2. CASE UNCHANGED <<stage, renewing, timer, loop>> BY <3>1, <3>2
    <3>3. CASE /\ stage' = [stage EXCEPT ![w] = "run"]
               /\ renewing' = [renewing EXCEPT ![w] = "timer"]
               /\ timer' = [timer EXCEPT ![w] = 0]
      BY <3>1, <3>3 DEF WorkerPhases, RenewalStates
    <3> QED BY <1>3, <3>2, <3>3
  <2>3. loop' \in [Workers -> [Loops -> LoopStates]]
    <3>1. [l \in Loops |-> "running"] \in [Loops -> LoopStates] BY DEF LoopStates
    <3> QED BY <1>0, <1>3, <3>1 DEF LeaseTypeOK
  <2> QED BY <2>1, <2>2, <2>3 DEF LeaseTypeOK
<1>5. \A u \in Workers \ {w} : Same(u)
  BY <1>0, <1>2, <1>3 DEF Same, LeaseTypeOK
<1>6. /\ taken'[w] = taken[w] + 1 /\ clock'[w] = IF taken[w] = 0 THEN 0 ELSE clock[w]
      /\ \/ /\ taken'[w] = Len(Wants[w]) /\ stage'[w] = "run" /\ renewing'[w] = "timer"
            /\ timer'[w] = 0
         \/ /\ taken'[w] < Len(Wants[w]) /\ stage'[w] = "acquire" /\ renewing'[w] = "off"
            /\ loop'[w] = Quiet
  BY <1>0, <1>1, <1>2, <1>3 DEF LeaseTypeOK
<1>7. PhaseInv'
  BY <1>5, <1>6, Roles DEF Same, WorkerInv, PhaseInv, Alive
<1>8. ClockInv'
  BY <1>1, <1>5, <1>6, Delays DEF Same, WorkerInv, ClockInv
<1>9. LeaseInv'
  <2>1. ASSUME NEW u \in Workers \ {w}, Relies(u), NEW d \in Held(u)
        PROVE  lease'[d] = lease[d] /\ leaseAge'[d] <= leaseAge[d]
    <3>1. d # c BY <1>2, <2>1, NotExpired
    <3>2. d \in Capabilities /\ leaseAge[d] \in Nat /\ leaseAge[d] <= leaseAge[d]
      BY <1>0, <2>1, HeldKnown, RowsOld
    <3> QED BY <1>0, <1>2, <3>1, <3>2 DEF LeaseTypeOK
  <2>2. ASSUME NEW d \in Held(w)' PROVE lease'[d] = w /\ leaseAge'[d] <= Bound(w)'
    <3>1. Bound(w)' = IF stage'[w] = "run" THEN Fresh ELSE clock'[w]
      BY <1>6, Delays DEF Bound, Fresh
    <3>2. CASE d = c
      <4>1. lease'[d] = w /\ leaseAge'[d] = 0 BY <1>0, <1>2, <3>2 DEF LeaseTypeOK
      <4> QED BY <3>1, <4>1, <1>1, <1>6, Delays
    <3>3. CASE d # c
      <4>1. d \in Held(w) /\ taken[w] > 0
        BY <2>2, <3>3, <1>1, <1>6 DEF Held
      <4>2. lease[d] = w /\ leaseAge[d] <= clock[w] /\ leaseAge[d] \in Nat /\ d \in Capabilities
        BY <1>0, <1>1, <4>1, Bounds, RowsOld, HeldKnown DEF WorkerInv, LeaseInv
      <4>3. lease'[d] = w /\ leaseAge'[d] = leaseAge[d] BY <1>0, <1>2, <3>3, <4>2 DEF LeaseTypeOK
      <4> QED BY <1>1, <1>6, <3>1, <4>1, <4>2, <4>3, Delays
    <3> QED BY <3>2, <3>3
  <2> QED BY <1>4, <1>5, <2>1, <2>2, LeaseKept
<1> QED BY <1>4, <1>7, <1>8, <1>9 DEF WorkerInv

LEMMA GiveUpStep ==
    ASSUME LeasesTimely, WorkerInv, NEW w \in Workers, Unavailable(w) \/ AcquireLeaseAbandoned(w)
    PROVE  WorkerInv'
<1> DEFINE c == Wants[w][taken[w] + 1]
<1>0. LeaseTypeOK BY DEF WorkerInv
<1>1. /\ stage[w] = "acquire" /\ loop[w] = Quiet /\ renewing[w] = "off"
      /\ stage' = [stage EXCEPT ![w] = "release"] /\ clock' = [clock EXCEPT ![w] = 0]
      /\ UNCHANGED <<taken, renewing, timer, loop>> /\ taken[w] < Len(Wants[w])
      /\ taken[w] \in Nat
  BY DEF Unavailable, AcquireLeaseAbandoned, Goto, WorkerInv, PhaseInv, Alive, LeaseTypeOK
<1>2. \/ UNCHANGED <<lease, leaseAge>>
      \/ /\ c \in Capabilities /\ Expired(c)
         /\ lease' = [lease EXCEPT ![c] = Orphaned] /\ leaseAge' = [leaseAge EXCEPT ![c] = 0]
  <2>1. taken[w] + 1 \in 1..Len(Wants[w])
    BY <1>1, Roles
  <2> QED BY <2>1, Roles DEF Unavailable, AcquireLeaseAbandoned
<1>3. LeaseTypeOK'
  <2>1. /\ lease' \in [Capabilities -> Workers \cup {NoHolder, Orphaned}]
        /\ leaseAge' \in [Capabilities -> 0..LeaseTtl]
    <3>1. CASE UNCHANGED <<lease, leaseAge>> BY <1>0, <3>1 DEF LeaseTypeOK
    <3>2. CASE lease' = [lease EXCEPT ![c] = Orphaned] /\ leaseAge' = [leaseAge EXCEPT ![c] = 0]
      <4>1. lease' \in [Capabilities -> Workers \cup {NoHolder, Orphaned}]
        <5>1. lease \in [Capabilities -> Workers \cup {NoHolder, Orphaned}] BY <1>0 DEF LeaseTypeOK
        <5> QED BY <3>2, <5>1
      <4>2. leaseAge' \in [Capabilities -> 0..LeaseTtl]
        <5>1. leaseAge \in [Capabilities -> 0..LeaseTtl] BY <1>0 DEF LeaseTypeOK
        <5>2. 0 \in 0..LeaseTtl BY Delays
        <5> QED BY <3>2, <5>1, <5>2
      <4> QED BY <4>1, <4>2
    <3> QED BY <1>2, <3>1, <3>2
  <2>2. stage' \in [Workers -> WorkerPhases] /\ clock' \in [Workers -> Nat]
    BY <1>0, <1>1 DEF LeaseTypeOK, WorkerPhases
  <2> QED BY <1>0, <1>1, <2>1, <2>2 DEF LeaseTypeOK
<1>4. \A u \in Workers \ {w} : Same(u) BY <1>0, <1>1 DEF Same, LeaseTypeOK
<1>5. stage'[w] = "release" BY <1>0, <1>1 DEF LeaseTypeOK
<1>6. PhaseInv' /\ ClockInv'
  <2>1. PhaseInv' BY <1>1, <1>4, <1>5 DEF Same, WorkerInv, PhaseInv, Alive
  <2>2. ClockInv' BY <1>1, <1>4, <1>5 DEF Same, WorkerInv, ClockInv
  <2> QED BY <2>1, <2>2
<1>7. ASSUME NEW u \in Workers \ {w}, Relies(u), NEW d \in Held(u)
      PROVE  lease'[d] = lease[d] /\ leaseAge'[d] <= leaseAge[d]
  <2>1. d \in Capabilities /\ leaseAge[d] \in Nat /\ leaseAge[d] <= leaseAge[d] /\ ~Expired(d)
    BY <1>0, <1>7, HeldKnown, RowsOld, NotExpired
  <2> QED BY <1>0, <1>2, <2>1 DEF LeaseTypeOK
<1>8. LeaseInv' BY <1>3, <1>4, <1>5, <1>7, LeaseKept DEF Relies, Alive
<1> QED BY <1>3, <1>6, <1>8 DEF WorkerInv
LEMMA RenewStep ==
    ASSUME LeasesTimely, WorkerInv, NEW w \in Workers, Renewing(w)
    PROVE  WorkerInv'
<1>0. LeaseTypeOK BY DEF WorkerInv
<1>1. /\ renewing[w] # "off" /\ stage[w] \in Alive /\ taken[w] > 0
      /\ UNCHANGED <<lease, taken, loop>>
  BY SMTT(20), Roles DEF Renewing, RenewalDue, RenewalApplied, RenewalAnswered, RenewalLost,
       RenewalFails, WorkerInv, PhaseInv, LeaseTypeOK
<1>2. \A c \in Held(w) : lease[c] = w BY <1>1, NotExpired DEF Relies
<1>3. CASE RenewalDue(w) \/ RenewalAnswered(w)
  <2>1. PICK r \in {"ask", "timer"} :
          /\ renewing' = [renewing EXCEPT ![w] = r] /\ timer' = [timer EXCEPT ![w] = 0]
          /\ UNCHANGED <<lease, leaseAge, stage, taken, clock, loop>>
          /\ renewing[w] = IF r = "ask" THEN "timer" ELSE "reply"
    BY <1>3 DEF RenewalDue, RenewalAnswered, RenewalTo
  <2>2. LeaseTypeOK' BY <1>0, <2>1 DEF LeaseTypeOK, RenewalStates
  <2>3. /\ renewing'[w] = r /\ timer'[w] = 0
        /\ \A u \in Workers \ {w} : Same(u)
    BY <1>0, <2>1 DEF LeaseTypeOK, Same
  <2>4. PhaseInv' BY <1>1, <2>1, <2>3 DEF Same, WorkerInv, PhaseInv
  <2>5. ClockInv' BY <2>1, <2>3, Delays DEF Same, WorkerInv, ClockInv
  <2>6. Bound(w) <= Bound(w)'
    <3>1. Bound(w)' = IF r = "ask" THEN Fresh + RenewalInterval ELSE Fresh
      BY <2>3, Delays DEF Bound, Fresh
    <3>2. /\ r = "ask" => timer[w] <= RenewalInterval
          /\ r = "timer" => timer[w] <= Lag
      BY <2>1 DEF WorkerInv, ClockInv
    <3> QED BY <1>0, <2>1, <3>1, <3>2, Bounds, Delays
  <2>7. LeaseInv' BY <1>1, <2>1, <2>2, <2>3, <2>6, RowsKept DEF Relies
  <2> QED BY <2>2, <2>4, <2>5, <2>7 DEF WorkerInv
<1>4. CASE RenewalApplied(w)
  <2>1. /\ renewing' = [renewing EXCEPT ![w] = "reply"] /\ timer' = [timer EXCEPT ![w] = 0]
        /\ UNCHANGED <<lease, stage, taken, clock, loop>>
        /\ leaseAge' = [c \in Capabilities |->
                      IF c \in Held(w) /\ lease[c] = w THEN 0 ELSE leaseAge[c]]
    BY <1>4 DEF RenewalApplied, RenewalTo, RenewedRows
  <2>2. LeaseTypeOK'
    <3>1. leaseAge' \in [Capabilities -> 0..LeaseTtl] BY <1>0, <2>1, Delays DEF LeaseTypeOK
    <3> QED BY <1>0, <2>1, <3>1 DEF LeaseTypeOK, RenewalStates
  <2>3. /\ renewing'[w] = "reply" /\ timer'[w] = 0
        /\ \A u \in Workers \ {w} : Same(u)
    BY <1>0, <2>1 DEF LeaseTypeOK, Same
  <2>4. PhaseInv' BY <1>1, <2>1, <2>3 DEF Same, WorkerInv, PhaseInv
  <2>5. ClockInv' BY <2>1, <2>3, Delays DEF Same, WorkerInv, ClockInv
  <2>6. \A c \in Capabilities : leaseAge'[c] <= leaseAge[c] /\ leaseAge[c] \in Nat
    BY <1>0, <2>1, Delays DEF LeaseTypeOK
  <2>7. \A u \in Workers : Held(u) \subseteq Capabilities BY <1>0, HeldKnown
  <2>8. ASSUME NEW c \in Held(w)' PROVE lease'[c] = w /\ leaseAge'[c] <= Bound(w)'
    <3>1. Bound(w)' = 0 BY <2>3 DEF Bound
    <3>2. c \in Held(w) BY <2>1 DEF Held
    <3> QED BY <1>2, <2>1, <2>7, <3>1, <3>2
  <2>9. LeaseInv' BY <2>1, <2>2, <2>3, <2>6, <2>7, <2>8, LeaseKept
  <2> QED BY <2>2, <2>4, <2>5, <2>9 DEF WorkerInv
<1>5. CASE RenewalFails(w)
  <2>1. /\ renewing[w] \in {"ask", "reply"} /\ renewing' = [renewing EXCEPT ![w] = "off"]
        /\ timer' = [timer EXCEPT ![w] = 0] /\ UNCHANGED <<lease, leaseAge, taken, loop>>
    BY <1>5 DEF RenewalFails, FailClosed, RenewalTo
  <2>2. \/ stage[w] = "cancel" /\ UNCHANGED <<stage, clock>>
        \/ /\ stage[w] \in {"run", "drain"} /\ clock' = [clock EXCEPT ![w] = 0]
           /\ stage' = [stage EXCEPT ![w] = IF stage[w] = "run" THEN "drain" ELSE "cancel"]
    BY <1>1, <1>5 DEF RenewalFails, FailClosed, Goto, Alive
  <2>3. LeaseTypeOK'
    <3>1. CASE UNCHANGED <<stage, clock>> BY <1>0, <2>1, <3>1 DEF LeaseTypeOK, RenewalStates
    <3>2. CASE /\ clock' = [clock EXCEPT ![w] = 0]
               /\ stage' = [stage EXCEPT ![w] = IF stage[w] = "run" THEN "drain" ELSE "cancel"]
      BY <1>0, <2>1, <3>2 DEF LeaseTypeOK, RenewalStates, WorkerPhases
    <3> QED BY <2>2, <3>1, <3>2
  <2>4. /\ renewing'[w] = "off" /\ timer'[w] = 0
        /\ \/ stage[w] = "cancel" /\ stage'[w] = "cancel" /\ clock'[w] = clock[w]
           \/ stage[w] = "run" /\ stage'[w] = "drain" /\ clock'[w] = 0
           \/ stage[w] = "drain" /\ stage'[w] = "cancel" /\ clock'[w] = 0
    BY <1>0, <2>1, <2>2 DEF LeaseTypeOK
  <2>5. \A u \in Workers \ {w} : Same(u) BY <1>0, <2>1, <2>2 DEF LeaseTypeOK, Same
  <2>6. PhaseInv' BY <1>1, <2>1, <2>4, <2>5 DEF Same, WorkerInv, PhaseInv, Alive
  <2>7. ClockInv' BY <2>1, <2>4, <2>5, Delays DEF Same, WorkerInv, ClockInv
  <2>8. Bound(w) <= Bound(w)'
    <3>1. Bound(w)' = Fresh + RenewalInterval + Timeout + clock'[w]
                        + IF stage'[w] = "drain" THEN 0 ELSE Drain
      BY <1>0, <2>4, Delays DEF Bound, Fresh, LeaseTypeOK
    <3>2. /\ renewing[w] = "ask" => timer[w] <= Timeout
          /\ renewing[w] = "reply" => timer[w] <= Lag
      BY DEF WorkerInv, ClockInv
    <3> QED BY <1>0, <2>1, <2>4, <3>1, <3>2, Bounds, Delays
  <2>9. LeaseInv' BY <1>1, <2>1, <2>3, <2>5, <2>8, RowsKept DEF Relies
  <2> QED BY <2>3, <2>6, <2>7, <2>9 DEF WorkerInv
<1>6. ~RenewalLost(w) BY <1>2 DEF RenewalLost
<1> QED BY <1>3, <1>4, <1>5, <1>6 DEF Renewing
LEMMA LoopStep ==
    ASSUME WorkerInv, NEW w \in Workers, Supervision(w)
    PROVE  WorkerInv'
<1>0. LeaseTypeOK BY DEF WorkerInv
<1>1. PICK l \in Loops, s \in LoopStates :
        /\ stage[w] \in Alive
        /\ loop' = [loop EXCEPT ![w][l] = s]
        /\ UNCHANGED <<lease, leaseAge, stage, taken, clock, renewing, timer>>
  <2>1. PICK l \in Loops : LoopFails(w, l) \/ LoopRestarts(w, l) \/ LoopEnds(w, l)
    BY DEF Supervision
  <2>2. /\ loop[w][l] # "off"
        /\ \E s \in LoopStates : loop' = [loop EXCEPT ![w][l] = s]
        /\ UNCHANGED <<lease, leaseAge, stage, taken, clock, renewing, timer>>
    BY <2>1 DEF LoopFails, LoopRestarts, LoopEnds, SetLoop, LoopStates
  <2>3. stage[w] \in Alive BY <2>2 DEF WorkerInv, PhaseInv, Quiet
  <2> QED BY <2>2, <2>3
<1>2. LeaseTypeOK' BY <1>0, <1>1 DEF LeaseTypeOK
<1>3. \A u \in Workers \ {w} : Same(u) BY <1>0, <1>1 DEF LeaseTypeOK, Same
<1>4. PhaseInv' BY <1>1, <1>3 DEF Same, WorkerInv, PhaseInv
<1>5. ClockInv' BY <1>1 DEF WorkerInv, ClockInv
<1>6. Bound(w)' = Bound(w) BY <1>1 DEF Bound
<1>7. Bound(w) \in Nat
  <2>1. renewing[w] \in RenewalStates /\ stage[w] \in WorkerPhases BY <1>0 DEF LeaseTypeOK
  <2> QED BY <2>1, <1>0, Bounds, Delays DEF RenewalStates, WorkerPhases
<1>8. LeaseInv' BY <1>1, <1>2, <1>3, <1>6, <1>7, RowsKept DEF Relies
<1> QED BY <1>2, <1>4, <1>5, <1>8 DEF WorkerInv

LEMMA StopStep ==
    ASSUME WorkerInv, NEW w \in Workers, StopSignal(w) \/ DrainTimeout(w)
    PROVE  WorkerInv'
<1>0. LeaseTypeOK BY DEF WorkerInv
<1>1. PICK p \in {"drain", "cancel"} :
        /\ stage[w] = IF p = "drain" THEN "run" ELSE "drain"
        /\ stage' = [stage EXCEPT ![w] = p] /\ clock' = [clock EXCEPT ![w] = 0]
        /\ UNCHANGED <<lease, leaseAge, taken, renewing, timer, loop>>
  BY DEF StopSignal, DrainTimeout, Goto
<1>2. LeaseTypeOK' BY <1>0, <1>1 DEF LeaseTypeOK, WorkerPhases
<1>3. /\ stage'[w] = p /\ clock'[w] = 0
      /\ \A u \in Workers \ {w} : Same(u)
  BY <1>0, <1>1 DEF LeaseTypeOK, Same
<1>4. PhaseInv' BY <1>1, <1>3 DEF Same, WorkerInv, PhaseInv, Alive
<1>5. ClockInv' BY <1>1, <1>3, Delays DEF Same, WorkerInv, ClockInv
<1>6. Bound(w) <= Bound(w)'
  <2>1. CASE renewing[w] = "off"
    <3>1. stage[w] = "drain" /\ p = "cancel" /\ clock[w] <= Drain
      BY <1>1, <2>1 DEF WorkerInv, PhaseInv, ClockInv
    <3>2. Bound(w)' = Fresh + RenewalInterval + Timeout + Drain
      BY <1>1, <1>3, <2>1, <3>1, Delays DEF Bound, Fresh
    <3> QED BY <1>0, <2>1, <3>1, <3>2, Bounds, Delays
  <2>2. CASE renewing[w] # "off"
    <3>1. renewing[w] \in {"timer", "ask", "reply"} /\ timer[w] \in Nat
      BY <1>0, <2>2 DEF LeaseTypeOK, RenewalStates
    <3>2. Bound(w)' = Bound(w) BY <1>1, <3>1 DEF Bound
    <3>3. Bound(w) \in Nat BY <1>0, <3>1, Bounds, Delays
    <3> QED BY <3>2, <3>3
  <2> QED BY <2>1, <2>2
<1>7. LeaseInv' BY <1>1, <1>2, <1>3, <1>6, RowsKept DEF Relies, Alive
<1> QED BY <1>2, <1>4, <1>5, <1>7 DEF WorkerInv

LEMMA DoneStep ==
    ASSUME WorkerInv, NEW w \in Workers, LoopsDone(w)
    PROVE  WorkerInv'
<1>0. LeaseTypeOK BY DEF WorkerInv
<1>1. /\ stage[w] \in {"drain", "cancel"} /\ loop[w] = Quiet
      /\ stage' = [stage EXCEPT ![w] = "release"] /\ clock' = [clock EXCEPT ![w] = 0]
      /\ renewing' = [renewing EXCEPT ![w] = "off"] /\ timer' = [timer EXCEPT ![w] = 0]
      /\ UNCHANGED <<lease, leaseAge, taken, loop>>
  BY DEF LoopsDone, Goto, RenewalTo
<1>2. LeaseTypeOK' BY <1>0, <1>1 DEF LeaseTypeOK, WorkerPhases, RenewalStates
<1>3. /\ stage'[w] = "release" /\ renewing'[w] = "off"
      /\ \A u \in Workers \ {w} : Same(u)
  BY <1>0, <1>1 DEF LeaseTypeOK, Same
<1>4. PhaseInv' BY <1>1, <1>3 DEF Same, WorkerInv, PhaseInv, Alive
<1>5. ClockInv' BY <1>1, <1>3 DEF Same, WorkerInv, ClockInv
<1>6. LeaseInv' BY <1>1, <1>2, <1>3, RowsKept DEF Relies, Alive
<1> QED BY <1>2, <1>4, <1>5, <1>6 DEF WorkerInv

\* What a worker that leaves does to the rows and to the others.
Left(w) ==
    /\ stage'[w] \in {"release", "out"} /\ renewing'[w] = "off" /\ loop'[w] = Quiet
    /\ stage'[w] = "out" => taken'[w] = 0
    /\ \A u \in Workers \ {w} : Same(u)
    /\ leaseAge' = leaseAge
    /\ \A c \in Capabilities : lease[c] # w => lease'[c] = lease[c]
    /\ LeaseTypeOK'

\* A row that is given back, or that a crash leaves behind, was the worker's own.
LEMMA LeaveStep ==
    ASSUME WorkerInv, NEW w \in Workers, Crash(w) \/ \E ok \in BOOLEAN : ReleaseLeases(w, ok)
    PROVE  WorkerInv'
<1>0. LeaseTypeOK BY DEF WorkerInv
<1>1. Left(w)
  <2>1. CASE Crash(w)
    <3>1. /\ lease' = [c \in Capabilities |-> IF lease[c] = w THEN Orphaned ELSE lease[c]]
          /\ stage' = [stage EXCEPT ![w] = "out"] /\ clock' = [clock EXCEPT ![w] = 0]
          /\ renewing' = [renewing EXCEPT ![w] = "off"] /\ timer' = [timer EXCEPT ![w] = 0]
          /\ taken' = [taken EXCEPT ![w] = 0] /\ loop' = [loop EXCEPT ![w] = Quiet]
          /\ leaseAge' = leaseAge
      BY <2>1 DEF Crash, Goto, RenewalTo
    <3>2. Quiet \in [Loops -> LoopStates] BY DEF Quiet, LoopStates
    <3>3. lease' \in [Capabilities -> Workers \cup {NoHolder, Orphaned}]
      BY <1>0, <3>1 DEF LeaseTypeOK
    <3>4. taken' \in [Workers -> Nat] /\ \A u \in Workers : taken'[u] <= Len(Wants[u])
      BY <1>0, <3>1, Roles DEF LeaseTypeOK
    <3>5. LeaseTypeOK' BY <1>0, <3>1, <3>2, <3>3, <3>4 DEF LeaseTypeOK, WorkerPhases, RenewalStates
    <3> QED BY <1>0, <3>1, <3>5 DEF LeaseTypeOK, Same, Left
  <2>2. ASSUME NEW ok \in BOOLEAN, ReleaseLeases(w, ok)
        PROVE  Left(w)
    <3>1. /\ stage[w] = "release" /\ UNCHANGED <<leaseAge, renewing, timer, loop>>
          /\ renewing[w] = "off" /\ loop[w] = Quiet /\ taken[w] \in Nat
      BY <1>0, <2>2 DEF ReleaseLeases, WorkerInv, PhaseInv, Alive, LeaseTypeOK
    <3>2. \/ UNCHANGED <<stage, clock>> /\ taken[w] > 1
          \/ /\ taken[w] <= 1 /\ stage' = [stage EXCEPT ![w] = "out"]
             /\ clock' = [clock EXCEPT ![w] = 0]
      BY <2>2, <3>1 DEF ReleaseLeases, Goto
    <3>3. /\ stage' \in [Workers -> WorkerPhases] /\ clock' \in [Workers -> Nat]
          /\ stage'[w] \in {"release", "out"}
          /\ stage'[w] = "out" => taken[w] <= 1
          /\ \A u \in Workers \ {w} : stage'[u] = stage[u] /\ clock'[u] = clock[u]
      <4>1. CASE UNCHANGED <<stage, clock>> BY <1>0, <3>1, <4>1 DEF LeaseTypeOK
      <4>2. CASE /\ taken[w] <= 1 /\ stage' = [stage EXCEPT ![w] = "out"]
                 /\ clock' = [clock EXCEPT ![w] = 0]
        BY <1>0, <4>2 DEF LeaseTypeOK, WorkerPhases
      <4> QED BY <3>2, <4>1, <4>2
    <3>4. CASE taken[w] = 0
      <4>1. UNCHANGED <<lease, taken>> BY <2>2, <3>4 DEF ReleaseLeases
      <4> QED BY <1>0, <3>1, <3>3, <3>4, <4>1 DEF LeaseTypeOK, Same, Left
    <3>5. CASE taken[w] # 0
      <4> DEFINE c == Wants[w][taken[w]]
      <4>1. taken' = [taken EXCEPT ![w] = taken[w] - 1]
        BY <2>2, <3>5 DEF ReleaseLeases
      <4>2. PICK o \in {w, NoHolder, Orphaned} \cup {lease[c]} :
               lease' = [lease EXCEPT ![c] = o] /\ (lease[c] # w => o = lease[c])
        BY <2>2, <3>5 DEF ReleaseLeases
      <4>3. c \in Capabilities
        <5>1. taken[w] \in 1..Len(Wants[w]) BY <1>0, <3>1, <3>5, Roles DEF LeaseTypeOK
        <5> QED BY <5>1, Roles
      <4>4. lease' \in [Capabilities -> Workers \cup {NoHolder, Orphaned}]
        BY <1>0, <4>2, <4>3 DEF LeaseTypeOK
      <4>5. taken' \in [Workers -> Nat] /\ \A u \in Workers : taken'[u] <= Len(Wants[u])
        BY SMTT(20), <1>0, <3>1, <3>5, <4>1, Roles DEF LeaseTypeOK
      <4>6. LeaseTypeOK' BY <1>0, <3>1, <3>3, <4>4, <4>5 DEF LeaseTypeOK
      <4>7. \A d \in Capabilities : lease[d] # w => lease'[d] = lease[d]
        BY <1>0, <4>2 DEF LeaseTypeOK
      <4>8. \A u \in Workers \ {w} : Same(u)
        BY <1>0, <3>1, <3>3, <4>1 DEF LeaseTypeOK, Same
      <4>9. stage'[w] = "out" => taken'[w] = 0
        BY <1>0, <3>1, <3>3, <3>5, <4>1 DEF LeaseTypeOK
      <4> QED BY <3>1, <3>3, <4>6, <4>7, <4>8, <4>9 DEF Left
    <3> QED BY <3>4, <3>5
  <2> QED BY <2>1, <2>2
<1>2. PhaseInv' BY <1>1 DEF Left, Same, WorkerInv, PhaseInv, Alive
<1>3. ClockInv' BY <1>1 DEF Left, Same, WorkerInv, ClockInv
<1>4. ASSUME NEW u \in Workers \ {w}, Relies(u), NEW c \in Held(u)
      PROVE  lease'[c] = lease[c] /\ leaseAge'[c] <= leaseAge[c]
  <2>1. c \in Capabilities /\ lease[c] = u /\ leaseAge[c] <= leaseAge[c]
    BY <1>0, <1>4, HeldKnown, RowsOld DEF WorkerInv, LeaseInv, Relies
  <2> QED BY <1>1, <2>1 DEF Left
<1>5. ~Relies(w)' BY <1>1 DEF Left, Relies, Alive
<1>6. LeaseInv' BY <1>1, <1>4, <1>5, LeaseKept DEF Left
<1> QED BY <1>1, <1>2, <1>3, <1>6 DEF Left, WorkerInv

LEMMA TickStep ==
    ASSUME WorkerInv, LeaseTick
    PROVE  WorkerInv'
<1>0. LeaseTypeOK BY DEF WorkerInv
<1>1. /\ leaseAge' = [c \in Capabilities |-> IF leaseAge[c] < LeaseTtl THEN leaseAge[c] + 1 ELSE leaseAge[c]]
      /\ clock' = [w \in Workers |->
                     IF \/ stage[w] \in {"drain", "cancel"}
                        \/ stage[w] = "acquire" /\ taken[w] > 0
                     THEN clock[w] + 1 ELSE clock[w]]
      /\ timer' = [w \in Workers |-> IF renewing[w] # "off" THEN timer[w] + 1 ELSE timer[w]]
      /\ UNCHANGED <<lease, stage, taken, renewing, loop>>
  BY DEF LeaseTick
<1>2. LeaseTypeOK'
  <2>1. leaseAge' \in [Capabilities -> 0..LeaseTtl] BY <1>0, <1>1, Delays DEF LeaseTypeOK
  <2>2. clock' \in [Workers -> Nat] /\ timer' \in [Workers -> Nat]
    BY <1>0, <1>1 DEF LeaseTypeOK
  <2> QED BY <1>0, <1>1, <2>1, <2>2 DEF LeaseTypeOK
<1>3. PhaseInv' BY <1>1 DEF WorkerInv, PhaseInv
<1>4. ClockInv'
  BY <1>0, <1>1, Delays DEF LeaseTick, LeaseTypeOK, ClockInv
<1>5. LeaseInv'
  <2>1. SUFFICES ASSUME NEW w \in Workers, Relies(w), NEW c \in Held(w)
                 PROVE  lease'[c] = w /\ leaseAge'[c] <= Bound(w)'
    BY <1>1 DEF LeaseInv, Relies, Held
  <2>2. lease[c] = w /\ leaseAge[c] <= Bound(w) /\ leaseAge[c] \in Nat /\ c \in Capabilities
    BY <1>0, <2>1, HeldKnown, RowsOld DEF WorkerInv, LeaseInv, Relies
  <2>3. taken[w] > 0 BY <1>0, <2>1 DEF Held, LeaseTypeOK
  <2>4. leaseAge'[c] <= leaseAge[c] + 1 /\ leaseAge'[c] \in Nat BY <1>1, <2>2
  <2>5. Bound(w)' = Bound(w) + 1 /\ Bound(w) \in Nat
    <3>1. /\ renewing[w] \in RenewalStates /\ stage[w] \in {"acquire", "run", "drain", "cancel"}
          /\ stage[w] = "run" => renewing[w] # "off"
          /\ stage[w] = "acquire" => renewing[w] = "off"
      BY <1>0, <2>1 DEF LeaseTypeOK, WorkerInv, PhaseInv, Relies, Alive
    <3>2. /\ renewing[w] # "off" => timer'[w] = timer[w] + 1
          /\ stage[w] # "run" => clock'[w] = clock[w] + 1
          /\ renewing'[w] = renewing[w] /\ stage'[w] = stage[w]
      BY <1>1, <2>3, <3>1
    <3>3. /\ renewing[w] = "timer" => Bound(w)' = Fresh + timer'[w]
          /\ renewing[w] = "ask" => Bound(w)' = Fresh + RenewalInterval + timer'[w]
          /\ renewing[w] = "reply" => Bound(w)' = timer'[w]
          /\ renewing[w] = "off" /\ stage[w] = "acquire" => Bound(w)' = clock'[w]
          /\ renewing[w] = "off" /\ stage[w] = "drain" =>
                Bound(w)' = Fresh + RenewalInterval + Timeout + clock'[w]
          /\ renewing[w] = "off" /\ stage[w] = "cancel" =>
                Bound(w)' = Fresh + RenewalInterval + Timeout + Drain + clock'[w]
      BY <3>2, Delays DEF Bound, Fresh
    <3> QED BY <1>0, <3>1, <3>2, <3>3, Bounds, Delays DEF RenewalStates
  <2> QED BY <1>1, <2>2, <2>4, <2>5
<1> QED BY <1>2, <1>3, <1>4, <1>5 DEF WorkerInv

LEMMA Initially == ASSUME LeaseInit PROVE WorkerInv
<1>1. LeaseTypeOK
  BY Roles, Delays DEF LeaseInit, LeaseTypeOK, WorkerPhases, RenewalStates, LoopStates, Quiet
<1>2. PhaseInv /\ ClockInv /\ LeaseInv
  BY DEF LeaseInit, PhaseInv, ClockInv, LeaseInv, Alive, Quiet
<1> QED BY <1>1, <1>2 DEF WorkerInv

LEMMA Step ==
    ASSUME LeasesTimely, WorkerInv, [LeaseNext]_leaseVars
    PROVE  WorkerInv'
<1>1. CASE LeaseTick BY <1>1, TickStep
<1>2. ASSUME NEW w \in Workers, Renewing(w) PROVE WorkerInv'
  BY <1>2, RenewStep
<1>3. ASSUME NEW w \in Workers, Lifecycle(w) PROVE WorkerInv'
  BY <1>3, BootStep, AcquireStep, GiveUpStep, StopStep, DoneStep, LeaveStep DEF Lifecycle
<1>4. ASSUME NEW w \in Workers, Supervision(w) PROVE WorkerInv'
  BY <1>4, LoopStep
<1>5. CASE UNCHANGED leaseVars
  <2>1. LeaseTypeOK' BY <1>5 DEF leaseVars, WorkerInv, LeaseTypeOK
  <2>2. PhaseInv' /\ ClockInv' BY <1>5 DEF leaseVars, WorkerInv, PhaseInv, ClockInv
  <2>3. LeaseInv' BY <1>5 DEF leaseVars, WorkerInv, LeaseInv, Bound, Held
  <2> QED BY <2>1, <2>2, <2>3 DEF WorkerInv
<1> QED BY <1>1, <1>2, <1>3, <1>4, <1>5 DEF LeaseNext

\* While the delays are timely a worker owns fresh leases until its loops ended
\* (worker_lease_service renewals against worker_shutdown_drain_seconds).
THEOREM LeasesFresh == ASSUME LeasesTimely PROVE LeaseSpec => []WorkerInv
<1>1. LeaseInit => WorkerInv BY Initially
<1>2. WorkerInv /\ [LeaseNext]_leaseVars => WorkerInv' BY Step
<1> QED BY <1>1, <1>2, PTL DEF LeaseSpec

\* Under the same timing no two workers run loops under one capability.
THEOREM LeasesExclusive == ASSUME LeasesTimely PROVE LeaseSpec => []Exclusive
<1>1. WorkerInv => Exclusive
  <2>1. SUFFICES ASSUME WorkerInv, NEW v \in Workers, NEW w \in Workers, v # w,
                        Working(v), Working(w),
                        NEW i \in 1..Len(Wants[v]), NEW j \in 1..Len(Wants[w]),
                        Wants[v][i] = Wants[w][j]
                 PROVE  FALSE
    BY DEF Exclusive
  <2>2. ASSUME NEW u \in Workers, Working(u), NEW k \in 1..Len(Wants[u])
        PROVE  lease[Wants[u][k]] = u
    <3>1. stage[u] \in Alive /\ taken[u] = Len(Wants[u])
      BY <2>1, <2>2 DEF Working, WorkerInv, PhaseInv, Quiet
    <3>2. Wants[u][k] \in Held(u) BY <3>1 DEF Held
    <3> QED BY <2>1, <3>1, <3>2 DEF WorkerInv, LeaseInv
  <2> QED BY <2>1, <2>2
<1> QED BY <1>1, LeasesFresh, PTL

(***************************************************************************)
(* At any timing, a worker without a runtime has no loops.                 *)
(***************************************************************************)
RestInv ==
    /\ lease \in [Capabilities -> Workers \cup {NoHolder, Orphaned}]
    /\ stage \in [Workers -> WorkerPhases] /\ loop \in [Workers -> [Loops -> LoopStates]]
    /\ \A w \in Workers : stage[w] \notin Alive => loop[w] = Quiet

LEMMA RestStep ==
    ASSUME RestInv, [LeaseNext]_leaseVars
    PROVE  RestInv'
<1>1. CASE LeaseTick \/ UNCHANGED leaseVars
  BY <1>1 DEF LeaseTick, leaseVars, RestInv
<1>2. ASSUME NEW w \in Workers, Renewing(w) PROVE RestInv'
  <2>1. UNCHANGED <<lease, loop>>
    BY <1>2 DEF Renewing, RenewalDue, RenewalApplied, RenewalAnswered, RenewalLost, RenewalFails
  <2>2. \/ UNCHANGED stage
        \/ stage[w] \in Alive /\ \E p \in Alive : stage' = [stage EXCEPT ![w] = p]
    BY <1>2 DEF Renewing, RenewalDue, RenewalApplied, RenewalAnswered, RenewalLost, RenewalFails,
                FailClosed, Goto, Alive
  <2> QED BY <2>1, <2>2 DEF RestInv, Alive, WorkerPhases
<1>3. ASSUME NEW w \in Workers, Supervision(w) PROVE RestInv'
  <2>1. PICK l \in Loops, s \in LoopStates :
           /\ loop[w][l] # "off" /\ loop' = [loop EXCEPT ![w][l] = s]
           /\ UNCHANGED <<lease, stage>>
    BY <1>3 DEF Supervision, LoopFails, LoopRestarts, LoopEnds, SetLoop, LoopStates
  <2>2. stage[w] \in Alive
    BY <2>1 DEF RestInv, Quiet
  <2> QED BY <2>1, <2>2 DEF RestInv
<1>4. ASSUME NEW w \in Workers, Lifecycle(w) PROVE RestInv'
  <2>0. lease' \in [Capabilities -> Workers \cup {NoHolder, Orphaned}]
    BY <1>4 DEF Lifecycle, Boot, AcquireLease, Unavailable, AcquireLeaseAbandoned, StopSignal, DrainTimeout,
                LoopsDone, Crash, ReleaseLeases, RestInv
  <2>1. CASE Boot(w) \/ Unavailable(w) \/ AcquireLeaseAbandoned(w) \/ \E ok \in BOOLEAN : ReleaseLeases(w, ok)
    <3>1. /\ stage[w] \notin Alive /\ UNCHANGED loop
          /\ \/ UNCHANGED stage
             \/ \E p \in WorkerPhases : stage' = [stage EXCEPT ![w] = p]
      BY <2>1 DEF Boot, Unavailable, AcquireLeaseAbandoned, ReleaseLeases, Goto, Alive, WorkerPhases
    <3> QED BY <2>0, <3>1 DEF RestInv
  <2>2. CASE AcquireLease(w) /\ UNCHANGED <<stage, loop>>
    BY <2>0, <2>2 DEF RestInv
  <2>3. CASE AcquireLease(w) /\ ~UNCHANGED <<stage, loop>>
    <3>1. stage' = [stage EXCEPT ![w] = "run"]
      BY <2>3 DEF AcquireLease
    <3>2. loop' = [loop EXCEPT ![w] = [l \in Loops |-> "running"]]
      BY <2>3 DEF AcquireLease
    <3>3. [l \in Loops |-> "running"] \in [Loops -> LoopStates]
      BY DEF LoopStates
    <3>4. stage' \in [Workers -> WorkerPhases] /\ loop' \in [Workers -> [Loops -> LoopStates]]
      BY <3>1, <3>2, <3>3 DEF RestInv, WorkerPhases
    <3>5. ASSUME NEW v \in Workers, stage'[v] \notin Alive PROVE loop'[v] = Quiet
      <4>1. v # w
        BY <3>1, <3>5 DEF RestInv, Alive
      <4> QED BY <3>1, <3>2, <3>5, <4>1 DEF RestInv
    <3> QED BY <2>0, <3>4, <3>5 DEF RestInv
  <2>4. CASE StopSignal(w) \/ DrainTimeout(w) \/ LoopsDone(w)
    <3>1. PICK p \in WorkerPhases :
             stage' = [stage EXCEPT ![w] = p] /\ (p \in Alive \/ loop[w] = Quiet)
      BY <2>4 DEF StopSignal, DrainTimeout, LoopsDone, Goto, Alive, WorkerPhases
    <3>2. loop' = loop
      BY <2>4 DEF StopSignal, DrainTimeout, LoopsDone
    <3>3. stage' \in [Workers -> WorkerPhases]
      BY <3>1 DEF RestInv
    <3>4. ASSUME NEW v \in Workers, stage'[v] \notin Alive PROVE loop'[v] = Quiet
      <4>1. v = w => stage'[v] = p
        BY <3>1 DEF RestInv
      <4>2. v # w => stage'[v] = stage[v]
        BY <3>1 DEF RestInv
      <4> QED BY <3>1, <3>2, <3>4, <4>1, <4>2 DEF RestInv
    <3> QED BY <2>0, <3>2, <3>3, <3>4 DEF RestInv
  <2>5. CASE Crash(w)
    <3>1. /\ loop' = [loop EXCEPT ![w] = Quiet] /\ stage' = [stage EXCEPT ![w] = "out"]
          /\ Quiet \in [Loops -> LoopStates]
      BY <2>5 DEF Crash, Goto, Quiet, LoopStates
    <3> QED BY <2>0, <3>1 DEF RestInv, WorkerPhases
  <2> QED BY <1>4, <2>1, <2>2, <2>3, <2>4, <2>5 DEF Lifecycle
<1> QED BY <1>1, <1>2, <1>3, <1>4 DEF LeaseNext

\* At any timing a lease is given back only after the loops of its worker ended
\* (run_monitor_loops inside worker_capability_leases).
THEOREM LoopsFirst == LeaseSpec => LoopsEndFirst
<1>1. LeaseInit => RestInv
  BY DEF LeaseInit, RestInv, Quiet, WorkerPhases, LoopStates
<1>2. RestInv /\ [LeaseNext]_leaseVars => RestInv'
  BY RestStep
<1>3. ASSUME RestInv, [LeaseNext]_leaseVars, NEW w \in Workers, NEW c \in Capabilities,
             lease[c] = w, lease'[c] = NoHolder
      PROVE  loop[w] = Quiet
  <2>1. lease'[c] # lease[c] /\ lease'[c] \notin Workers \cup {Orphaned}
    BY <1>3, WorkerLeaseAssumption
  <2>2. PICK v \in Workers, ok \in BOOLEAN : ReleaseLeases(v, ok)
    <3>1. ASSUME NEW v \in Workers, AcquireLease(v) \/ AcquireLeaseAbandoned(v) \/ Crash(v)
          PROVE  FALSE
      BY <1>3, <2>1, <3>1 DEF AcquireLease, AcquireLeaseAbandoned, Crash, RestInv
    <3>2. ASSUME NEW v \in Workers, Renewing(v) \/ Supervision(v)
          PROVE  UNCHANGED lease
      BY <3>2 DEF Renewing, RenewalDue, RenewalApplied, RenewalAnswered, RenewalLost,
                  RenewalFails, Supervision, LoopFails, LoopRestarts, LoopEnds
    <3>3. ASSUME NEW v \in Workers, \/ Boot(v) \/ Unavailable(v) \/ StopSignal(v)
                                   \/ DrainTimeout(v) \/ LoopsDone(v)
          PROVE  UNCHANGED lease
      BY <3>3 DEF Boot, Unavailable, StopSignal, DrainTimeout, LoopsDone
    <3> QED BY <1>3, <2>1, <3>1, <3>2, <3>3 DEF LeaseNext, Lifecycle, LeaseTick, leaseVars
  <2>3. v = w /\ stage[v] = "release"
    BY <1>3, <2>1, <2>2, WorkerLeaseAssumption DEF ReleaseLeases, RestInv
  <2> QED BY <1>3, <2>3 DEF RestInv, Alive
<1>4. RestInv /\ [LeaseNext]_leaseVars
      => [\A w \in Workers, c \in Capabilities :
             lease[c] = w /\ lease'[c] = NoHolder => loop[w] = Quiet]_leaseVars
  BY <1>3
<1> QED BY <1>1, <1>2, <1>4, PTL DEF LeaseSpec, LoopsEndFirst
=============================================================================
