------------------------------- MODULE JobLock -------------------------------
(***************************************************************************)
(* One row of job_locks and the tasks that compete for it: a lock with an  *)
(* expiry, a renewal loop beside every holder and a takeover of rows whose *)
(* renewal stopped.  The account fence of LiveOrderDispatch is such a lock.*)
(*                                                                         *)
(* Time is counted in ticks.  The row's age stands for now() - updated_at; *)
(* locked_until is always written ttl seconds after updated_at, so the age *)
(* says both whether the lock expired and whether it is stale.             *)
(***************************************************************************)
EXTENDS Naturals

CONSTANTS
    Tasks,          \* tasks of any process that take this lock
    Nobody,         \* there is no row
    Orphan,         \* the row's owner is gone (every acquisition has a new owner)
    Ttl,            \* ttl_seconds of the callers
    Stale,          \* JOB_LOCK_STALE_AFTER_SECONDS
    Interval,       \* renewal interval
    AskDelay,       \* a due renewal is answered within this time
    LeaveDelay      \* a canceled holder has left the section within this time

ASSUME JobLockAssumption ==
    /\ Nobody # Orphan
    /\ Tasks \cap {Nobody, Orphan} = {}
    /\ Ttl \in Nat \ {0} /\ Stale \in Nat \ {0}
    /\ Interval \in Nat \ {0} /\ AskDelay \in Nat /\ LeaveDelay \in Nat

VARIABLES
    owner,      \* job_locks.owner
    age,        \* time since job_locks.updated_at
    phase,      \* where each task is in `async with job_lock(...)`
    renewal,    \* its renewal task
    canceled,   \* a cancellation of the task was requested
    overdue     \* time since that request

vars == <<owner, age, phase, renewal, canceled, overdue>>

TakeoverAge == IF Ttl < Stale THEN Ttl ELSE Stale

Phases == {"out", "body", "unwind", "release"}
Renewals == {"off", "timer", "ask"}

Init ==
    /\ owner = Nobody
    /\ age = 0
    /\ phase = [t \in Tasks |-> "out"]
    /\ renewal = [t \in Tasks |-> "off"]
    /\ canceled = [t \in Tasks |-> FALSE]
    /\ overdue = [t \in Tasks |-> 0]

\* Mutant of Takeable: only the owner's release frees a row.
TakeableOnceFree == owner = Nobody

Takeable == owner = Nobody \/ age >= TakeoverAge

Renewed == age' = 0
Enter(t) ==
    /\ phase' = [phase EXCEPT ![t] = "body"]
    /\ renewal' = [renewal EXCEPT ![t] = "timer"]

\* Mutant of Acquire: any row may be taken over.
AcquireAlways(t) ==
    /\ phase[t] = "out"
    /\ owner' = t /\ Renewed
    /\ Enter(t)
    /\ UNCHANGED <<canceled, overdue>>

Acquire(t) ==
    /\ phase[t] = "out"
    /\ Takeable
    /\ owner' = t /\ Renewed
    /\ Enter(t)
    /\ UNCHANGED <<canceled, overdue>>

\* Canceled while the acquiring commit is on its way: the row stays behind.
AcquireAbandoned(t) ==
    /\ phase[t] = "out"
    /\ Takeable
    /\ owner' = Orphan /\ Renewed
    /\ UNCHANGED <<phase, renewal, canceled, overdue>>

\* The renewal timer fires no earlier than Interval after the last renewal.
Due(t) ==
    /\ renewal[t] = "timer"
    /\ age >= Interval \/ owner # t
    /\ renewal' = [renewal EXCEPT ![t] = "ask"]
    /\ UNCHANGED <<owner, age, phase, canceled, overdue>>

CancelOwner(t) ==
    /\ renewal' = [renewal EXCEPT ![t] = "off"]
    /\ canceled' = [canceled EXCEPT ![t] = TRUE]
    /\ overdue' = [overdue EXCEPT ![t] = IF canceled[t] THEN @ ELSE 0]

\* Mutant of Renew: a holder that lost its row is not told.
RenewUnheard(t) ==
    /\ renewal[t] = "ask"
    /\ IF owner = t THEN Renewed ELSE UNCHANGED age
    /\ renewal' = [renewal EXCEPT ![t] = "timer"]
    /\ UNCHANGED <<owner, phase, canceled, overdue>>

\* The update finds the owner's row, whatever its age, or the owner is canceled.
Renew(t) ==
    /\ renewal[t] = "ask"
    /\ IF owner = t
       THEN /\ Renewed
            /\ renewal' = [renewal EXCEPT ![t] = "timer"]
            /\ UNCHANGED <<canceled, overdue>>
       ELSE CancelOwner(t) /\ UNCHANGED age
    /\ UNCHANGED <<owner, phase>>

RenewFails(t) ==
    /\ renewal[t] = "ask"
    /\ CancelOwner(t)
    /\ UNCHANGED <<owner, age, phase>>

\* Shutdown or a timeout around the caller.
Cancel(t) ==
    /\ phase[t] # "out" /\ ~canceled[t]
    /\ canceled' = [canceled EXCEPT ![t] = TRUE]
    /\ overdue' = [overdue EXCEPT ![t] = 0]
    /\ UNCHANGED <<owner, age, phase, renewal>>

\* The section ends, normally or by an exception; the renewal task is canceled.
Leave(t) ==
    /\ phase[t] = "body"
    /\ phase' = [phase EXCEPT ![t] = "unwind"]
    /\ renewal' = [renewal EXCEPT ![t] = "off"]
    /\ UNCHANGED <<owner, age, canceled, overdue>>

\* Awaiting the canceled renewal task suppresses the task's own cancellation.
Unwind(t) ==
    /\ phase[t] = "unwind"
    /\ phase' = [phase EXCEPT ![t] = "release"]
    /\ canceled' = [canceled EXCEPT ![t] = FALSE]
    /\ overdue' = [overdue EXCEPT ![t] = 0]
    /\ UNCHANGED <<owner, age, renewal>>

Out(t) ==
    /\ phase' = [phase EXCEPT ![t] = "out"]
    /\ renewal' = [renewal EXCEPT ![t] = "off"]
    /\ canceled' = [canceled EXCEPT ![t] = FALSE]
    /\ overdue' = [overdue EXCEPT ![t] = 0]

Release(t) ==
    /\ phase[t] = "release"
    /\ owner' = IF owner = t THEN Nobody ELSE owner
    /\ Out(t)
    /\ UNCHANGED age

\* The release fails twice or is canceled, or the whole process dies.
Vanish(t) ==
    /\ phase[t] # "out"
    /\ owner' = IF owner = t THEN Orphan ELSE owner
    /\ Out(t)
    /\ UNCHANGED age

\* Time passes, but not beyond what the timing assumptions allow: the owner's
\* renewal is answered, and a canceled holder leaves, within their delays.
Tick ==
    /\ \A t \in Tasks :
          /\ owner = t /\ renewal[t] # "off" => age < Interval + AskDelay
          /\ phase[t] = "body" /\ canceled[t] => overdue[t] < LeaveDelay
    /\ age' = IF age < TakeoverAge THEN age + 1 ELSE age
    /\ overdue' = [t \in Tasks |->
                     IF phase[t] = "body" /\ canceled[t] THEN overdue[t] + 1 ELSE overdue[t]]
    /\ UNCHANGED <<owner, phase, renewal, canceled>>

Holder(t) ==
    \/ Acquire(t) \/ AcquireAbandoned(t) \/ Leave(t) \/ Unwind(t) \/ Release(t)
    \/ Cancel(t) \/ Vanish(t)

RenewalLoop(t) == Due(t) \/ Renew(t) \/ RenewFails(t)

Next == Tick \/ \E t \in Tasks : Holder(t) \/ RenewalLoop(t)

Spec == Init /\ [][Next]_vars

(* Fairness: the event loop serves the renewal loop, a cancellation reaches *)
(* the section, the context manager unwinds, somebody keeps asking for the  *)
(* lock (not every attempt is abandoned) and time passes.  No section is    *)
(* assumed to end by itself.                                                *)
Fairness ==
    /\ \A t \in Tasks :
          /\ WF_vars(Due(t)) /\ WF_vars(Renew(t) \/ RenewFails(t))
          /\ WF_vars(canceled[t] /\ Leave(t)) /\ WF_vars(Unwind(t)) /\ WF_vars(Release(t))
    /\ SF_vars(\E t \in Tasks : Acquire(t))
    /\ WF_vars(Tick)

FairSpec == Spec /\ Fairness

-----------------------------------------------------------------------------
(* Properties.                                                             *)

\* What must hold of the delays for the lock to exclude: a holder whose renewal
\* is answered as late as possible, and with a failure, still leaves the section
\* before its row may be taken over.
Timely == Interval + AskDelay + LeaveDelay < TakeoverAge

\* Owner, ages and the tasks' positions always hold values of these shapes.
TypeOK ==
    /\ owner \in Tasks \cup {Nobody, Orphan}
    /\ age \in 0..TakeoverAge
    /\ phase \in [Tasks -> Phases]
    /\ renewal \in [Tasks -> Renewals]
    /\ canceled \in [Tasks -> BOOLEAN]
    /\ overdue \in [Tasks -> 0..LeaveDelay]

\* At most one task is inside the section, through takeovers, failed renewals
\* and abandoned acquisitions.
MutualExclusion ==
    \A t, u \in Tasks : phase[t] = "body" /\ phase[u] = "body" => t = u

\* A task inside owns the row, and its row is no older than its renewal, or the
\* cancellation that follows a failed one, allows.
HolderIsFresh == \A t \in Tasks :
    /\ renewal[t] # "off" => phase[t] = "body"
    /\ phase[t] = "body" =>
          /\ owner = t
          /\ renewal[t] # "off" => age <= Interval + AskDelay
          /\ renewal[t] = "off" => canceled[t] /\ age <= Interval + AskDelay + overdue[t]

\* The inductive invariant: every holder owns a row that is too young to take.
LockInv == TypeOK /\ HolderIsFresh

\* A lock that somebody owns becomes free only by its owner's own release, so a
\* late release never opens the lock of a successor.
FreedByOwner ==
    [][\A t \in Tasks : owner = t /\ owner' = Nobody => phase[t] = "release"]_vars

\* A task whose row was taken over does not stay inside for ever.
LoserLeaves ==
    \A t \in Tasks : (phase[t] = "body" /\ owner # t) ~> phase[t] # "body"

\* A lock whose owner died is taken over.
OrphanReplaced == owner = Orphan ~> owner # Orphan

Inside == {t \in Tasks : phase[t] = "body"}
F == INSTANCE Fence WITH inside <- Inside

\* To its callers the lock is a fence: a takeover never hands the section over
\* while the previous holder is still in it.
IsFence == F!Spec
=============================================================================
