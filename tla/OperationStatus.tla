-------------------------- MODULE OperationStatus --------------------------
(***************************************************************************)
(* One long-running operation (wallet scoring, discovery import, pool      *)
(* import): its durable status row, the job lock its runs take, the routes *)
(* that start and cancel it, and the status reads that act as a watchdog   *)
(* for runs whose process died.                                            *)
(*                                                                         *)
(* Every write of the row reads it again under an advisory lock, so a      *)
(* write is one step; what led to the write was read before.               *)
(***************************************************************************)
EXTENDS FiniteSets

CONSTANTS
    Runs,       \* bound: operation run ids
    NoRun,
    Operation   \* "wallet_scoring", "discovery_import" or "pool_fill_import"

VARIABLES
    row,        \* the operation's row in settings
    owner,      \* the run that holds the operation's job lock
    run,        \* the runs
    watch,      \* a status read under way, with the row it read
    asking      \* a cancel request under way, with the row it read

statusVars == <<row, owner, run, watch, asking>>
----------------------------------------------------------------------------
Rows == [status : {"idle", "running", "succeeded", "failed", "canceled"},
         id : Runs \cup {NoRun}, cancel : BOOLEAN, recent : BOOLEAN]
Idle == [status |-> "idle", id |-> NoRun, cancel |-> FALSE, recent |-> FALSE]
NoOne == [step |-> "none", row |-> Idle]

Alive == {"accepted", "queued", "locked", "working", "checked", "persisted", "done",
          "stopping", "failing", "ended", "failed"}
StatusTypeOK ==
    /\ row \in Rows /\ owner \in Runs \cup {NoRun}
    /\ run \in [Runs -> [phase : Alive \cup {"new", "over"}, background : BOOLEAN]]
    /\ watch.step \in {"none", "read", "stale"} /\ watch.row \in Rows
    /\ asking.step \in {"none", "read", "live", "stale"} /\ asking.row \in Rows

StatusInit ==
    /\ row = Idle /\ owner = NoRun /\ watch = NoOne /\ asking = NoOne
    /\ run = [r \in Runs |-> [phase |-> "new", background |-> FALSE]]

At(r, phases) == run[r].phase \in phases
MovesTo(r, phase) == run' = [run EXCEPT ![r].phase = phase]
----------------------------------------------------------------------------
(* The writes of the row.  Only a start of the run that was asked to stop, *)
(* and progress, keep a cancel request.                                    *)
StartedAfresh(r, recent) ==
    [status |-> "running", id |-> r, recent |-> recent, cancel |-> FALSE]
Started(r, recent) ==
    [status |-> "running", id |-> r, recent |-> recent,
     cancel |-> row.status = "running" /\ row.id = r /\ row.cancel]

\* The progress of scoring does not name its run.
Progressed(r) ==
    [status |-> "running", recent |-> FALSE, cancel |-> row.cancel,
     id |-> IF Operation = "wallet_scoring" THEN row.id ELSE r]
Succeeded(r) == [status |-> "succeeded", id |-> r, cancel |-> FALSE, recent |-> FALSE]
MarkedFailed(r) == [status |-> "failed", id |-> r, cancel |-> FALSE, recent |-> FALSE]
Canceled(r) == [status |-> "canceled", id |-> r, cancel |-> TRUE, recent |-> FALSE]

(* OPERATION_START_GRACE is over.                                          *)
Age ==
    /\ row.recent /\ row' = [row EXCEPT !.recent = FALSE]
    /\ UNCHANGED <<owner, run, watch, asking>>
----------------------------------------------------------------------------
(* The start routes: scoring trusts a running row only as long as it is    *)
(* recent or its lock is held.                                             *)
Occupied ==
    /\ row.status = "running"
    /\ Operation = "wallet_scoring" => row.recent \/ owner # NoRun
Accept(r) ==
    /\ At(r, {"new"}) /\ ~Occupied
    /\ run' = [run EXCEPT ![r] = [phase |-> "accepted", background |-> TRUE]]
    /\ UNCHANGED <<row, owner, watch, asking>>

Queue(r) ==
    /\ At(r, {"accepted"}) /\ MovesTo(r, "queued")
    /\ row' = Started(r, TRUE)
    /\ UNCHANGED <<owner, watch, asking>>

(* A run begins in a background task, in a worker or in a request.         *)
TakeLock(r) ==
    /\ At(r, {"new", "queued"})
    /\ IF owner = NoRun THEN owner' = r /\ MovesTo(r, "locked")
       ELSE owner' = owner /\ MovesTo(r, "over")
    /\ UNCHANGED <<row, watch, asking>>

Begin(r) ==
    /\ At(r, {"locked"}) /\ MovesTo(r, "working")
    /\ row' = Started(r, FALSE)
    /\ UNCHANGED <<owner, watch, asking>>

CancelRequested(r) == row.status = "running" /\ row.id = r /\ row.cancel

(* Between two units of work, and again when all of it is done.            *)
Checkpoint(r) ==
    /\ At(r, {"working", "persisted"})
    /\ MovesTo(r, IF CancelRequested(r) THEN "stopping"
               ELSE IF At(r, {"working"}) THEN "checked" ELSE "done")
    /\ UNCHANGED <<row, owner, watch, asking>>

Progress(r) ==
    /\ At(r, {"checked"}) /\ MovesTo(r, "working")
    /\ row' = Progressed(r)
    /\ UNCHANGED <<owner, watch, asking>>

(* The run's own transaction: results that no later failure takes back.    *)
Persist(r) ==
    /\ At(r, {"checked"}) /\ MovesTo(r, "persisted")
    /\ UNCHANGED <<row, owner, watch, asking>>

Fail(r) ==
    /\ At(r, {"working", "checked", "persisted"}) /\ MovesTo(r, "failing")
    /\ UNCHANGED <<row, owner, watch, asking>>

Report(r) ==
    /\ \/ At(r, {"done"}) /\ row' = Succeeded(r) /\ MovesTo(r, "ended")
       \/ At(r, {"stopping"}) /\ row' = Canceled(r) /\ MovesTo(r, "ended")
       \/ At(r, {"failing"}) /\ row' = MarkedFailed(r) /\ MovesTo(r, "failed")
    /\ UNCHANGED <<owner, watch, asking>>

Release(r) ==
    /\ owner = r /\ owner' = NoRun
    /\ \/ At(r, {"ended"}) /\ MovesTo(r, "over")
       \/ /\ At(r, {"failed"})
          /\ run[r].background /\ Operation = "wallet_scoring" => UNCHANGED run
          /\ ~(run[r].background /\ Operation = "wallet_scoring") => MovesTo(r, "over")
    /\ UNCHANGED <<row, watch, asking>>

(* The background task of scoring reports a failure a second time, when    *)
(* the lock is free again, without naming its run.                         *)
FailAgain(r) ==
    /\ At(r, {"failed"}) /\ owner # r /\ run[r].background /\ Operation = "wallet_scoring"
    /\ row' = MarkedFailed(row.id) /\ MovesTo(r, "over")
    /\ UNCHANGED <<owner, watch, asking>>

(* The lock of a process that died expires.                                *)
Crash(r) ==
    /\ At(r, Alive) /\ MovesTo(r, "over")
    /\ UNCHANGED <<row, owner, watch, asking>>
Expire ==
    /\ owner # NoRun /\ At(owner, {"over"}) /\ owner' = NoRun
    /\ UNCHANGED <<row, run, watch, asking>>
----------------------------------------------------------------------------
(* list_operation_statuses: the row, then the lock, then the write.        *)
WatchRead ==
    /\ watch = NoOne /\ row.status = "running" /\ ~row.recent
    /\ watch' = [step |-> "read", row |-> row]
    /\ UNCHANGED <<row, owner, run, asking>>
WatchLock ==
    /\ watch.step = "read"
    /\ watch' = IF owner = NoRun THEN [watch EXCEPT !.step = "stale"] ELSE NoOne
    /\ UNCHANGED <<row, owner, run, asking>>
WatchWrite ==
    /\ watch.step = "stale" /\ watch' = NoOne
    /\ row' = IF watch.row.cancel THEN Canceled(watch.row.id) ELSE MarkedFailed(watch.row.id)
    /\ UNCHANGED <<owner, run, asking>>

(* request_operation_cancellation, likewise; a live operation's row must   *)
(* still be running when the request is written.                           *)
CancelRead ==
    /\ asking = NoOne /\ row.status = "running"
    /\ asking' = [step |-> IF row.recent THEN "live" ELSE "read", row |-> row]
    /\ UNCHANGED <<row, owner, run, watch>>
CancelLock ==
    /\ asking.step = "read"
    /\ asking' = [asking EXCEPT !.step = IF owner = NoRun THEN "stale" ELSE "live"]
    /\ UNCHANGED <<row, owner, run, watch>>
CancelWrite ==
    /\ asking.step \in {"live", "stale"} /\ asking' = NoOne
    /\ row' = IF asking.step = "stale" THEN Canceled(asking.row.id)
              ELSE IF row.status = "running" THEN [row EXCEPT !.cancel = TRUE, !.recent = FALSE]
              ELSE row
    /\ UNCHANGED <<owner, run, watch>>
----------------------------------------------------------------------------
RunStep(r) ==
    \/ Accept(r) \/ Queue(r) \/ TakeLock(r) \/ Begin(r) \/ Checkpoint(r) \/ Progress(r)
    \/ Persist(r) \/ Fail(r) \/ Report(r) \/ Release(r) \/ FailAgain(r) \/ Crash(r)

StatusNext ==
    \/ \E r \in Runs : RunStep(r)
    \/ Age \/ Expire \/ WatchRead \/ WatchLock \/ WatchWrite
    \/ CancelRead \/ CancelLock \/ CancelWrite

StatusSpec == StatusInit /\ [][StatusNext]_statusVars
----------------------------------------------------------------------------
(* A cancel request that was accepted is not lost: no write of the row     *)
(* takes it back while the same run is the running one, not the start of   *)
(* that run either, when the request reached it in the queue.              *)
CancelStays ==
    row.status = "running" /\ row.cancel /\ row'.status = "running" /\ row'.id = row.id
        => row'.cancel

CancelSurvives == [][CancelStays]_statusVars
=============================================================================
