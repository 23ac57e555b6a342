------------------------- MODULE LiveOrderDispatch -------------------------
(***************************************************************************)
(* The order outbox of the live trading engine: how one logical order of a *)
(* live account becomes at most three exchange attempts, each with a CLOID *)
(* of its own, while workers crash, replies are lost and two loops that do *)
(* not share a lock look the attempts up at the exchange.                  *)
(*                                                                         *)
(* A step is one database transaction or one network event.  The account   *)
(* fence is the job lock live_execution:<account>; it is exclusive here    *)
(* and a worker that dies or is canceled gives it back (module JobLock     *)
(* says under which timing that is so).                                    *)
(***************************************************************************)
EXTENDS Naturals, FiniteSets

CONSTANTS
    Orders,             \* logical orders (client_order_id) of one account
    Entries,            \* those that are not reduce-only
    Workers,            \* tasks that submit or reconcile under the fence
    NoWorker,           \* the fence is free
    MaxAttempts         \* MAX_LIVE_ORDER_SUBMIT_ATTEMPTS

ASSUME DispatchAssumption ==
    /\ Entries \subseteq Orders
    /\ NoWorker \notin Workers
    /\ MaxAttempts \in Nat \ {0}

VARIABLES
    account,    \* trading_accounts.status
    live,       \* settings.live_trading_enabled of the running deployment
    lock,       \* holder of the account fence
    order,      \* trading_orders: one row per logical order
    dispatch,   \* trading_order_dispatches: one row per attempt
    exch,       \* what the exchange knows of each attempt's CLOID
    sent,       \* how many requests carried that CLOID
    work,       \* what each worker is in the middle of
    rec         \* the recovery loop's status lookup

vars == <<account, live, lock, order, dispatch, exch, sent, work, rec>>

Attempts == 1..MaxAttempts
Terminal == {"filled", "rejected", "canceled", "failed"}
Active   == {"submitting", "uncertain", "submitted", "accepted", "partially_filled"}

(* transient: raw_payload.exchangeReject is an IOC no-match or open-        *)
(* interest-cap reject with attempts left.  soft: the error is a retryable *)
(* skip, or a submitError of a market that was not yet tradable.  oid: the *)
(* row holds an exchange order id or a filled size.                        *)
OrderRow == [status : Terminal \cup Active \cup {"absent", "ready"},
             transient : BOOLEAN,
             soft : BOOLEAN,
             oid : BOOLEAN,
             latest : 0..MaxAttempts]
DispatchStatus ==
    {"absent", "pending", "dispatching", "uncertain", "completed", "canceled"}
DispatchRow == [status : DispatchStatus, count : Nat]
Outcome == {"none", "wire", "open", "filled", "partial", "canceled",
            "transient", "final"}
Answer == {"error", "unknown", "accepted", "filled", "canceled", "rejected"}

Idle == [pc |-> "idle"]
Submission == [pc : {"append", "reset", "mark", "close", "send", "wait"},
               o : Orders, n : Attempts]
Lookup == [pc : {"ask"}, o : Orders, n : Attempts, snap : OrderRow,
           dsnap : DispatchStatus]
Answered == [pc : {"write"}, o : Orders, n : Attempts, snap : OrderRow,
             dsnap : DispatchStatus, seen : Answer]

Row(status, transient, soft, oid, latest) ==
    [status |-> status, transient |-> transient, soft |-> soft, oid |-> oid,
     latest |-> latest]
Attempt(status, count) == [status |-> status, count |-> count]

WithStatus(row, status) == Row(status, row.transient, row.soft, row.oid, row.latest)
WithFailure(row, soft) == Row("failed", row.transient, soft, row.oid, row.latest)

Init ==
    /\ account \in {"enabled", "exit_only"}
    /\ live = TRUE
    /\ lock = NoWorker
    /\ order = [o \in Orders |->
                  Row("absent", FALSE, FALSE, FALSE, 0)]
    /\ dispatch = [o \in Orders |-> [n \in Attempts |->
                                       Attempt("absent", 0)]]
    /\ exch = [o \in Orders |-> [n \in Attempts |-> "none"]]
    /\ sent = [o \in Orders |-> [n \in Attempts |-> 0]]
    /\ work = [p \in Workers |-> Idle]
    /\ rec = Idle

-----------------------------------------------------------------------------
(* Decisions the code takes from a row it has read.                        *)

RetryableFailure(row) ==
    /\ ~row.oid
    /\ \/ row.status = "rejected" /\ row.transient
       \/ row.status = "failed" /\ row.soft

WillDispatch(row) == row.status \in {"absent", "ready"} \/ RetryableFailure(row)

\* Mutant of NextCommit: a retry goes out under the CLOID of the refused attempt.
NextCommitReusingCloid(row, att) ==
    IF row.status \in Terminal
    THEN IF RetryableFailure(row) THEN "reset" ELSE "close"
    ELSE IF row.status = "ready" THEN "mark" ELSE "idle"

\* Mutant of NextCommit: what is ready is taken for what is already in flight.
NextCommitForgetting(row, att) ==
    IF row.status \in Terminal
    THEN IF ~RetryableFailure(row) THEN "close"
         ELSE IF att.count > 0 \/ att.status # "pending" THEN "append" ELSE "reset"
    ELSE "idle"

\* The next commit of a submission, once the order and its latest attempt are known.
NextCommit(row, att) ==
    IF row.status \in Terminal
    THEN IF ~RetryableFailure(row) THEN "close"
         ELSE IF att.count > 0 \/ att.status # "pending" THEN "append" ELSE "reset"
    ELSE IF row.status = "ready" THEN "mark" ELSE "idle"

SetStatus(o, status) == order' = [order EXCEPT ![o] = WithStatus(@, status)]
SetAttempt(o, n, status) ==
    dispatch' = [dispatch EXCEPT ![o][n] = Attempt(status, @.count)]

Leave(p) == lock' = NoWorker /\ work' = [work EXCEPT ![p] = Idle]
Goto(p, pc) == work' = [work EXCEPT ![p] = [pc |-> pc, o |-> @.o, n |-> @.n]]
CanEnter(p) == lock = NoWorker /\ work[p] = Idle

\* ready entries (and their attempts) that a protective state cancels.
CancelUnsent ==
    LET unsent == {o \in Entries : order[o].status = "ready"} IN
    /\ order' = [o \in Orders |->
                   IF o \in unsent THEN WithStatus(order[o], "canceled") ELSE order[o]]
    /\ dispatch' = [o \in Orders |-> [n \in Attempts |->
                      IF o \in unsent /\ n = order[o].latest
                      THEN Attempt("canceled", dispatch[o][n].count)
                      ELSE dispatch[o][n]]]

-----------------------------------------------------------------------------
(* Submission under the fence: one action per commit.                      *)

Prepare(p, o) ==
    /\ CanEnter(p)
    /\ o \in Entries => account = "enabled" /\ live
    /\ LET fresh == order[o].status = "absent"
           n == IF order[o].latest = 0 THEN 1 ELSE order[o].latest
           row == Row(IF fresh THEN "ready" ELSE order[o].status,
                      order[o].transient, order[o].soft, order[o].oid, n)
           att == IF order[o].latest = 0 THEN Attempt("pending", 0) ELSE dispatch[o][n]
           next == NextCommit(row, att)
       IN /\ order' = [order EXCEPT ![o] = row]
          /\ dispatch' = [dispatch EXCEPT ![o][n] = att]
          /\ IF next = "idle"
             THEN UNCHANGED <<lock, work>>
             ELSE /\ lock' = p
                  /\ work' = [work EXCEPT ![p] = [pc |-> next, o |-> o, n |-> n]]
    /\ UNCHANGED <<account, live, exch, sent, rec>>

\* An entry past its TTL is canceled instead of dispatched.
Expire(p, o) ==
    /\ CanEnter(p)
    /\ o \in Entries /\ account = "enabled" /\ live
    /\ WillDispatch(order[o]) /\ order[o].status # "absent"
    /\ SetStatus(o, "canceled")
    /\ LET n == order[o].latest
       IN IF n > 0 /\ dispatch[o][n].status \in {"pending", "dispatching", "uncertain"}
          THEN SetAttempt(o, n, "canceled") ELSE UNCHANGED dispatch
    /\ UNCHANGED <<account, live, lock, exch, sent, work, rec>>

\* A guardrail breach found by an entry's checks trips the whole account.
RiskTrip(p, o) ==
    /\ CanEnter(p)
    /\ o \in Entries /\ account = "enabled" /\ live
    /\ WillDispatch(order[o])
    /\ account' = "exit_only"
    /\ CancelUnsent
    /\ UNCHANGED <<live, lock, exch, sent, work, rec>>

\* A skip decision taken outside the fence (busy, stale snapshot, no price, ...).
RecordSkip(o, soft) ==
    /\ order[o].status = "absent" \/ RetryableFailure(order[o])
    /\ order' = [order EXCEPT ![o] = Row("failed", FALSE, soft, @.oid, @.latest)]
    /\ UNCHANGED <<account, live, lock, dispatch, exch, sent, work, rec>>

\* A retry appends the next attempt in a transaction of its own ...
Append(p) ==
    /\ work[p].pc = "append"
    /\ LET o == work[p].o
           n == order[o].latest + 1
       IN IF n > MaxAttempts
          THEN Leave(p) /\ UNCHANGED <<order, dispatch>>
          ELSE /\ order' = [order EXCEPT ![o] = Row(@.status, @.transient, @.soft, @.oid, n)]
               /\ dispatch' = [dispatch EXCEPT ![o][n] = Attempt("pending", 0)]
               /\ work' = [work EXCEPT ![p] = [pc |-> "reset", o |-> o, n |-> n]]
               /\ UNCHANGED lock
    /\ UNCHANGED <<account, live, exch, sent, rec>>

\* ... and only the next one makes the order ready again.
Reset(p) ==
    /\ work[p].pc = "reset"
    /\ SetStatus(work[p].o, "ready")
    /\ Goto(p, "mark")
    /\ UNCHANGED <<account, live, lock, dispatch, exch, sent, rec>>

Close(p) ==
    /\ work[p].pc = "close"
    /\ SetAttempt(work[p].o, work[p].n, "completed")
    /\ Leave(p)
    /\ UNCHANGED <<account, live, order, exch, sent, rec>>

Mark(p) ==
    /\ work[p].pc = "mark"
    /\ LET o == work[p].o
           n == work[p].n
       IN /\ SetStatus(o, "submitting")
          /\ dispatch' = [dispatch EXCEPT ![o][n] = Attempt("dispatching", @.count + 1)]
    /\ Goto(p, "send")
    /\ UNCHANGED <<account, live, lock, exch, sent, rec>>

\* The request leaves in a thread that a cancellation of the worker does not stop.
Send(p) ==
    /\ work[p].pc = "send"
    /\ LET o == work[p].o
           n == work[p].n
       IN /\ exch' = [exch EXCEPT ![o][n] = IF @ = "none" THEN "wire" ELSE @]
          /\ sent' = [sent EXCEPT ![o][n] = @ + 1]
    /\ Goto(p, "wait")
    /\ UNCHANGED <<account, live, lock, order, dispatch, rec>>

\* The adapter refuses before anything is sent: configuration, leverage, market.
PreSubmitFailure(p, soft) ==
    /\ work[p].pc = "send"
    /\ order' = [order EXCEPT ![work[p].o] = WithFailure(@, soft)]
    /\ SetAttempt(work[p].o, work[p].n, "completed")
    /\ Leave(p)
    /\ UNCHANGED <<account, live, exch, sent, rec>>

\* order.status and exchange id after a reply to an attempt with this outcome.
Replies(e) ==
    CASE e = "open"     -> {"accepted", "submitted"}
      [] e = "canceled" -> {"accepted", "submitted"}
      [] e = "filled"   -> {"filled", "accepted", "submitted"}
      [] e = "partial"  -> {"filled"}
      [] e \in {"transient", "final"} -> {"rejected"}
      [] OTHER -> {}

Reply(p, status) ==
    /\ work[p].pc = "wait"
    /\ LET o == work[p].o
           n == work[p].n
           transient == exch[o][n] = "transient" /\ n < MaxAttempts
       IN /\ status \in Replies(exch[o][n])
          /\ order' = [order EXCEPT ![o] =
               Row(status, IF status = "rejected" THEN transient ELSE @.transient, @.soft,
                   @.oid \/ status \in {"filled", "accepted"},
                   @.latest)]
          /\ SetAttempt(o, n, "completed")
    /\ Leave(p)
    /\ UNCHANGED <<account, live, exch, sent, rec>>

\* A body that is no JSON object is filed like a refusal before the submit.
UnreadableReply(p) ==
    /\ work[p].pc = "wait"
    /\ exch[work[p].o][work[p].n] \notin {"none", "wire"}
    /\ order' = [order EXCEPT ![work[p].o] = WithFailure(@, FALSE)]
    /\ SetAttempt(work[p].o, work[p].n, "completed")
    /\ Leave(p)
    /\ UNCHANGED <<account, live, exch, sent, rec>>

\* Mutant of LoseReply: a timeout is filed as a failure that may be retried.
LoseReplyAsFailure(p) ==
    /\ work[p].pc = "wait"
    /\ order' = [order EXCEPT ![work[p].o] = WithFailure(@, TRUE)]
    /\ SetAttempt(work[p].o, work[p].n, "completed")
    /\ Leave(p)
    /\ UNCHANGED <<account, live, exch, sent, rec>>

\* Canceled in flight or timed out: the attempt is uncertain until looked up.
LoseReply(p) ==
    /\ work[p].pc = "wait"
    /\ order' = [order EXCEPT ![work[p].o] =
                   Row("uncertain", @.transient, FALSE, @.oid, @.latest)]
    /\ SetAttempt(work[p].o, work[p].n, "uncertain")
    /\ Leave(p)
    /\ UNCHANGED <<account, live, exch, sent, rec>>

-----------------------------------------------------------------------------
(* The exchange.                                                           *)

Deliver(o, n, e) ==
    /\ exch[o][n] = "wire"
    /\ exch' = [exch EXCEPT ![o][n] = e]
    /\ UNCHANGED <<account, live, lock, order, dispatch, sent, work, rec>>

Settle(o, n, e) ==
    /\ exch[o][n] = "open"
    /\ exch' = [exch EXCEPT ![o][n] = e]
    /\ UNCHANGED <<account, live, lock, order, dispatch, sent, work, rec>>

\* What orderStatus answers for a CLOID.
StatusOf(e) ==
    CASE e = "open"     -> {"accepted"}
      [] e = "filled"   -> {"filled"}
      [] e = "partial"  -> {"filled", "canceled"}
      [] e = "canceled" -> {"canceled"}
      [] e \in {"transient", "final"} -> {"rejected"}
      [] OTHER -> {"unknown"}

-----------------------------------------------------------------------------
(* Recovery: it holds no account fence while it looks an attempt up, and   *)
(* it writes the rows it read before the lookup (expire_on_commit=False).  *)

RecoverPick(o, n) ==
    /\ rec = Idle
    /\ dispatch[o][n].status \in {"pending", "dispatching", "uncertain"}
    /\ ~(dispatch[o][n].status = "pending" /\ order[o].status = "ready")
    /\ rec' = [pc |-> "ask", o |-> o, n |-> n, snap |-> order[o],
               dsnap |-> dispatch[o][n].status]
    /\ UNCHANGED <<account, live, lock, order, dispatch, exch, sent, work>>

\* A ready entry is canceled while live entry execution is switched off.
RecoverCancel(o, n) ==
    /\ rec = Idle
    /\ ~live /\ o \in Entries
    /\ dispatch[o][n].status = "pending" /\ order[o].status = "ready"
    /\ SetStatus(o, "canceled")
    /\ SetAttempt(o, n, "canceled")
    /\ UNCHANGED <<account, live, lock, exch, sent, work, rec>>

RecoverAsk(answer) ==
    /\ rec.pc = "ask"
    /\ answer \in StatusOf(exch[rec.o][rec.n]) \cup {"error"}
    /\ rec' = [pc |-> "write", o |-> rec.o, n |-> rec.n, snap |-> rec.snap,
               dsnap |-> rec.dsnap, seen |-> answer]
    /\ UNCHANGED <<account, live, lock, order, dispatch, exch, sent, work>>

\* The unit of work writes a column only where it differs from what was read.
Written(read, new, current) == IF read # new THEN new ELSE current

RecoverWrite ==
    /\ rec.pc = "write"
    /\ LET known == rec.seen \notin {"error", "unknown"}
           status == IF known THEN rec.seen ELSE "uncertain"
           dstatus == IF known THEN "completed" ELSE "uncertain"
       IN /\ order' = [order EXCEPT ![rec.o] =
               Row(Written(rec.snap.status, status, @.status), rec.snap.transient,
                   known /\ @.soft, @.oid \/ known, @.latest)]
          /\ SetAttempt(rec.o, rec.n,
               Written(rec.dsnap, dstatus, dispatch[rec.o][rec.n].status))
    /\ rec' = Idle
    /\ UNCHANGED <<account, live, lock, exch, sent, work>>

-----------------------------------------------------------------------------
(* Reconciliation of one order, under the fence.                           *)

ReconcileLookup(p, o, answer) ==
    /\ CanEnter(p)
    /\ order[o].latest > 0
    /\ LET n == order[o].latest
       IN /\ \/ order[o].status \in Active
                /\ answer \in StatusOf(exch[o][n]) \cup {"error"}
             \/ order[o].status \notin Active /\ answer = "error"
          /\ work' = [work EXCEPT ![p] =
                [pc |-> "write", o |-> o, n |-> n, snap |-> order[o],
                 dsnap |-> dispatch[o][n].status, seen |-> answer]]
    /\ lock' = p
    /\ UNCHANGED <<account, live, order, dispatch, exch, sent, rec>>

\* Mutant of Booked: imported fills do not reach the order.
BookedNothing(o, fills, status) == status

\* Fills the exchange reports are booked last and decide the status: a full
\* one makes the order filled, a partial one partially_filled unless filled.
Booked(o, fills, status) ==
    IF "filled" \in fills THEN "filled"
    ELSE IF "partial" \in fills /\ status # "filled" THEN "partially_filled"
    ELSE status

ReconcileWrite(p, imported) ==
    /\ work[p].pc = "write"
    /\ LET o == work[p].o
           n == work[p].n
           known == work[p].seen \notin {"error", "unknown"}
           fills == IF imported THEN {exch[o][m] : m \in Attempts} \cap {"filled", "partial"}
                                ELSE {}
           status == IF known THEN work[p].seen ELSE work[p].snap.status
           booked == Booked(o, fills, status)
       IN /\ order' = [order EXCEPT ![o] =
               Row(Written(work[p].snap.status, booked, @.status),
                   IF work[p].snap.status \in Active THEN work[p].snap.transient
                                                     ELSE @.transient,
                   @.soft, @.oid \/ known \/ fills # {}, @.latest)]
          /\ IF known /\ work[p].dsnap # "completed"
             THEN SetAttempt(o, n, "completed") ELSE UNCHANGED dispatch
    /\ Leave(p)
    /\ UNCHANGED <<account, live, exch, sent, rec>>

-----------------------------------------------------------------------------
(* Operator actions, crashes and restarts.                                 *)

\* Mutant of Stop: it does not wait for the account fence.
StopUnfenced ==
    /\ account' = "exit_only"
    /\ CancelUnsent
    /\ UNCHANGED <<live, lock, exch, sent, work, rec>>

\* The operator stops the account: entries that wait are canceled.
Stop ==
    /\ lock = NoWorker
    /\ account' = "exit_only"
    /\ CancelUnsent
    /\ UNCHANGED <<live, lock, exch, sent, work, rec>>

Start ==
    /\ lock = NoWorker
    /\ account = "exit_only"
    /\ account' = "enabled"
    /\ UNCHANGED <<live, lock, order, dispatch, exch, sent, work, rec>>

\* A worker is canceled (lost lease, shutdown) or dies between two commits.
Crash(p) ==
    /\ work[p] # Idle
    /\ Leave(p)
    /\ UNCHANGED <<account, live, order, dispatch, exch, sent, rec>>

\* A new deployment, possibly with live entry execution switched on or off.
Restart(enabled) ==
    /\ live' = enabled
    /\ lock' = NoWorker
    /\ work' = [p \in Workers |-> Idle]
    /\ rec' = Idle
    /\ UNCHANGED <<account, order, dispatch, exch, sent>>

Submit(p) ==
    \/ \E o \in Orders : Prepare(p, o) \/ Expire(p, o) \/ RiskTrip(p, o)
    \/ Append(p) \/ Reset(p) \/ Close(p) \/ Mark(p) \/ Send(p)
    \/ \E soft \in BOOLEAN : PreSubmitFailure(p, soft)
    \/ \E status \in Active \cup Terminal : Reply(p, status)
    \/ UnreadableReply(p) \/ LoseReply(p)

Reconcile(p) ==
    \/ \E o \in Orders, answer \in Answer : ReconcileLookup(p, o, answer)
    \/ \E imported \in BOOLEAN : ReconcileWrite(p, imported)

Recover ==
    \/ \E o \in Orders, n \in Attempts : RecoverPick(o, n) \/ RecoverCancel(o, n)
    \/ \E answer \in Answer : RecoverAsk(answer)
    \/ RecoverWrite

Exchange == \E o \in Orders, n \in Attempts :
    \/ \E e \in {"open", "filled", "partial", "transient", "final"} : Deliver(o, n, e)
    \/ \E e \in {"filled", "canceled"} : Settle(o, n, e)

Next ==
    \/ \E p \in Workers : Submit(p) \/ Reconcile(p) \/ Crash(p)
    \/ \E o \in Orders, soft \in BOOLEAN : RecordSkip(o, soft)
    \/ Recover
    \/ Exchange
    \/ Stop \/ Start
    \/ \E enabled \in BOOLEAN : Restart(enabled)

Spec == Init /\ [][Next]_vars

(* Fairness: loops keep running and calls time out, so a worker moves on    *)
(* (Advance), and no deployment is restarted at the same point for ever     *)
(* (SF).  Nothing is assumed of the operator, of the exchange's delivery or *)
(* of crashes.                                                              *)
Advance(p) ==
    \/ Append(p) \/ Reset(p) \/ Close(p) \/ Send(p) \/ LoseReply(p)
    \/ \E status \in Active \cup Terminal : Reply(p, status)

Fairness ==
    /\ \A p \in Workers : WF_vars(Advance(p)) /\ SF_vars(Mark(p))
    /\ \A o \in Orders :
          /\ SF_vars(\E p \in Workers : Prepare(p, o))
          /\ SF_vars(\E n \in Attempts : RecoverPick(o, n) \/ RecoverCancel(o, n))
          /\ SF_vars(\E p \in Workers, answer \in Answer : ReconcileLookup(p, o, answer))
    /\ SF_vars(\E p \in Workers : ReconcileWrite(p, TRUE))
    /\ SF_vars(\E answer \in Answer : RecoverAsk(answer)) /\ SF_vars(RecoverWrite)

FairSpec == Spec /\ Fairness
-----------------------------------------------------------------------------
(* Why an execution is never duplicated: the inductive invariant.          *)

Refused == {"none", "transient", "final"}
Submitting == {"append", "reset", "mark", "close", "send", "wait"}

\* Whoever is in the middle of something holds the fence ...
FenceHeld == \A p \in Workers : work[p] # Idle => lock = p

\* ... so a submission works on the latest attempt, and an entry's submission
\* runs while the account may still enter.
OnLatest == \A p \in Workers : work[p].pc \in Submitting =>
    /\ work[p].n = order[work[p].o].latest
    /\ work[p].o \in Entries => account = "enabled" /\ live

\* Attempts not yet created are unknown to the exchange; an attempt that was
\* never marked dispatching was never sent.
SentTracked == \A o \in Orders, n \in Attempts :
    /\ n > order[o].latest => exch[o][n] = "none"
    /\ dispatch[o][n].count = 0 => exch[o][n] = "none"
    /\ sent[o][n] = IF exch[o][n] = "none" THEN 0 ELSE 1

\* What the exchange can know at each point of a submission.
StepOutcome == \A p \in Workers : work[p].pc \in Submitting =>
    LET o == work[p].o
        n == work[p].n
    IN /\ work[p].pc = "append" => exch[o][n] \in Refused
       /\ work[p].pc \in {"reset", "mark", "send"} => exch[o][n] = "none"
       /\ work[p].pc = "send" => dispatch[o][n].count > 0
       /\ work[p].pc \in {"send", "wait"} =>
             /\ order[o].status \notin {"absent", "ready"}
             /\ order[o].status \in {"rejected", "failed"} => order[o].oid

\* Rows a retry may start from, now or after a lookup brings an old reject back.
Retriable(row) ==
    ~row.oid /\ (row.status = "rejected" \/ (row.status = "failed" /\ row.soft))

\* What such a row says about the exchange.
StatusOutcome == \A o \in Orders :
    /\ order[o].status = "absent" => order[o].latest = 0
    /\ order[o].status = "ready" =>
          order[o].latest > 0 /\ exch[o][order[o].latest] = "none"
    /\ Retriable(order[o]) /\ order[o].latest > 0 => exch[o][order[o].latest] \in Refused

\* Attempts that a later one superseded.
SupersededRefused == \A o \in Orders, n \in Attempts :
    n < order[o].latest => exch[o][n] \in Refused

-----------------------------------------------------------------------------
(* Properties.                                                             *)

\* The rows, the workers and the exchange always hold values of these shapes.
TypeOK ==
    /\ account \in {"enabled", "exit_only"}
    /\ live \in BOOLEAN
    /\ lock \in Workers \cup {NoWorker}
    /\ order \in [Orders -> OrderRow]
    /\ dispatch \in [Orders -> [Attempts -> DispatchRow]]
    /\ exch \in [Orders -> [Attempts -> Outcome]]
    /\ sent \in [Orders -> [Attempts -> Nat]]
    /\ work \in [Workers -> {Idle} \cup Submission \cup Answered]
    /\ rec \in {Idle} \cup Lookup \cup Answered

\* A retry never duplicates an execution: once a later attempt of an order
\* exists, no earlier one can still execute or have executed at the exchange.
AtMostOneExecution ==
    \A o \in Orders, n \in Attempts : n < order[o].latest => exch[o][n] \in Refused

\* Every attempt's CLOID is submitted at most once, across workers and crashes.
SentOnce == \A o \in Orders, n \in Attempts : sent[o][n] <= 1

\* No entry leaves for the exchange once the account has left "enabled" or
\* live entry execution is off, however late the submission started.
EntryFence ==
    [][\A o \in Entries, n \in Attempts :
         sent'[o][n] # sent[o][n] => account = "enabled" /\ live]_vars

\* An execution at the exchange ends up in the order row, whatever was lost.
ExecutionIsBooked ==
    \A o \in Orders :
        (\E n \in Attempts : exch[o][n] = "filled") ~> order[o].status = "filled"

\* The outbox drains: a committed ready order is dispatched or canceled.
OutboxDrains == \A o \in Orders : order[o].status = "ready" ~> order[o].status # "ready"

\* What of an order's attempts its caller can tell: those that reached the network, ...
Attempted(o) == {n \in Attempts : exch[o][n] # "none"}

\* ... and whether one of them is undecided or was taken on by the exchange.
Phase(o) ==
    IF \E n \in Attempts : exch[o][n] \notin Refused \cup {"wire"} THEN "taken"
    ELSE IF \E n \in Attempts : exch[o][n] = "wire" THEN "asked" ELSE "free"

Promise == INSTANCE SingleExecution WITH
    used <- [o \in Orders |-> Attempted(o)],
    phase <- [o \in Orders |-> Phase(o)]

\* The dispatcher keeps the promise of SingleExecution: the attempts of an order
\* reach the network one after the other under increasing numbers, a new one only
\* after a refusal, and at most one of them is ever taken on by the exchange.
KeepsPromise == Promise!Spec

\* The inductive invariant holds in every reachable state: between two steps of
\* any worker the fence, the attempt numbers and the exchange agree.
DispatchInv ==
    /\ TypeOK
    /\ FenceHeld
    /\ OnLatest
    /\ SentTracked
    /\ StepOutcome
    /\ StatusOutcome
    /\ SupersededRefused

=============================================================================
