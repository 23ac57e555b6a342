---------------------------- MODULE LiveAccount ----------------------------
(***************************************************************************)
(* The life of one live account: start, stop, disable, archive, close-all  *)
(* with its items and its resumption, closing a position by hand, and the  *)
(* reconciliation that all of them rest on.                                *)
(*                                                                         *)
(* A market is a scope of its own: it is read from the exchange or it is   *)
(* not.  A position is there or it is not; sizes belong to module          *)
(* LiveLedger.  The job locks live_close_all:<account> and                 *)
(* live_execution:<account> are exclusive, and come back when their holder *)
(* dies (module JobLock).                                                  *)
(***************************************************************************)
EXTENDS Naturals, FiniteSets

CONSTANTS
    Coins,              \* markets, each a scope of reconciliation
    Tasks,              \* requests and loops that run at the same time
    Free,               \* a lock that nobody holds
    Slots               \* order rows kept apart; a settled one is used again

ASSUME AccountAssumption == Free \notin Tasks /\ Slots \subseteq Nat \ {0}

VARIABLES
    status,     \* trading_accounts.status
    archived,   \* trading_accounts.archived_at is set
    fresh,      \* the last reconciliation attempt was complete, and not long ago
    rows,       \* markets with a trading_positions row of the exchange
    held,       \* markets with a position at the exchange
    order,      \* trading_orders, with what became of the request
    closing,    \* a trading_close_all_operations row is not completed
    item,       \* its trading_close_all_items
    outer,      \* holder of live_close_all:<account>
    fence,      \* holder of live_execution:<account>
    work        \* what each task is in the middle of

vars == <<status, archived, fresh, rows, held, order, closing, item, outer,
          fence, work>>
----------------------------------------------------------------------------
Unsettled == {"submitting", "uncertain"}

(* TERMINAL_ORDER_STATUSES, alike here.                                    *)
NoOrder == [entry |-> FALSE, coin |-> "none", status |-> "settled", wire |-> "none"]
SettleRaw(o) == [o EXCEPT !.status = o.wire]
Settle(o) == IF o.wire = "sent" THEN [o EXCEPT !.status = "settled"] ELSE NoOrder
NoItem == [status |-> "none", order |-> 0]

(* kind is what was asked for and round counts its reconciliations.  asked  *)
(* are the orders whose rows the open transaction has written, found those *)
(* whose outcome it knows; snap are the positions of the scopes it read;   *)
(* clean that no other component failed.  todo, at and slot belong to the  *)
(* submission of closes.  moved: lifecycle_version is not what start saw.  *)
Idle == [kind |-> "none", pc |-> "idle", round |-> 0, asked |-> {}, found |-> {},
         scopes |-> {}, snap |-> {}, clean |-> TRUE, todo |-> {}, at |-> "none",
         slot |-> 0, moved |-> FALSE, stopped |-> FALSE, late |-> FALSE]

TypeOK ==
    /\ status \in {"disabled", "enabled", "exit_only"}
    /\ archived \in BOOLEAN
    /\ fresh \in BOOLEAN /\ closing \in BOOLEAN
    /\ rows \subseteq Coins /\ held \subseteq Coins
    /\ \A s \in Slots : order[s].status \in Unsettled \cup {"settled"}
    /\ \A c \in Coins : item[c].status \in {"none", "submitting", "uncertain", "settled"}
    /\ outer \in Tasks \cup {Free} /\ fence \in Tasks \cup {Free}
    /\ \A t \in Tasks : work[t].found \subseteq Slots /\ work[t].todo \subseteq Coins

Init ==
    /\ status = "disabled" /\ archived = FALSE /\ fresh = FALSE
    /\ rows = {} /\ held = {}
    /\ order = [s \in Slots |-> NoOrder]
    /\ closing = FALSE /\ item = [c \in Coins |-> NoItem]
    /\ outer = Free /\ fence = Free
    /\ work = [t \in Tasks |-> Idle]

account == <<status, archived, fresh>>
operation == <<closing, item>>
locks == <<outer, fence>>
----------------------------------------------------------------------------
MovedNot(w) == w

(* apply_live_account_status: every application counts the version up, which *)
(* a start that is between its two sections notices.                       *)
Moved(w) == [t \in Tasks |-> [w[t] EXCEPT !.moved = @ \/ w[t].pc = "between"]]

(* The operator, or a rule, took the account out of trading.               *)
Stopped(w) == [t \in Tasks |-> [w[t] EXCEPT !.stopped = @ \/ w[t].pc = "between"]]

PendingOrders == {s \in Slots : order[s].status \in Unsettled}

Go(t, pc) == [work EXCEPT ![t].pc = pc]
Gone(t) == [work EXCEPT ![t] = Idle]
Drop(lock, t) == IF lock = t THEN Free ELSE lock
----------------------------------------------------------------------------
(* run_live_trading_account_reconciliation, by whoever holds the fence.    *)
ReconcileFrom(t, w) == [w EXCEPT
    ![t].pc = "orders", ![t].round = @ + 1, ![t].asked = {}, ![t].found = {},
    ![t].scopes = {}, ![t].snap = {}, ![t].clean = TRUE, ![t].late = FALSE]

(* reconcile_live_order_statuses and fetch_live_fills_by_time: an order     *)
(* whose attempt was looked up less than 30 s ago is not asked for, an     *)
(* answer may be an error; the fills know every order that was executed,   *)
(* unless they, or another component, fail.                                *)
ReadOrders(t) ==
    /\ work[t].pc = "orders"
    /\ \E asked \in SUBSET PendingOrders, clean \in BOOLEAN :
         LET done == {s \in PendingOrders : order[s].wire = "done"}
         IN /\ \A s \in PendingOrders \ asked : order[s].status = "uncertain"
            /\ \E found \in SUBSET (done \cup {s \in asked : order[s].wire = "refused"}) :
                 /\ clean => done \subseteq found
                 /\ work' = [work EXCEPT ![t].pc = "positions", ![t].asked = asked,
                                        ![t].found = found, ![t].clean = clean]
    /\ UNCHANGED <<account, rows, held, order, operation, locks>>

(* fetch_live_perp_states: each scope answers or fails by itself.          *)
FetchPositions(t) ==
    /\ work[t].pc = "positions"
    /\ \E scopes \in SUBSET Coins :
         work' = [work EXCEPT ![t].pc = "apply", ![t].scopes = scopes,
                              ![t].snap = held \cap scopes]
    /\ UNCHANGED <<account, rows, held, order, operation, locks>>

(* reconcile_live_positions: only a scope that answered adds or removes.   *)
ReconciledRows(t) == (rows \ work[t].scopes) \cup work[t].snap

ReconciledOrders(t) ==
    [s \in Slots |->
        IF s \in work[t].found \cap PendingOrders
        THEN Settle(order[s]) ELSE order[s]]

(* reconciliation_component_errors over the orders still unresolved at the *)
(* end: complete only if nothing is left open.                             *)
CompleteAnyScope(t) ==
    work[t].clean /\ \A s \in Slots : ReconciledOrders(t)[s].status \notin Unsettled

Complete(t) ==
    /\ work[t].clean
    /\ work[t].scopes = Coins
    /\ \A s \in Slots : ReconciledOrders(t)[s].status \notin Unsettled

(* Where the caller goes on: a start gives both locks back for its second  *)
(* section, disable and archive keep them, the others only had the fence.  *)
After(t) ==
    CASE work[t].kind = "start" -> IF Complete(t) THEN "between" ELSE "idle"
      [] work[t].kind \in {"disable", "delete"} -> "finish"
      [] work[t].kind = "close" -> IF work[t].round = 1 THEN "list" ELSE "closing"
      [] work[t].kind = "manual" -> CASE work[t].round = 2 -> "recovered"
                                      [] work[t].at \in ReconciledRows(t) -> "send"
                                      [] OTHER -> "idle"
      [] OTHER -> "idle"

ApplyReconciliation(t) ==
    /\ work[t].pc = "apply"
    /\ order' = ReconciledOrders(t)
    /\ rows' = ReconciledRows(t)
    /\ item' = [c \in Coins |-> IF c \in rows \ rows' THEN NoItem ELSE item[c]]
    /\ fresh' = Complete(t)
    /\ LET next == IF After(t) = "idle" THEN Gone(t)
                   ELSE [Go(t, After(t)) EXCEPT ![t].clean = fresh',
                            ![t].asked = {}, ![t].found = {}, ![t].scopes = {},
                            ![t].snap = {}]
           exposed == status = "disabled" /\ rows' # {}
       IN /\ status' = IF exposed THEN "exit_only" ELSE status
          /\ work' = IF exposed THEN Moved(next) ELSE next
    /\ fence' = IF work[t].kind \in {"disable", "delete"} THEN fence ELSE Free
    /\ outer' = IF work[t].kind = "start" THEN Free ELSE outer
    /\ UNCHANGED <<archived, held, closing>>

(* mark_live_reconciliation_run_failed: everything read is rolled back, and *)
(* the caller gives up; a close-all records that it failed, which leaves it *)
(* as incomplete as any.                                                   *)
FailReconciliation(t) ==
    /\ work[t].pc \in {"orders", "positions", "apply"}
    /\ fresh' = FALSE
    /\ work' = Gone(t) /\ fence' = Drop(fence, t) /\ outer' = Drop(outer, t)
    /\ UNCHANGED <<status, archived, rows, held, order, operation>>

(* reconcile_live_trading_account: takes the fence, or is refused (409).   *)
TakeFence(t) ==
    /\ work[t].pc = "lock"
    /\ IF fence = Free
       THEN /\ fence' = t /\ work' = ReconcileFrom(t, work)
            /\ UNCHANGED outer
       ELSE /\ work' = Gone(t) /\ outer' = Drop(outer, t)
            /\ UNCHANGED fence
    /\ UNCHANGED <<account, rows, held, order, operation>>

(* The reconciliation loop and the route that asks for one.                *)
ReconcileLoop(t) ==
    /\ work[t].pc = "idle" /\ fence = Free /\ ~archived
    /\ fence' = t
    /\ work' = ReconcileFrom(t, [work EXCEPT ![t].kind = "loop"])
    /\ UNCHANGED <<account, rows, held, order, operation, outer>>

(* last_reconciled_at passes the maximum snapshot age.                     *)
Age ==
    /\ fresh /\ fresh' = FALSE
    /\ UNCHANGED <<status, archived, rows, held, order, operation, locks, work>>
----------------------------------------------------------------------------
(* Start: a complete reconciliation, both locks given back, both taken     *)
(* again, and the version compared.                                        *)
StartAccount(t) ==
    /\ work[t].pc = "idle" /\ outer = Free /\ fence = Free /\ ~archived
    /\ outer' = t /\ fence' = t
    /\ work' = ReconcileFrom(t, [work EXCEPT ![t].kind = "start"])
    /\ UNCHANGED <<account, rows, held, order, operation>>

MayStartWhileClosing(t) ==
    outer = Free /\ fence = Free /\ ~work[t].moved /\ ~archived /\ fresh

MayStart(t) ==
    /\ outer = Free /\ fence = Free
    /\ ~work[t].moved /\ ~archived /\ fresh
    /\ status = "enabled" \/ ~closing

Enable(t) ==
    /\ work[t].pc = "between"
    /\ IF MayStart(t)
       THEN status' = "enabled" /\ work' = Moved(Gone(t))
       ELSE status' = status /\ work' = Gone(t)
    /\ UNCHANGED <<archived, fresh, rows, held, order, operation, locks>>

(* stop_live_trading_account.                                              *)
Stop ==
    /\ fence = Free
    /\ status' = IF status = "disabled" THEN "disabled" ELSE "exit_only"
    /\ work' = Stopped(Moved(work))
    /\ UNCHANGED <<archived, fresh, rows, held, order, operation, locks>>

(* set_live_trading_account_status takes no lock.                          *)
SetExitOnly ==
    /\ status' = "exit_only" /\ work' = Stopped(Moved(work))
    /\ UNCHANGED <<archived, fresh, rows, held, order, operation, locks>>

(* Disable and archive: both locks are held over a reconciliation, and what *)
(* it found decides.                                                       *)
DisableAccount(t) ==
    /\ work[t].pc = "idle" /\ outer = Free /\ fence = Free
    /\ outer' = t /\ fence' = t
    /\ LET begun == ReconcileFrom(t, [work EXCEPT ![t].kind = "disable"])
       IN IF status = "enabled"
          THEN status' = "exit_only" /\ work' = Stopped(Moved(begun))
          ELSE status' = status /\ work' = begun
    /\ UNCHANGED <<archived, fresh, rows, held, order, operation>>

DeleteAccount(t) ==
    /\ work[t].pc = "idle" /\ outer = Free /\ fence = Free /\ ~archived
    /\ outer' = t /\ fence' = t
    /\ work' = ReconcileFrom(t, [work EXCEPT ![t].kind = "delete"])
    /\ UNCHANGED <<account, rows, held, order, operation>>

NoPendingWork == PendingOrders = {} /\ ~closing

(* validate_live_account_can_be_removed.                                   *)
MayRemove == status = "disabled" /\ fresh /\ rows = {} /\ NoPendingWork

MayFinish(t) ==
    IF work[t].kind = "delete" THEN MayRemove
    ELSE work[t].clean /\ rows = {} /\ NoPendingWork

Finish(t) ==
    /\ work[t].pc = "finish"
    /\ outer' = Free /\ fence' = Free
    /\ IF MayFinish(t)
       THEN /\ status' = "disabled" /\ work' = Stopped(Moved(Gone(t)))
            /\ archived' = (archived \/ work[t].kind = "delete")
       ELSE /\ work' = Gone(t)
            /\ UNCHANGED <<status, archived>>
    /\ UNCHANGED <<fresh, rows, held, order, operation>>

(* create_live_trading_account on the route of an archived account.        *)
Restore ==
    /\ archived /\ archived' = FALSE
    /\ status' = "disabled" /\ work' = Moved(work)
    /\ UNCHANGED <<fresh, rows, held, order, operation, locks>>
----------------------------------------------------------------------------
(* close_all_live_account_positions, by the route or, for an operation that *)
(* did not end, by resume_live_close_all_operations.                       *)
CloseAll(t) ==
    /\ work[t].pc = "idle" /\ outer = Free /\ fence = Free
    /\ outer' = t
    /\ LET begun == [work EXCEPT ![t].kind = "close", ![t].pc = "open"]
       IN IF status # "exit_only"
          THEN status' = "exit_only" /\ work' = Stopped(Moved(begun))
          ELSE status' = status /\ work' = begun
    /\ UNCHANGED <<archived, fresh, rows, held, order, operation, fence>>

(* get_or_create_live_close_all_operation: what did not end goes on with    *)
(* its items, a new operation starts without any.                          *)
OperationItems == IF closing THEN item ELSE [c \in Coins |-> NoItem]

OpenOperation(t) ==
    /\ work[t].pc = "open"
    /\ closing' = TRUE
    /\ item' = OperationItems
    /\ work' = Go(t, "lock")
    /\ UNCHANGED <<account, rows, held, order, locks>>

(* refresh_live_close_all_items, close_all_item_status_for_order.          *)
Refreshed == [c \in Coins |->
    IF item[c].order = 0 THEN item[c]
    ELSE [item[c] EXCEPT !.status =
            IF order[item[c].order].status \in Unsettled THEN "uncertain" ELSE "settled"]]

(* complete_live_close_all_operation and the partial ends around it.       *)
EndOperation(t) ==
    /\ outer' = Drop(outer, t)
    /\ IF rows = {} /\ work[t].clean /\ PendingOrders = {}
       THEN /\ status' = "disabled" /\ closing' = FALSE
            /\ work' = Stopped(Moved(Gone(t)))
       ELSE status' = status /\ closing' = closing /\ work' = Gone(t)
    /\ UNCHANGED <<archived, fresh, rows, held, order, fence>>

ListPositions(t) ==
    /\ work[t].pc = "list" /\ item' = Refreshed
    /\ IF rows = {}
       THEN EndOperation(t)
       ELSE /\ work' = [work EXCEPT ![t].pc = "next", ![t].todo = rows]
            /\ UNCHANGED <<account, rows, held, order, closing, locks>>

CheckFlat(t) ==
    work[t].pc = "closing" /\ item' = Refreshed /\ EndOperation(t)

(* One position after the other; after the last the account is reconciled  *)
(* again.  An uncertain item is left alone, a missing price fails it.      *)
Passed(w, t) == [w EXCEPT ![t].pc = IF w[t].todo = {} THEN "lock" ELSE "next"]

NextItem(t) ==
    /\ work[t].pc = "next"
    /\ \E c \in work[t].todo :
         LET left == [work EXCEPT ![t].todo = @ \ {c}]
         IN \/ /\ item[c].status = "uncertain"
               /\ work' = Passed(left, t) /\ item' = item
            \/ /\ item[c].status # "uncertain"
               /\ work' = Passed(left, t)
               /\ item' = [item EXCEPT ![c].status = "settled"]
            \/ /\ item[c].status # "uncertain"
               /\ work' = [left EXCEPT ![t].pc = "send", ![t].at = c]
               /\ item' = [item EXCEPT ![c].status = "submitting"]
    /\ UNCHANGED <<account, rows, held, order, closing, locks>>

(* The item is booked in a transaction of its own.                         *)
BookItem(t) ==
    /\ work[t].pc = "book"
    /\ LET s == work[t].slot
       IN item' = [item EXCEPT ![work[t].at] =
              [order |-> s, status |->
                 IF s # 0 /\ s \in PendingOrders THEN "uncertain" ELSE "settled"]]
    /\ work' = Passed([work EXCEPT ![t].slot = 0, ![t].at = "none"], t)
    /\ UNCHANGED <<account, rows, held, order, closing, locks>>
----------------------------------------------------------------------------
(* close_live_account_position, by hand.                                   *)
ManualClose(t) ==
    /\ work[t].pc = "idle"
    /\ \E c \in rows :
         LET begun == [work EXCEPT ![t].kind = "manual", ![t].pc = "lock", ![t].at = c]
         IN IF status = "disabled"
            THEN fence = Free /\ status' = "exit_only" /\ work' = Stopped(Moved(begun))
            ELSE status' = status /\ work' = begun
    /\ UNCHANGED <<archived, fresh, rows, held, order, operation, locks>>

(* recover_manual_live_close_after_submit_error: the row of the position is *)
(* gone, so the close counts as filled.                                    *)
RecoverManual(t) ==
    /\ work[t].pc = "recovered"
    /\ LET s == work[t].slot
       IN order' = IF s # 0 /\ order[s].status \in Unsettled /\ work[t].at \notin rows
                   THEN [order EXCEPT ![s] = Settle(@)] ELSE order
    /\ work' = Gone(t)
    /\ UNCHANGED <<account, rows, held, operation, locks>>

(* A row that is settled and that nobody looks at any more.                *)
Unused(s) ==
    /\ s \notin PendingOrders /\ order[s].wire # "sent"
    /\ \A c \in Coins : item[c].order # s
    /\ \A u \in Tasks : work[u].slot # s

Request(t, s, c, entry) ==
    /\ Unused(s)
    /\ order' = [order EXCEPT ![s] = [entry |-> entry, coin |-> c,
                                     status |-> "submitting", wire |-> "sent"]]
    /\ work' = [work EXCEPT ![t].pc = "reply", ![t].slot = s,
                           ![t].kind = IF @ = "none" THEN "trade" ELSE @]
    /\ fence' = t

(* submit_live_trade_intent: a close of the two operations.  Without the   *)
(* fence there is no order.                                                *)
SendClose(t) ==
    /\ work[t].pc = "send"
    /\ IF fence = Free /\ status # "disabled"
       THEN \E s \in Slots : Request(t, s, work[t].at, FALSE)
       ELSE /\ work' = IF work[t].kind = "close" THEN Go(t, "book") ELSE Gone(t)
            /\ UNCHANGED <<fence, order>>
    /\ UNCHANGED <<account, rows, held, operation, outer>>

(* The same, by the consumer of the copy work.                             *)
TradeOrder(t) ==
    /\ work[t].pc = "idle" /\ fence = Free
    /\ \E s \in Slots, c \in Coins, entry \in BOOLEAN :
         /\ IF entry THEN status = "enabled" ELSE status # "disabled" /\ c \in rows
         /\ Request(t, s, c, entry)
    /\ UNCHANGED <<account, rows, held, operation, outer>>

(* trip_live_account_risk, by the check before an entry.                   *)
RiskTrip ==
    /\ fence = Free /\ status = "enabled"
    /\ status' = "exit_only" /\ work' = Stopped(Moved(work))
    /\ UNCHANGED <<archived, fresh, rows, held, order, operation, locks>>

(* The answer, or none: then the outcome is unknown.                       *)
Reply(t) ==
    /\ work[t].pc = "reply"
    /\ LET s == work[t].slot
       IN \/ /\ order[s].wire # "sent"
             /\ order' = [order EXCEPT ![s] = Settle(@)]
          \/ order' = [order EXCEPT ![s].status = "uncertain"]
    /\ work' = CASE work[t].kind = "trade" -> Gone(t)
                 [] work[t].kind = "close" -> Go(t, "book")
                 [] OTHER -> Go(t, "lock")
    /\ fence' = Free
    /\ UNCHANGED <<account, rows, held, operation, outer>>

(* recover_live_order_dispatches, which does not take the fence: not for a *)
(* row that another transaction has written or that is on its way.         *)
Recover(s) ==
    /\ s \in PendingOrders
    /\ \A t \in Tasks : s \notin work[t].asked /\ ~(work[t].pc = "reply" /\ work[t].slot = s)
    /\ order' = [order EXCEPT ![s] = IF order[s].wire = "sent"
                                    THEN [@ EXCEPT !.status = "uncertain"] ELSE Settle(@)]
    /\ UNCHANGED <<account, rows, held, operation, locks, work>>
----------------------------------------------------------------------------
(* The exchange.  A close only reduces: without a position it is refused.  *)
Later == [t \in Tasks |-> [work[t] EXCEPT !.late = @ \/
    (work[t].round > 0 /\ work[t].pc \notin {"lock", "orders", "positions"})]]

Execute(s) ==
    /\ order[s].wire = "sent"
    /\ LET c == order[s].coin
       IN IF order[s].entry
          THEN /\ held' = held \cup {c} /\ work' = Later
               /\ order' = [order EXCEPT ![s].wire = "done"]
          ELSE /\ held' = held \ {c} /\ work' = work
               /\ order' = [order EXCEPT ![s].wire = IF c \in held THEN "done" ELSE "refused"]
    /\ UNCHANGED <<account, rows, operation, locks>>

Refuse(s) ==
    /\ order[s].wire = "sent"
    /\ order' = [order EXCEPT ![s].wire = "refused"]
    /\ UNCHANGED <<account, rows, held, operation, locks, work>>

OpenOutside(c) ==
    /\ c \notin held /\ held' = held \cup {c} /\ work' = Later
    /\ UNCHANGED <<account, rows, order, operation, locks>>

CloseOutside(c) ==
    /\ c \in held /\ held' = held \ {c}
    /\ UNCHANGED <<account, rows, order, operation, locks, work>>

(* The process of a task ends; a close-all that is only told to stop still *)
(* records that it failed.                                                 *)
Crash(t) ==
    /\ work[t].pc # "idle"
    /\ work' = Gone(t) /\ outer' = Drop(outer, t) /\ fence' = Drop(fence, t)
    /\ UNCHANGED <<account, rows, held, order, operation>>

Reconcile(t) ==
    ReadOrders(t) \/ FetchPositions(t) \/ ApplyReconciliation(t) \/ FailReconciliation(t)

Proceed(t) ==
    TakeFence(t) \/ Enable(t) \/ Finish(t) \/ OpenOperation(t) \/ ListPositions(t)
        \/ CheckFlat(t) \/ NextItem(t) \/ BookItem(t) \/ RecoverManual(t)
        \/ SendClose(t) \/ Reply(t)

Begin(t) ==
    ReconcileLoop(t) \/ StartAccount(t) \/ DisableAccount(t) \/ DeleteAccount(t)
        \/ CloseAll(t) \/ ManualClose(t) \/ TradeOrder(t)

Next ==
    \/ \E t \in Tasks : Begin(t) \/ Reconcile(t) \/ Proceed(t) \/ Crash(t)
    \/ Stop \/ SetExitOnly \/ RiskTrip \/ Restore \/ Age
    \/ \E s \in Slots : Recover(s) \/ Execute(s) \/ Refuse(s)
    \/ \E c \in Coins : OpenOutside(c) \/ CloseOutside(c)

Spec == Init /\ [][Next]_vars
----------------------------------------------------------------------------
HoldsOuter(t) ==
    \/ work[t].kind \in {"close", "disable", "delete"}
    \/ work[t].kind = "start" /\ work[t].pc # "between"

HoldsFence(t) == work[t].pc \in {"orders", "positions", "apply", "finish", "reply"}

(* No two tasks are ever inside the same lock: a close-all gives the fence *)
(* up between its steps, and every task takes back what it works under.    *)
LocksHeld ==
    \A t \in Tasks : (HoldsOuter(t) => outer = t) /\ (HoldsFence(t) => fence = t)

(* While a close-all is open the account does not open exposure: a start   *)
(* that looked before it, or between its two sections, does not enable it. *)
NotEnabledWhileClosing == closing => status # "enabled"

EnabledUnstopped ==
    (status # "enabled" /\ status' = "enabled")
      => \E t \in Tasks : /\ work[t].pc = "between" /\ work'[t] = Idle
                          /\ ~work[t].stopped

(* A start never undoes what the operator or a rule did while it was       *)
(* between its two sections.                                               *)
StartHonorsStop == [][EnabledUnstopped]_vars

DisabledFlat ==
    (status # "disabled" /\ status' = "disabled" /\ held # {} /\ ~archived)
      => \E t \in Tasks : work[t].late /\ work'[t] = Idle

(* The account is only disabled flat: a position that is there anyway      *)
(* turned up after the reconciliation read the market.                     *)
DisabledIsFlat == [][DisabledFlat]_vars
============================================================================
