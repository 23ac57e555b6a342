---------------------------- MODULE LiveCopyLane ----------------------------
(***************************************************************************)
(* One lane of live copying: one live account, one source wallet, one      *)
(* coin.  Source fills arrive in any order and become work items; the one  *)
(* consumer of the queue plans each fill, decides its parts in the order   *)
(* of the lane and links every decision to the order row it produced,      *)
(* while reconciliation moves the orders and the operator selects,         *)
(* deselects, starts and stops.                                            *)
(*                                                                         *)
(* The trading lease leaves one consumer at a time (WorkerLease).  How an  *)
(* order reaches the exchange is LiveOrderDispatch; here it is only "live" *)
(* while its effect is unknown or incomplete.  Time is abstract: every     *)
(* backoff and every claim timeout may have passed or not.                 *)
(***************************************************************************)
EXTENDS Naturals, Sequences

CONSTANTS
    Fills,          \* source fills of the lane, numbered in the order of source_fill_order_key
    Plan,           \* plan_source_fill: per fill a sequence of [action, side]
    Stale,          \* fills that were too old for an entry when first observed
    MaxChanges,     \* bound: selections, deselections, starts and stops
    Flat,           \* there is no copied position
    Committed       \* the consumer's session has written nothing since its last commit

EntryActions == {"open", "add", "flip_open"}     \* "add": an open part that continues a position
ExitActions == {"close", "flip_close"}
Sides == {"long", "short"}

ASSUME LaneAssumption ==
    /\ Fills \subseteq Nat \ {0}
    /\ \A f \in Fills :
          /\ Len(Plan[f]) \in Nat \ {0}
          /\ \A i \in 1..Len(Plan[f]) : Plan[f][i] \in [action : EntryActions \cup ExitActions, side : Sides]
    /\ Stale \subseteq Fills
    /\ MaxChanges \in Nat
    /\ Flat \notin [side : Sides, fill : Fills]

Parts == UNION {{f} \X (1..Len(Plan[f])) : f \in Fills}

VARIABLES
    enabled,    \* trading_accounts.status: enabled, otherwise exit_only
    selected,   \* the source's allocation is active
    renewed,    \* ... and its epoch is newer than the lane's activation
    lane,       \* live_copy_source_states: status and entry_eligible
    changes,    \* number of operator actions so far
    stored,     \* fills in wallet_fills
    since,      \* ... of the current selection epoch
    fresh,      \* ... at or after the lane's activated_at
    work,       \* live_copy_work.status
    part,       \* live_copy_fill_states.outcome
    linked,     \* parts with a trading_order_id
    complete,   \* fills with a row whose fill_complete is true
    order,      \* trading_orders: the row of each part
    position,   \* trading_positions: side and opening fill
    pc, cur, at,    \* the consumer: where it is, its fill, the index of its part
    undo            \* rows as they were at its last commit

operator == <<enabled, selected, renewed, lane, changes>>
intake == <<stored, since, fresh, work>>
rows == <<part, linked, complete>>
market == <<order, position>>
job == <<pc, cur, at, undo>>
vars == <<enabled, selected, renewed, lane, changes, stored, since, fresh, work,
          part, linked, complete, order, position, pc, cur, at, undo>>

(***************************************************************************)
(* Reading the rows.  "processing" is the retryable outcome of a claim.    *)
(***************************************************************************)
Undecided == {"pending", "processing", "retryable"}
Decided == {"order", "skip", "ignored"}

IsEntry(p) == Plan[p[1]][p[2]].action \in EntryActions
Adds(p) == Plan[p[1]][p[2]].action = "add"
Side(p) == Plan[p[1]][p[2]].side
Earlier(q, p) == q[1] < p[1] \/ (q[1] = p[1] /\ q[2] < p[2])
Open(p) == part[p] \in Undecided
AllDecided(f) == \A p \in Parts : p[1] = f => part[p] \in Decided

Holds(p) == position # Flat /\ position.side = Side(p)

\* Only an order that its part is linked to is an obstacle.
Unfinished(q) ==
    \/ Open(q) /\ q[1] \notin complete
    \/ q \in linked /\ order[q] = "live"

Blocked(p) == \E q \in Parts : Earlier(q, p) /\ Unfinished(q)

Continues(p) == Adds(p) /\ Holds(p) /\ position.fill < p[1]

\* A part of a source position that the account does not copy.
Unowned(p) ==
    IF Holds(p)
      THEN Plan[p[1]][p[2]].action # "flip_open" /\ position.fill >= p[1]
      ELSE ~IsEntry(p) \/ (Adds(p) /\ position = Flat)

HasLive == \E p \in Parts : order[p] = "live"
Owned ==
    \/ position # Flat
    \/ HasLive
    \/ \E p \in Parts : ~IsEntry(p) /\ Open(p) /\ p[1] \notin complete
Chosen == enabled /\ selected

Init ==
    /\ enabled = TRUE /\ selected = TRUE /\ renewed = FALSE
    /\ lane = "eligible" /\ changes = 0
    /\ stored = {} /\ since = {} /\ fresh = {}
    /\ work = [f \in Fills |-> "none"]
    /\ part = [p \in Parts |-> "absent"]
    /\ linked = {} /\ complete = {}
    /\ order = [p \in Parts |-> "none"]
    /\ position = Flat
    /\ pc = "idle" /\ cur = 0 /\ at = 1
    /\ undo = Committed

(***************************************************************************)
(* The session's transaction: rows written and not yet committed.  It      *)
(* holds the account's lifecycle lock, so that lifecycle changes wait.     *)
(***************************************************************************)
Begin == undo' = IF undo = Committed
                   THEN [part |-> part, linked |-> linked, complete |-> complete, order |-> order]
                   ELSE undo
Commit == undo' = Committed
Unlocked == undo = Committed

\* An order row that the transaction wrote was absent or retryable before.
Rollback ==
    /\ Commit
    /\ IF undo = Committed THEN UNCHANGED <<rows, order>>
       ELSE /\ part' = undo.part /\ linked' = undo.linked /\ complete' = undo.complete
            /\ order' = [p \in Parts |-> IF undo.order[p] \in {"none", "soft"}
                                           THEN undo.order[p] ELSE order[p]]

(***************************************************************************)
(* Fills arrive: from the websocket, once or again, or in a snapshot.      *)
(***************************************************************************)
Enqueue(f) == work' = [work EXCEPT ![f] = IF @ = "none" THEN "pending" ELSE @]

\* A fill is late when its own timestamp is older than the activation.
Observe(f) ==
    /\ f \notin stored
    /\ stored' = stored \cup {f}
    /\ \E late \in BOOLEAN :
          IF late THEN UNCHANGED <<since, fresh>>
          ELSE since' = since \cup {f} /\ fresh' = fresh \cup {f}

StoreRealtime(f) == Observe(f) /\ Enqueue(f) /\ UNCHANGED <<operator, rows, market, job>>

StoreSnapshot(f) == Observe(f) /\ UNCHANGED <<work, operator, rows, market, job>>

Redeliver(f) ==
    /\ f \in stored /\ work[f] = "none"
    /\ Enqueue(f)
    /\ UNCHANGED <<stored, since, fresh, operator, rows, market, job>>

\* What the recovery query selects; whether a retry is due is left open.
InScope(f) ==
    \/ f \in fresh
    \/ position # Flat /\ position.fill < f
    \/ \E p \in Parts : p[1] = f /\ part[p] # "absent" /\ f \notin complete
Finished(f) ==
    /\ f \in complete
    /\ ~\E p \in linked : p[1] = f /\ order[p] = "live"
Due(f) ==
    \/ \A p \in Parts : p[1] = f => part[p] = "absent"
    \/ \E p \in Parts : p[1] = f /\ Open(p)
    \/ AllDecided(f) /\ f \notin complete
StaleEntryFill(f) == f \in Stale /\ \E p \in Parts : p[1] = f /\ IsEntry(p)

Recover(f) ==
    /\ Unlocked
    /\ Chosen \/ Owned
    /\ f \in stored /\ work[f] = "none"
    /\ InScope(f) /\ ~Finished(f) /\ Due(f)
    /\ StaleEntryFill(f) \/ ~\E q \in Parts : q[1] < f /\ Unfinished(q)
    /\ Enqueue(f)
    /\ UNCHANGED <<stored, since, fresh, operator, rows, market, job>>

(***************************************************************************)
(* Reconciliation and recovery of orders.  The one on the wire is the      *)
(* consumer's; a fill opens, grows or closes the copied position.          *)
(***************************************************************************)
Loose(p) == order[p] = "live" /\ ~(pc = "sent" /\ p = <<cur, at>>)

Moves(p) ==
    IF IsEntry(p)
      THEN position' = IF position = Flat THEN [side |-> Side(p), fill |-> p[1]] ELSE position
      ELSE position' \in IF Holds(p) THEN {Flat, position} ELSE {position}

Fill(p) ==
    /\ Loose(p)
    /\ Moves(p)
    /\ order' \in {order, [order EXCEPT ![p] = "settled"]}
    /\ UNCHANGED <<operator, intake, rows, job>>

Unfilled(p) ==
    /\ Loose(p)
    /\ \E end \in {"settled", "soft"} : order' = [order EXCEPT ![p] = end]
    /\ UNCHANGED <<position, operator, intake, rows, job>>

\* A manual close, a liquidation or close-all.
Flatten ==
    /\ position # Flat
    /\ position' = Flat
    /\ UNCHANGED <<order, operator, intake, rows, job>>

(***************************************************************************)
(* Selection and account lifecycle.                                        *)
(***************************************************************************)
Change == changes < MaxChanges /\ changes' = changes + 1

\* Mutant of Ignore: undecided exits stay undecided.
IgnoreEntries(S) == part' = [p \in Parts |-> IF p \in S /\ IsEntry(p) THEN "ignored" ELSE part[p]]

Ignore(S) == part' = [p \in Parts |-> IF p \in S THEN "ignored" ELSE part[p]]

OpenParts == {p \in Parts : Open(p)}

\* The lane goes inactive and takes its undecided parts with it, exits too.
Deactivate ==
    /\ lane' = "inactive"
    /\ Ignore(OpenParts)
    /\ linked' = linked \ OpenParts
    /\ complete' = complete \cup {p[1] : p \in OpenParts}
    /\ UNCHANGED <<fresh, renewed>>

\* A new baseline closes every undecided entry that is already planned.
Activate(entries, observed) ==
    LET closed == {p \in OpenParts : IsEntry(p)}
        decided(f) == \A p \in Parts : p[1] = f => part[p] \in Decided \/ p \in closed
    IN  /\ lane' = IF entries THEN "eligible" ELSE "retained"
        /\ fresh' = observed
        /\ renewed' = (renewed /\ ~entries)
        /\ Ignore(closed)
        /\ linked' = linked \ closed
        /\ complete' = complete \cup {f \in {p[1] : p \in closed} : decided(f)}

Synchronize ==
    /\ Unlocked
    /\ IF Chosen \/ Owned
         THEN IF lane = "inactive" \/ (Chosen /\ renewed)
                THEN Activate(Chosen, IF Chosen THEN since ELSE {})
                ELSE /\ lane' = IF Chosen THEN "eligible" ELSE "retained"
                     /\ UNCHANGED <<fresh, renewed, rows>>
         ELSE lane # "inactive" /\ Deactivate
    /\ UNCHANGED <<enabled, selected, changes, stored, since, work, market, job>>

Deselect ==
    /\ Change
    /\ selected /\ selected' = FALSE
    /\ UNCHANGED <<enabled, renewed, lane, intake, rows, market, job>>

Select ==
    /\ Change
    /\ ~selected /\ selected' = TRUE
    /\ renewed' = TRUE /\ since' = {}
    /\ UNCHANGED <<enabled, lane, stored, fresh, work, rows, market, job>>

\* Stop and Start run under the fence of the account.
FenceFree == pc # "sent"

\* Mutant of Stop: a flat account is not required.
StopAtOnce ==
    /\ Change
    /\ Unlocked /\ FenceFree
    /\ enabled /\ enabled' = FALSE
    /\ Deactivate
    /\ UNCHANGED <<selected, stored, since, work, market, job>>

Stop ==
    /\ Change
    /\ Unlocked /\ FenceFree
    /\ enabled /\ enabled' = FALSE
    /\ IF lane = "inactive" \/ position # Flat \/ HasLive
         THEN /\ lane' = IF lane = "inactive" THEN lane ELSE "retained"
              /\ UNCHANGED <<fresh, renewed, rows>>
         ELSE Deactivate
    /\ UNCHANGED <<selected, stored, since, work, market, job>>

\* Start drops a flat lane whose source is not selected, and gives one that
\* was owned a baseline all the same.
Start ==
    /\ Change
    /\ Unlocked /\ FenceFree
    /\ ~enabled /\ enabled' = TRUE
    /\ LET drops == ~selected /\ lane # "inactive" /\ position = Flat /\ ~HasLive
       IN  IF drops
             THEN /\ Ignore(OpenParts)
                  /\ linked' = linked \ OpenParts
                  /\ complete' = complete \cup {p[1] : p \in OpenParts}
                  /\ lane' = IF Owned THEN "retained" ELSE "inactive"
                  /\ fresh' = IF Owned THEN {} ELSE fresh
                  /\ UNCHANGED renewed
             ELSE IF selected \/ Owned THEN Activate(selected, {})
             ELSE UNCHANGED <<lane, fresh, renewed, rows>>
    /\ since' = {}
    /\ UNCHANGED <<selected, stored, work, market, job>>

(***************************************************************************)
(* The consumer of the work queue.                                         *)
(***************************************************************************)
\* Mutant of Claim: the work of a dead consumer is never taken over.
ClaimPending(f) ==
    /\ pc = "idle"
    /\ work[f] = "pending"
    /\ \A g \in Fills : g < f => work[g] = "none"
    /\ work' = [work EXCEPT ![f] = "processing"]
    /\ pc' = "prepare" /\ cur' = f /\ at' = 1
    /\ UNCHANGED <<undo, stored, since, fresh, operator, rows, market>>

\* Work left "processing" by a dead consumer is claimed when it is stale.
Claim(f) ==
    /\ pc = "idle"
    /\ work[f] \in {"pending", "processing"}
    /\ \A g \in Fills : g < f => work[g] = "none"
    /\ work' = [work EXCEPT ![f] = "processing"]
    /\ pc' = "prepare" /\ cur' = f /\ at' = 1
    /\ UNCHANGED <<undo, stored, since, fresh, operator, rows, market>>

NoAccount ==
    /\ pc = "prepare"
    /\ ~(Chosen \/ Owned)
    /\ pc' = "done"
    /\ UNCHANGED <<cur, at, undo, operator, intake, rows, market>>

Planned(p) == IF p[1] = cur /\ part[p] = "absent" THEN "pending" ELSE part[p]

\* Entries that were too old are decided before any order can block them;
\* claims that are not due yet are passed over.
BeforeBarrier(p, due) ==
    IF /\ p[1] = cur /\ cur \in Stale /\ IsEntry(p) /\ lane # "inactive"
       /\ Planned(p) \in IF due THEN Undecided ELSE {"pending"}
      THEN IF cur \in fresh \/ Continues(p) THEN "skip" ELSE "ignored"
      ELSE Planned(p)

Prepare ==
    /\ pc = "prepare"
    /\ Chosen \/ Owned
    /\ \E due \in BOOLEAN :
          LET next == [p \in Parts |-> BeforeBarrier(p, due)]
              new == {p \in Parts : next[p] # Planned(p)}
          IN  /\ part' = next
              /\ linked' = linked \ new
              /\ complete' = IF new # {} /\ \A p \in Parts : p[1] = cur => next[p] \in Decided
                               THEN complete \cup {cur} ELSE complete
    /\ pc' = "step"
    /\ UNCHANGED <<cur, at, undo, operator, intake, market>>

Here == <<cur, at>>
StaleEntry == cur \in Stale /\ IsEntry(Here)

Onward ==
    /\ at' = at + 1
    /\ pc' = IF at < Len(Plan[cur]) THEN "step" ELSE "close"
    /\ UNCHANGED cur
Advance == Begin /\ Onward

\* The rest of the fill waits for a retry.
Defer == Commit /\ pc' = "retry" /\ UNCHANGED <<cur, at>>

Decide(p, outcome, withOrder) ==
    /\ part' = [part EXCEPT ![p] = outcome]
    /\ linked' = IF withOrder THEN linked \cup {p} ELSE linked \ {p}
    /\ UNCHANGED complete

\* Mutant of Postponed: the row is overwritten as it was read.
PostponedAnyway(p) == Decide(p, "retryable", FALSE)

\* The session still holds the row as it claimed it, retryable already, and
\* writes changes only: what a lifecycle change decided meanwhile stays.
Postponed(p) ==
    IF Open(p) THEN Decide(p, "retryable", FALSE) ELSE UNCHANGED rows

(* claim_live_copy_fill_part and the decisions that need no order. *)
AtPart == pc = "step" /\ lane # "inactive"
OnBaseline == IsEntry(Here) /\ cur \notin fresh /\ ~Continues(Here)

\* Mutant of Claimable: earlier parts are not looked at.
ClaimableAtOnce == AtPart /\ Open(Here) /\ ~OnBaseline

Claimable == AtPart /\ Open(Here) /\ ~OnBaseline /\ (StaleEntry \/ ~Blocked(Here))

LaneGone ==
    /\ pc = "step" /\ lane = "inactive"
    /\ Defer
    /\ UNCHANGED <<operator, intake, rows, market>>

AlreadyDecided ==
    /\ AtPart /\ ~Open(Here)
    /\ Advance
    /\ UNCHANGED <<operator, intake, rows, market>>

\* Blocked, or claimed before and not due.
Wait ==
    /\ AtPart /\ Open(Here) /\ ~OnBaseline
    /\ ~Claimable \/ part[Here] \in {"processing", "retryable"}
    /\ Defer
    /\ UNCHANGED <<operator, intake, rows, market>>

NewToRetained == lane = "retained" /\ IsEntry(Here) /\ ~Continues(Here)

Verdicts ==
    IF ~Claimable THEN IF AtPart /\ Open(Here) /\ OnBaseline THEN {"ignored"} ELSE {}
    ELSE IF StaleEntry THEN {"skip"}
    ELSE (IF NewToRetained \/ Unowned(Here) THEN {"ignored"} ELSE {})
         \cup (IF \/ IsEntry(Here) /\ part[Here] # "pending" /\ order[Here] = "none"  \* expired
                  \/ /\ IsEntry(Here) /\ ~NewToRetained           \* another source's market
                     /\ position = Flat /\ ~HasLive
                 THEN {"skip"} ELSE {})

Conclude ==
    /\ \E outcome \in Verdicts : Decide(Here, outcome, FALSE)
    /\ Advance
    /\ UNCHANGED <<operator, intake, market>>

Eligible == Claimable /\ ~StaleEntry /\ ~NewToRetained

\* Reconciliation, the source's state or the attribution is not ready.
Postpone ==
    /\ Eligible
    /\ Decide(Here, "retryable", FALSE)
    /\ Defer
    /\ UNCHANGED <<operator, intake, market>>

Proceed ==
    /\ Eligible /\ ~Unowned(Here)
    /\ part' = [part EXCEPT ![Here] = "processing"]
    /\ Commit
    /\ pc' = "apply"
    /\ UNCHANGED <<cur, at, linked, complete, operator, intake, market>>

(* apply_live_copy_part. *)
Submittable == pc = "apply" /\ order[Here] \in {"none", "soft"}

Exists ==
    /\ pc = "apply" /\ order[Here] \in {"live", "settled", "skip"}
    /\ pc' = "finalize"
    /\ UNCHANGED <<cur, at, undo, operator, intake, rows, market>>

\* Terminal without an order: no observation, an expired intent, the gate.
GiveUp ==
    /\ Submittable /\ IsEntry(Here)
    /\ Decide(Here, "skip", FALSE)
    /\ Advance
    /\ UNCHANGED <<operator, intake, market>>

PutOff ==
    /\ Submittable
    /\ Postponed(Here)
    /\ Defer
    /\ UNCHANGED <<operator, intake, market>>

\* A skip row, with the disposition that finalization gives it.
Decline ==
    /\ Submittable
    /\ order' = [order EXCEPT ![Here] = "skip"]
    /\ IF Open(Here) THEN Decide(Here, "skip", TRUE) ELSE UNCHANGED rows
    /\ Advance
    /\ UNCHANGED <<position, operator, intake>>

\* The same for a skip that is retried: a busy fence, a missing position.
DeclineForNow ==
    /\ Submittable
    /\ order' = [order EXCEPT ![Here] = "soft"]
    /\ Postponed(Here)
    /\ IF Open(Here) THEN Defer ELSE Advance
    /\ UNCHANGED <<position, operator, intake>>

\* validate_live_copy_entry_lifecycle_gate.
Admitted(p) ==
    /\ lane = "eligible" \/ (lane = "retained" /\ Continues(p))
    /\ p[1] \in fresh \/ Continues(p)

Reclassified ==
    /\ Submittable /\ IsEntry(Here)
    /\ \/ ~Open(Here) /\ UNCHANGED rows
       \/ Open(Here) /\ ~Admitted(Here) /\ Decide(Here, "ignored", FALSE)
    /\ Advance
    /\ UNCHANGED <<operator, intake, market>>

\* Exits pass no gate: they need the position they reduce.
MaySend(p) ==
    IF IsEntry(p)
      THEN /\ enabled /\ part[p] = "processing" /\ Admitted(p) /\ ~Blocked(p)
           /\ position = Flat \/ Holds(p)
      ELSE Holds(p)

Send ==
    /\ Submittable /\ MaySend(Here)
    /\ order' = [order EXCEPT ![Here] = "live"]
    /\ pc' = "sent"
    /\ UNCHANGED <<cur, at, undo, position, operator, intake, rows>>

\* Accepted (perhaps filled, not yet materialized), unknown, or refused.
Reply ==
    /\ pc = "sent"
    /\ \/ pc' \in {"landed", "finalize"} /\ UNCHANGED order
       \/ /\ pc' = "finalize"
          /\ \E end \in {"settled", "soft"} : order' = [order EXCEPT ![Here] = end]
    /\ UNCHANGED <<cur, at, undo, position, operator, intake, rows>>

\* finalize_live_copy_fill_disposition; a submitted part is committed at once.
Finalize ==
    /\ pc \in {"finalize", "landed"}
    /\ IF Open(Here) /\ order[Here] \in {"none", "soft"}
         THEN Decide(Here, "retryable", FALSE) /\ Defer
         ELSE /\ IF Open(Here) THEN Decide(Here, IF order[Here] = "skip" THEN "skip" ELSE "order", TRUE)
                 ELSE UNCHANGED rows
              /\ IF pc = "landed" THEN Commit ELSE Begin
              /\ Onward
    /\ UNCHANGED <<operator, intake, market>>

Close ==
    /\ pc = "close"
    /\ complete' = IF AllDecided(cur) THEN complete \cup {cur} ELSE complete
    /\ Commit
    /\ pc' = "done"
    /\ UNCHANGED <<cur, at, part, linked, operator, intake, market>>

Leave == pc' = "idle" /\ cur' = 0 /\ at' = 1

Done ==
    /\ pc = "done"
    /\ work' = [work EXCEPT ![cur] = "none"]
    /\ Leave
    /\ UNCHANGED <<undo, stored, since, fresh, operator, rows, market>>

RetryWork ==
    /\ pc = "retry"
    /\ work' = [work EXCEPT ![cur] = "pending"]
    /\ Leave
    /\ UNCHANGED <<undo, stored, since, fresh, operator, rows, market>>

\* An exception or a cancellation: the work is given back.
Interrupt ==
    /\ pc \in {"prepare", "step", "apply", "sent", "finalize", "landed", "close"}
    /\ Rollback
    /\ pc' = "retry"
    /\ UNCHANGED <<cur, at, position, operator, intake>>

Crash ==
    /\ pc # "idle"
    /\ Rollback
    /\ Leave
    /\ UNCHANGED <<position, operator, intake>>

Arrive(f) == StoreRealtime(f) \/ StoreSnapshot(f) \/ Redeliver(f)
Decision == AlreadyDecided \/ Conclude \/ Proceed \/ Exists \/ GiveUp \/ Decline
            \/ Reclassified \/ Send \/ Reply \/ Finalize \/ Close \/ Done
Setback == LaneGone \/ Wait \/ Postpone \/ PutOff \/ DeclineForNow \/ RetryWork
Failure == Interrupt \/ Crash
Lifecycle == Deselect \/ Select \/ Stop \/ Start

Next ==
    \/ \E f \in Fills : Arrive(f) \/ Recover(f) \/ Claim(f)
    \/ \E p \in Parts : Fill(p) \/ Unfilled(p)
    \/ Flatten \/ Synchronize \/ Lifecycle
    \/ NoAccount \/ Prepare \/ Decision \/ Setback \/ Failure

Spec == Init /\ [][Next]_vars

(***************************************************************************)
(* The loops go on; crashes, interruptions and repeated deliveries end at  *)
(* some time; prices, snapshots and backoffs do not hold a part for ever   *)
(* and reconciliation settles an order that is live again and again.       *)
(***************************************************************************)
Settle(p) == (Fill(p) \/ Unfilled(p)) /\ order'[p] = "settled"
Disturbance == Failure \/ \E f \in Fills : Redeliver(f)

FairSpec ==
    /\ Spec
    /\ <>[][~Disturbance]_vars
    /\ WF_vars(NoAccount \/ Prepare \/ Decision \/ Setback)
    /\ WF_vars(Synchronize)
    /\ \A f \in Fills : WF_vars(Claim(f)) /\ WF_vars(Recover(f))
    /\ \A p \in Parts : SF_vars(Settle(p))
    /\ SF_vars(Conclude \/ Proceed)
    /\ SF_vars(Decline \/ Reclassified \/ Exists)

(***************************************************************************)
(* Properties.                                                             *)
(***************************************************************************)
Rows == [part : [Parts -> Undecided \cup Decided \cup {"absent"}],
         linked : SUBSET Parts, complete : SUBSET Fills,
         order : [Parts -> {"none", "soft", "skip", "live", "settled"}]]

\* Every variable keeps its type, the saved rows included.
TypeOK ==
    /\ enabled \in BOOLEAN /\ selected \in BOOLEAN /\ renewed \in BOOLEAN
    /\ lane \in {"eligible", "retained", "inactive"}
    /\ changes \in 0..MaxChanges
    /\ stored \subseteq Fills /\ since \subseteq Fills /\ fresh \subseteq Fills
    /\ work \in [Fills -> {"none", "pending", "processing"}]
    /\ part \in [Parts -> Undecided \cup Decided \cup {"absent"}]
    /\ linked \subseteq Parts /\ complete \subseteq Fills
    /\ order \in [Parts -> {"none", "soft", "skip", "live", "settled"}]
    /\ position \in [side : Sides, fill : Fills] \cup {Flat}
    /\ pc \in {"idle", "prepare", "step", "apply", "sent", "finalize", "landed",
               "close", "done", "retry"}
    /\ cur \in Fills \cup {0}
    /\ pc # "idle" => cur \in Fills
    /\ at \in Nat
    /\ pc \in {"prepare", "step", "apply", "sent", "finalize", "landed"} => Here \in Parts
    /\ undo \in Rows \cup {Committed}
    /\ undo # Committed => pc \in {"step", "close"}

Sends(p) == order[p] # "live" /\ order'[p] = "live"

\* A part is sent only when every earlier planned part of the lane is decided
\* and no order linked to one of them is unresolved: for exits, which pass no
\* gate, from the claim of the part until its request is written.
SendInOrder == [][\A p \in Parts : Sends(p) => ~Blocked(p)]_vars

StoredRow(p) == IF undo = Committed THEN part[p] ELSE undo.part[p]

\* No committed decision is taken back, whatever the consumer does with rows
\* it read before a lifecycle change, and whatever it rolls back.
DecisionsStand ==
    [][\A p \in Parts : StoredRow(p) \in Decided => StoredRow(p)' \in Decided]_vars

\* A fill is complete only when the lane needs nothing more of its parts.
CompleteIsDecided == \A f \in complete : AllDecided(f)

\* Nothing is sent for a part that a stop, a start or a deselection decided
\* while the consumer was on its way from the claim to the request.
SendUndecided == [][\A p \in Parts : Sends(p) => Open(p)]_vars

\* An undecided part is decided in the end, by an order or without one: no
\* blocker, crash, lost work item or lifecycle change leaves it behind.
LaneDrains == \A p \in Parts : Open(p) ~> part[p] \in Decided

\* Claim of live_copy_unresolved_order_predicate: a later part is not sent
\* while an earlier part's order is unresolved.
NotOvertaken ==
    [][\A p, q \in Parts : Sends(p) /\ Earlier(q, p) => order[q] # "live"]_vars

=============================================================================
