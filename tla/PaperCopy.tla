----------------------------- MODULE PaperCopy -----------------------------
(***************************************************************************)
(* The paper copy engine: the fills of the copied sources, delivered       *)
(* through the durable execution inbox and replayed by recovery, applied   *)
(* to one paper account in one coin, next to the manual close, the risk    *)
(* pass and the account controls.                                          *)
(*                                                                         *)
(* Two locks order the writers: an advisory lock for each source and the   *)
(* row lock of the account.  What a writer read before it got them may be  *)
(* out of date; the session keeps the row it read first, so a later SELECT *)
(* FOR UPDATE waits for the row but does not refresh it.                   *)
(*                                                                         *)
(* Money is counted, not priced: every execution books one unit, and the   *)
(* balance is the number of bookings it includes.                          *)
(***************************************************************************)
EXTENDS Naturals, FiniteSets, Sequences

CONSTANTS
    Consumers,      \* realtime execution loops, of one or several workers
    Recovery,       \* the holder of the job lock paper_copy_recovery
    Operator,       \* a request of the dashboard
    Free,           \* nobody
    Plan,           \* Plan[s]: the fills source s makes, each planned in parts
    MaxTroubles     \* bound: the steps that Spend counts

Wallets == DOMAIN Plan
Copiers == Consumers \cup {Recovery}

VARIABLES
    acct,       \* the row of the account, and the bookings before its reset
    posn,       \* paper_positions of the account
    rows,       \* paper_copy_fills: the outcome of every part, by source and fill
    other,      \* bookings with no source fill
    given,      \* fills of the source that are stored
    aged,       \* of those, the ones too old to enter on
    inbox,      \* realtime_execution_inbox, an entry for each stored fill
    held,       \* advisory lock of each source
    rowLock,    \* row lock of the account, when a request holds it
    task,       \* what each copier is doing
    op,         \* what the request is doing
    spent       \* troubles so far

paperVars == <<acct, posn, rows, other, given, aged, inbox, held, rowLock, task, op, spent>>
books == <<acct, posn, rows, other>>

(* Steps that upset the plain course of deliveries, counted for the bound. *)
Spend(n) == spent + n <= MaxTroubles /\ spent' = spent + n
----------------------------------------------------------------------------
Entry == {"open", "flip_open"}
Executed == {"open", "add", "reduce", "close", "flip_open", "flip_close"}
RowOutcome == Executed \cup {"none", "retry", "skip", "below", "merged"}

(* A fill is planned as one part, or as two when it turns the position.    *)
Part == [action : Executed, side : {"long", "short"}, pre : BOOLEAN, whole : BOOLEAN,
         tiny : BOOLEAN]
ASSUME PlanAssumption ==
    /\ Plan \in Seq(Seq([parts : Seq(Part), after : {"long", "short", "none"}]))
    /\ \A s \in Wallets : \A i \in DOMAIN Plan[s] : Len(Plan[s][i].parts) \in {1, 2}

NoPos == [side |-> "none", size |-> 0, id |-> <<>>]
NoTask == [pc |-> "idle", src |-> 0, from |-> 1, upto |-> 0, known |-> FALSE,
            holds |-> "none", cash |-> 0, enabled |-> FALSE, exit |-> FALSE]
NoOp == [pc |-> "idle", left |-> {}, done |-> {}, ids |-> <<>>]

(* The side the source holds after its first n fills.                      *)
SourceSide(s, n) == IF n = 0 THEN "none" ELSE Plan[s][n].after

Open(s) == posn[s] # NoPos

Parts == Wallets \X (1..9) \X (1..2)

Bookings ==
    other + Cardinality({k \in Parts : k[2] \in DOMAIN rows[k[1]] /\ k[3] \in DOMAIN rows[k[1]][k[2]]
                                        /\ rows[k[1]][k[2]][k[3]] \in Executed})

PaperTypeOK ==
    /\ acct \in [there : BOOLEAN, enabled : BOOLEAN, exit : BOOLEAN, cash : Nat, base : Nat]
    /\ \A s \in Wallets :
         /\ posn[s].side \in {"long", "short", "none"} /\ posn[s].size \in Nat
         /\ given[s] \in 0..Len(Plan[s]) /\ aged[s] <= given[s]
         /\ DOMAIN inbox[s] = 1..given[s] /\ DOMAIN rows[s] = 1..Len(Plan[s])
         /\ \A i \in DOMAIN rows[s] : \A p \in DOMAIN rows[s][i] : rows[s][i][p] \in RowOutcome
         /\ held[s] \in Copiers \cup {Free, Operator}
    /\ rowLock \in {Free, Operator}

PaperInit ==
    /\ acct = [there |-> TRUE, enabled |-> TRUE, exit |-> FALSE, cash |-> 0, base |-> 0]
    /\ posn = [s \in Wallets |-> NoPos]
    /\ rows = [s \in Wallets |-> [i \in DOMAIN Plan[s] |->
                [p \in DOMAIN Plan[s][i].parts |-> "none"]]]
    /\ other = 0
    /\ given = [s \in Wallets |-> 0] /\ aged = [s \in Wallets |-> 0]
    /\ inbox = [s \in Wallets |-> <<>>]
    /\ held = [s \in Wallets |-> Free] /\ rowLock = Free
    /\ task = [t \in Copiers |-> NoTask] /\ op = NoOp /\ spent = 0
----------------------------------------------------------------------------
(* One part of a source fill.  a is what the batch has made of the books   *)
(* so far; its cash, enabled and exit are those of the row the session     *)
(* read first.  in is what the network answered and the market gave.       *)
Recorded(a, i, p, outcome) == [a EXCEPT !.rows[i][p] = outcome]

Skipped(a, i, p) == Recorded(a, i, p, "skip")

OthersIgnored(s, side) == FALSE

HeldOpposite(s, side) ==
    \E o \in Wallets \ {s} : Open(o) /\ posn[o].side # side

(* record_skip for a stopped account or an unknown source state, then      *)
(* source_fill_age_exceeds_entry_limit, entry_precheck and                 *)
(* paper_shared_market_reason, in a market with cross margin only.         *)
RefusedFirst(a, s, i, part, in) ==
    \/ ~a.enabled \/ ~in.known \/ i <= in.aged
    \/ a.pos = NoPos /\ (part.pre \/ ~in.active)
    \/ a.pos # NoPos /\ a.pos.side # part.side
    \/ HeldOpposite(s, part.side)

EntryAction(pos, part) ==
    IF pos # NoPos /\ part.action = "open" THEN "add" ELSE part.action

Grown(pos, side, size, id) ==
    IF pos = NoPos THEN [side |-> side, size |-> size, id |-> id]
    ELSE [pos EXCEPT !.size = @ + size]

Entered(a, i, p, part, in) ==
    LET size == IF in.market = "part" THEN 1 ELSE 2
    IN [Recorded(a, i, p, EntryAction(a.pos, part)) EXCEPT
          !.pos = Grown(@, part.side, size, <<i, p>>), !.cash = @ + 1]

(* paper_entry_risk_reason trips the account; decide_entry, or a book that *)
(* fills nothing, may still refuse.                                        *)
ApplyOpenPart(a, s, i, p, part, in) ==
    CASE a.rows[i][p] # "none" -> a
      [] a.rows[i][p] = "none" /\ (RefusedFirst(a, s, i, part, in) \/ a.exit) ->
            Skipped(a, i, p)
      [] a.rows[i][p] = "none" /\ ~RefusedFirst(a, s, i, part, in) /\ ~a.exit ->
            IF in.breach THEN [Skipped(a, i, p) EXCEPT !.exit = TRUE]
            ELSE IF in.market \in {"unpriced", "dry"} THEN Skipped(a, i, p)
            ELSE Entered(a, i, p, part, in)

AnyExitAgain(outcome, part) == part.action \notin Entry

MayRetry(outcome, part) == outcome = "retry" /\ part.action \notin Entry

(* Partial closes that were below the minimum order are combined with the  *)
(* next one.                                                               *)
Below(r) == {k \in (DOMAIN r) \X {1, 2} : k[2] \in DOMAIN r[k[1]] /\ r[k[1]][k[2]] = "below"}

MergeBelow(r) == [i \in DOMAIN r |-> [p \in DOMAIN r[i] |->
                    IF r[i][p] = "below" THEN "merged" ELSE r[i][p]]]

Smaller(m, n) == IF m < n THEN m ELSE n

CloseAction(part, left) ==
    IF left > 0 /\ part.action = "close" THEN "reduce" ELSE part.action

(* The state read before the locks no longer has the copied side: close it *)
(* all, whatever the share of this fill.                                   *)
FinalClose(pos, in) == in.known /\ in.holds # pos.side

Shrunk(pos, left) == IF left = 0 THEN NoPos ELSE [pos EXCEPT !.size = left]

Closed(a, i, p, part, size, merge) ==
    LET left == a.pos.size - size
        r == IF merge THEN MergeBelow(a.rows) ELSE a.rows
    IN [a EXCEPT !.rows = [r EXCEPT ![i][p] = CloseAction(part, left)],
                 !.pos = Shrunk(@, left), !.cash = @ + 1]

(* decide_close, aggregate_below_min_close and the book.  A share is a     *)
(* unit at least.                                                          *)
ApplyClosePart(a, s, i, p, part, in) ==
    LET final == FinalClose(a.pos, in)
        share == IF final \/ part.whole THEN a.pos.size ELSE 1
        tiny == part.tiny /\ ~final
        joined == Smaller(share + Cardinality(Below(a.rows)), a.pos.size)
        size == IF tiny THEN joined ELSE share
    IN IF a.rows[i][p] # "none" /\ ~MayRetry(a.rows[i][p], part) THEN a
       ELSE IF a.pos = NoPos \/ a.pos.side # part.side THEN Recorded(a, i, p, "skip")
       ELSE IF in.market = "unpriced" THEN Recorded(a, i, p, "retry")
       ELSE IF tiny /\ joined = 1 THEN Recorded(a, i, p, "below")
       ELSE IF in.market = "dry" THEN Recorded(a, i, p, "retry")
       ELSE Closed(a, i, p, part, IF in.market = "part" THEN 1 ELSE size, tiny)

ApplyPaperFillPart(a, s, i, p, in) ==
    LET part == Plan[s][i].parts[p]
    IN IF part.action \in Entry THEN ApplyOpenPart(a, s, i, p, part, in)
       ELSE ApplyClosePart(a, s, i, p, part, in)

(* The fills of a batch in the order of the source, every part of each.    *)
ApplyFills(a, s, from, upto, in) ==
    LET fill(b, i) ==
            LET one == ApplyPaperFillPart(b, s, i, 1, in)
            IN IF Len(Plan[s][i].parts) = 1 THEN one
               ELSE ApplyPaperFillPart(one, s, i, 2, in)
        run[i \in (from - 1)..upto] == IF i < from THEN a ELSE fill(run[i - 1], i)
    IN run[upto]
----------------------------------------------------------------------------
(* The source trades.  The feed enqueues the fill with its row, or missed  *)
(* it, and only an import brings the row.                                  *)
StoreFill(s) ==
    /\ given[s] < Len(Plan[s])
    /\ given' = [given EXCEPT ![s] = @ + 1]
    /\ \/ inbox' = [inbox EXCEPT ![s] = Append(@, "pending")] /\ UNCHANGED spent
       \/ inbox' = [inbox EXCEPT ![s] = Append(@, "gone")] /\ Spend(1)
    /\ UNCHANGED <<books, aged, held, rowLock, task, op>>

GrowOld(s) ==
    /\ aged[s] < given[s]
    /\ aged' = [aged EXCEPT ![s] = @ + 1]
    /\ Spend(1)
    /\ UNCHANGED <<books, given, inbox, held, rowLock, task, op>>

(* load_paper_accounts_for_source_copy: what its WHERE clause lets through. *)
Visible(s) == acct.there /\ (acct.enabled \/ Open(s))

(* The first reads of a batch: the account row, unlocked, and the state of *)
(* the source, or a failure to read it.  With no account it has no work.   *)
FirstReads(s, from, upto) ==
    LET work == [NoTask EXCEPT !.src = s, !.from = from, !.upto = upto]
    IN IF ~Visible(s) THEN {[work EXCEPT !.pc = "end"]}
       ELSE {[work EXCEPT !.pc = "read", !.cash = acct.cash, !.enabled = acct.enabled,
                          !.exit = acct.exit, !.known = k,
                          !.holds = IF k THEN SourceSide(s, given[s]) ELSE "none"]
                : k \in BOOLEAN}

(* claim_next_realtime_execution: a pending entry, or one whose claim is   *)
(* older than the timeout, whether or not its owner still works on it.     *)
Claim(c, s, i) ==
    /\ task[c].pc = "idle"
    /\ i \in DOMAIN inbox[s] /\ inbox[s][i] \in Consumers \cup {"pending"}
    /\ inbox' = [inbox EXCEPT ![s][i] = c]
    /\ \E w \in FirstReads(s, i, i) : task' = [task EXCEPT ![c] = w]
    /\ UNCHANGED <<books, given, aged, held, rowLock, op, spent>>

(* process_paper_copy_recovery_for_source: everything stored, once the     *)
(* source has a position or a row here.                                    *)
Recover(s) ==
    /\ task[Recovery].pc = "idle" /\ given[s] > 0
    /\ Open(s) \/ \E i \in DOMAIN rows[s] : \E p \in DOMAIN rows[s][i] : rows[s][i][p] # "none"
    /\ \E w \in FirstReads(s, 1, given[s]) : task' = [task EXCEPT ![Recovery] = w]
    /\ UNCHANGED <<books, given, aged, inbox, held, rowLock, op, spent>>

(* lock_paper_source_mutation.                                             *)
LockSource(t) ==
    /\ task[t].pc \in {"read", "settle"} /\ held[task[t].src] = Free
    /\ held' = [held EXCEPT ![task[t].src] = t]
    /\ task' = [task EXCEPT ![t].pc = IF @ = "read" THEN "locked" ELSE "settling"]
    /\ UNCHANGED <<books, given, aged, inbox, rowLock, op, spent>>

(* active: the wallet is still allocated.  market: no price, a book that    *)
(* fills the order, a part of it or nothing.  breach: a loss limit.        *)
Market == [active : BOOLEAN, market : {"unpriced", "full", "part", "dry"}, breach : BOOLEAN]

(* The attributes the session changed are written, the balance as a value. *)
Written(a, first) ==
    [acct EXCEPT !.cash = IF a.cash # first.cash THEN a.cash ELSE @,
                 !.exit = @ \/ (a.exit /\ ~first.exit)]

(* The rest of process_paper_copy_fills, from the account row's lock to    *)
(* the commit: the second load sees who may be copied now, and keeps the   *)
(* values of the first.                                                    *)
CopyBatch(t, x) ==
    LET w == task[t]
        s == w.src
        in == [active |-> x.active, market |-> x.market, breach |-> x.breach,
               known |-> w.known, holds |-> w.holds, aged |-> aged[s]]
        first == [pos |-> posn[s], rows |-> rows[s],
                  cash |-> w.cash, enabled |-> w.enabled, exit |-> w.exit]
        a == ApplyFills(first, s, w.from, w.upto, in)
    IN /\ w.pc = "locked" /\ rowLock = Free
       /\ IF Visible(s)
          THEN /\ acct' = Written(a, first)
               /\ posn' = [posn EXCEPT ![s] = a.pos]
               /\ rows' = [rows EXCEPT ![s] = a.rows]
          ELSE UNCHANGED <<acct, posn, rows>>
       /\ held' = [held EXCEPT ![s] = Free]
       /\ task' = [task EXCEPT ![t].pc = "end"]
       /\ UNCHANGED <<other, given, aged, inbox, rowLock, op, spent>>

(* complete_realtime_execution, only for the owner of the claim.           *)
Complete(c) ==
    /\ task[c].pc = "end"
    /\ inbox' = [inbox EXCEPT ![task[c].src][task[c].from] = IF @ = c THEN "gone" ELSE @]
    /\ task' = [task EXCEPT ![c] = NoTask]
    /\ UNCHANGED <<books, given, aged, held, rowLock, op, spent>>

(* An error, a shutdown or a death before the entry is completed: the      *)
(* transaction rolls back; the claim is returned, or left to grow old.     *)
Interrupt(t) ==
    /\ task[t].pc # "idle"
    /\ held' = [s \in Wallets |-> IF held[s] = t THEN Free ELSE held[s]]
    /\ task' = [task EXCEPT ![t] = NoTask]
    /\ inbox' = inbox \/ inbox' = [s \in Wallets |-> [i \in DOMAIN inbox[s] |->
                    IF inbox[s][i] = t /\ task[t].from = i /\ task[t].src = s
                    THEN "pending" ELSE inbox[s][i]]]
    /\ Spend(1)
    /\ UNCHANGED <<books, given, aged, rowLock, op>>

(* reconcile_open_paper_positions_for_source: positions, prices and the    *)
(* state of the source are read before its locks.                          *)
SettleReads ==
    LET s == task[Recovery].src
    IN /\ task[Recovery].pc = "end"
       /\ task' = [task EXCEPT ![Recovery] =
                IF Open(s) THEN [NoTask EXCEPT !.pc = "settle", !.src = s, !.known = TRUE,
                                               !.holds = SourceSide(s, given[s])]
                ELSE NoTask]
       /\ UNCHANGED <<books, given, aged, inbox, held, rowLock, op, spent>>

Book(n, gone) ==
    /\ other' = other + n
    /\ acct' = [acct EXCEPT !.cash = @ + n]
    /\ posn' = [s \in Wallets |-> IF s \in gone THEN NoPos ELSE posn[s]]
    /\ UNCHANGED rows

(* reconcile_closed_source_position, for an account that is loaded.        *)
Settle ==
    LET w == task[Recovery]
        s == w.src
    IN /\ w.pc = "settling" /\ rowLock = Free
       /\ IF Visible(s) /\ Open(s) /\ w.holds # posn[s].side
          THEN Book(1, {s}) /\ Spend(1)
          ELSE UNCHANGED <<books, spent>>
       /\ held' = [held EXCEPT ![s] = Free]
       /\ task' = [task EXCEPT ![Recovery] = NoTask]
       /\ UNCHANGED <<given, aged, inbox, rowLock, op>>
----------------------------------------------------------------------------
(* A close from the dashboard, of a position or of all of the account's:   *)
(* one transaction, which keeps the locks of the positions it has closed   *)
(* while it asks for the next one's price and source.                      *)
AskClose(ss) ==
    /\ op.pc = "idle" /\ ss # {} /\ \A s \in ss : Open(s)
    /\ Spend(1)
    /\ op' = [pc |-> "ask", left |-> ss, done |-> {}, ids |-> [s \in ss |-> posn[s].id]]
    /\ UNCHANGED <<books, given, aged, inbox, held, rowLock, task>>

NextToClose == CHOOSE s \in op.left : \A o \in op.left : s <= o

LockForClose ==
    LET s == NextToClose
    IN /\ op.pc = "ask" /\ posn[s].id = op.ids[s] /\ held[s] = Free
       /\ held' = [held EXCEPT ![s] = Operator]
       /\ op' = [op EXCEPT !.pc = "lock"]
       /\ UNCHANGED <<books, given, aged, inbox, rowLock, task, spent>>

FreedBy(t) == [s \in Wallets |-> IF held[s] = t THEN Free ELSE held[s]]

(* close_paper_position_manually refreshes both rows under their locks.    *)
CloseByHand ==
    LET s == NextToClose
        done == op.done \cup {s}
    IN /\ op.pc = "lock" /\ acct.there /\ posn[s].id = op.ids[s]
       /\ IF op.left = {s}
          THEN /\ Book(Cardinality(done), done)
               /\ held' = FreedBy(Operator) /\ rowLock' = Free /\ op' = NoOp
          ELSE /\ rowLock' = Operator
               /\ op' = [op EXCEPT !.pc = "ask", !.left = @ \ {s}, !.done = done]
               /\ UNCHANGED <<books, held>>
       /\ UNCHANGED <<given, aged, inbox, task, spent>>

(* No price, the position is gone, or PostgreSQL broke a deadlock.         *)
AbandonClose ==
    /\ op.pc # "idle"
    /\ held' = FreedBy(Operator) /\ rowLock' = Free /\ op' = NoOp
    /\ UNCHANGED <<books, given, aged, inbox, task, spent>>

(* The risk pass locks the accounts first: liquidations, and funding paid. *)
RiskPass(gone, paid) ==
    /\ rowLock = Free /\ acct.there
    /\ \A s \in gone : Open(s)
    /\ paid => \E s \in Wallets \ gone : Open(s)
    /\ Book(Cardinality(gone) + IF paid THEN 1 ELSE 0, gone)
    /\ Spend(1)
    /\ UNCHANGED <<given, aged, inbox, held, rowLock, task, op>>

SetEnabled(on) ==
    /\ rowLock = Free /\ acct.there
    /\ acct' = [acct EXCEPT !.enabled = on, !.exit = IF on THEN FALSE ELSE @]
    /\ Spend(1)
    /\ UNCHANGED <<posn, rows, other, given, aged, inbox, held, rowLock, task, op>>

ResetBalance ==
    /\ rowLock = Free /\ acct.there /\ ~acct.enabled /\ \A s \in Wallets : ~Open(s)
    /\ acct' = [acct EXCEPT !.cash = 0, !.base = Bookings, !.exit = FALSE]
    /\ UNCHANGED <<posn, rows, other, given, aged, inbox, held, rowLock, task, op, spent>>

DeleteAccount ==
    /\ rowLock = Free /\ acct.there
    /\ acct' = [there |-> FALSE, enabled |-> FALSE, exit |-> FALSE, cash |-> 0, base |-> 0]
    /\ posn' = [s \in Wallets |-> NoPos]
    /\ rows' = [s \in Wallets |-> [i \in DOMAIN rows[s] |-> [p \in DOMAIN rows[s][i] |-> "none"]]]
    /\ other' = 0
    /\ Spend(1)
    /\ UNCHANGED <<given, aged, inbox, held, rowLock, task, op>>
----------------------------------------------------------------------------
PaperNext ==
    \/ \E s \in Wallets : StoreFill(s) \/ GrowOld(s) \/ Recover(s)
    \/ \E c \in Consumers : Complete(c)
    \/ \E c \in Consumers, s \in Wallets : \E i \in 1..given[s] : Claim(c, s, i)
    \/ \E t \in Copiers : LockSource(t) \/ Interrupt(t)
    \/ \E t \in Copiers, x \in Market : CopyBatch(t, x)
    \/ SettleReads \/ Settle
    \/ \E ss \in SUBSET Wallets : AskClose(ss)
    \/ LockForClose \/ CloseByHand \/ AbandonClose
    \/ \E gone \in SUBSET Wallets, paid \in BOOLEAN :
            (gone # {} \/ paid) /\ RiskPass(gone, paid)
    \/ \E on \in BOOLEAN : SetEnabled(on)
    \/ ResetBalance \/ DeleteAccount

PaperSpec == PaperInit /\ [][PaperNext]_paperVars
----------------------------------------------------------------------------
(* The exchange would net one position per account and coin: sources may   *)
(* share the coin on one side only, however their batches interleave.      *)
OneSided ==
    \A s, o \in Wallets : Open(s) /\ Open(o) => posn[s].side = posn[o].side

(* A part of a source fill that was executed is never executed again, nor  *)
(* forgotten, whatever is delivered twice, claimed twice or replayed.      *)
ExecutedStays ==
    \A s \in Wallets : \A i \in DOMAIN rows[s] : \A p \in DOMAIN rows[s][i] :
        rows[s][i][p] \in Executed /\ acct'.there => rows'[s][i][p] = rows[s][i][p]

ExecutedOnce == [][ExecutedStays]_paperVars

(* "Locks paper account rows before writing copied fills, so different     *)
(* source wallets cannot concurrently update the same paper account        *)
(* balance": the balance includes every booking since the reset.           *)
BooksBalance == acct.there => acct.cash + acct.base = Bookings
============================================================================
