----------------------------- MODULE LiveLedger -----------------------------
(***************************************************************************)
(* One market of a live account: what the exchange executed, the fills and *)
(* the positions the database knows of it, which source they are credited  *)
(* to, and the exposure that the entry gate counts.                        *)
(*                                                                         *)
(* The market has one side and a price of one.  Sizes are in units so      *)
(* small that scaling rounds down to one of them (POSITION_EPSILON).  A    *)
(* reconciliation holds the execution fence from its first read to its     *)
(* commit, so there is one at a time; the exchange does not wait for it.   *)
(***************************************************************************)
EXTENDS Naturals, Sequences, FiniteSets

CONSTANTS
    Sources,            \* copied wallets
    Exchange,           \* LIVE_EXCHANGE_SOURCE, credited when nobody owns a fill
    Lots,               \* sizes of orders
    MaxTrades           \* bound: executions at the exchange

ASSUME LedgerAssumption ==
    /\ IsFiniteSet(Sources) /\ Exchange \notin Sources
    /\ Lots \subseteq Nat \ {0} /\ MaxTrades \in Nat

VARIABLES
    trades,     \* what the exchange executed, oldest first
    credit,     \* trading_fills: who each imported execution is credited to
    src,        \* trading_positions of the sources
    row,        \* trading_positions of the exchange
    net,        \* the position at the exchange
    complete,   \* the last reconciliation was complete
    outside,    \* exposure opened by hand after that reconciliation read it
    run         \* the reconciliation that is under way

vars == <<trades, credit, src, row, net, complete, outside, run>>
----------------------------------------------------------------------------
(* by placed the order, asked for ask and got size.  tagged: the fill names *)
(* the order.  known: the reply, or a lookup, told the outcome.            *)
Trade == [by : Sources \cup {Exchange}, open : BOOLEAN, ask : Lots, size : Nat,
          tagged : BOOLEAN, known : BOOLEAN]

NoRun == [pc |-> "idle", upto |-> 0, read |-> FALSE, pos |-> 0, whole |-> TRUE, out |-> 0]

TypeOK ==
    /\ trades \in Seq(Trade) /\ Len(trades) <= MaxTrades
    /\ credit \in Seq(Sources \cup {Exchange}) /\ Len(credit) <= Len(trades)
    /\ src \in [Sources -> Nat] /\ row \in Nat /\ net \in Nat /\ outside \in Nat
    /\ complete \in BOOLEAN

Init ==
    /\ trades = <<>> /\ credit = <<>>
    /\ src = [s \in Sources |-> 0] /\ row = 0 /\ net = 0
    /\ complete = FALSE /\ outside = 0 /\ run = NoRun

ledger == <<credit, src, row, complete>>

Least(a, b) == IF a < b THEN a ELSE b
Most(a, b) == IF a < b THEN b ELSE a

(* Sum of f over a finite set, as a function of the set.                   *)
Total(f) ==
    LET sum[S \in SUBSET DOMAIN f] ==
            IF S = {} THEN 0
            ELSE LET x == CHOOSE x \in S : TRUE IN f[x] + sum[S \ {x}]
    IN sum[DOMAIN f]
----------------------------------------------------------------------------
(* Exposure.  A fill is material once its row names the order: the credit  *)
(* of an open to a source always comes from there.                         *)
Material(i) == IF i <= Len(credit) /\ credit[i] = trades[i].by THEN trades[i].size ELSE 0

ReservedUntilKnown(i) ==
    IF trades[i].by \in Sources /\ trades[i].open /\ ~trades[i].known
    THEN trades[i].ask ELSE 0

(* live_copy_unresolved_order_predicate, live_copy_capacity_order_reservation: *)
(* an order whose outcome is known counts what it got, any other what it asked *)
(* for, less what is material.                                             *)
Reserved(i) ==
    LET expected == IF trades[i].known THEN trades[i].size ELSE trades[i].ask
    IN IF trades[i].by \in Sources /\ trades[i].open /\ expected > Material(i)
       THEN expected - Material(i) ELSE 0

(* load_live_copy_exposure, the part of the account.                       *)
Exposure == Most(Total(src), row) + Total([i \in DOMAIN trades |-> Reserved(i)])
----------------------------------------------------------------------------
(* The exchange executes.  A market is reserved for one source while it has *)
(* a position or an unresolved entry; a close only reduces.                *)
FreeFor(s) ==
    \A o \in Sources \ {s} :
        src[o] = 0 /\ \A i \in DOMAIN trades : trades[i].by = o => Reserved(i) = 0

Execution(by, open, ask, size, tagged) ==
    trades' = Append(trades, [by |-> by, open |-> open, ask |-> ask, size |-> size,
                              tagged |-> tagged, known |-> FALSE])

OpenTrade(s, ask, size, tagged) ==
    /\ Len(trades) < MaxTrades /\ FreeFor(s) /\ size <= ask
    /\ Execution(s, TRUE, ask, size, tagged)
    /\ net' = net + size
    /\ UNCHANGED <<ledger, outside, run>>

CloseTrade(s, ask, tagged) ==
    /\ Len(trades) < MaxTrades /\ net > 0 /\ ask <= src[s]
    /\ Execution(s, FALSE, ask, Least(ask, net), tagged)
    /\ net' = net - Least(ask, net)
    /\ UNCHANGED <<ledger, outside, run>>

(* By hand, in another client, or a liquidation.                           *)
OutsideTrade(open, size) ==
    /\ Len(trades) < MaxTrades /\ (open \/ size <= net)
    /\ Execution(Exchange, open, size, size, FALSE)
    /\ net' = IF open THEN net + size ELSE net - size
    /\ outside' = IF open THEN outside + size ELSE outside
    /\ run' = IF open THEN [run EXCEPT !.out = @ + size] ELSE run
    /\ UNCHANGED ledger

(* The reply to a submission, or a lookup, reaches the order row.          *)
Learn(i) ==
    /\ trades[i].by \in Sources /\ ~trades[i].known
    /\ trades' = [trades EXCEPT ![i].known = TRUE]
    /\ UNCHANGED <<ledger, net, outside, run>>
----------------------------------------------------------------------------
(* fetch_live_fills_by_time: pages in the order of time, overlapping what  *)
(* is stored; a page that fails, or a limit, leaves the rest out.          *)
FetchFills ==
    /\ run.pc = "idle"
    /\ \E n \in Len(credit) .. Len(trades) :
         run' = [NoRun EXCEPT !.pc = "fills", !.upto = n, !.whole = (n = Len(trades))]
    /\ UNCHANGED <<trades, ledger, net, outside>>

(* fetch_live_perp_states: the market's scope answers or not.              *)
FetchPositions ==
    /\ run.pc = "fills"
    /\ \E read \in BOOLEAN :
         run' = [run EXCEPT !.pc = "read", !.read = read, !.pos = net, !.out = 0,
                            !.whole = @ /\ read]
    /\ UNCHANGED <<trades, ledger, net, outside>>

(* repair_unattributed_live_fills_from_order_ledger: an order whose        *)
(* identity became known takes its fill over.                              *)
FromOrders(c) == [i \in DOMAIN c |->
    IF c[i] = Exchange /\ trades[i].by \in Sources /\ (trades[i].known \/ trades[i].tagged)
    THEN trades[i].by ELSE c[i]]

(* infer_live_exchange_fill_source_attributions: the fills are replayed;   *)
(* an unmatched close goes to the only owner, if that owns enough.         *)
Owners(inventory) == {s \in Sources : inventory[s] > 0}

CloserOf(inventory, size) ==
    IF \E s \in Sources : Owners(inventory) = {s} /\ size <= inventory[s]
    THEN CHOOSE s \in Sources : Owners(inventory) = {s}
    ELSE Exchange

Replay(c) ==
    LET replay[n \in 0 .. Len(c)] ==
            IF n = 0 THEN [inventory |-> [s \in Sources |-> 0], credit |-> <<>>]
            ELSE LET before == replay[n - 1]
                     who == IF c[n] = Exchange /\ ~trades[n].open
                            THEN CloserOf(before.inventory, trades[n].size) ELSE c[n]
                 IN [credit |-> Append(before.credit, who),
                     inventory |-> IF who = Exchange THEN before.inventory
                                   ELSE [before.inventory EXCEPT ![who] =
                                           IF trades[n].open THEN @ + trades[n].size
                                           ELSE @ - Least(@, trades[n].size)]]
    IN replay[Len(c)]

FromInventory(c) == Replay(c).credit

(* reconcile_live_fills: the new fills in order.  An order's own fill is    *)
(* credited to its source and moves its position; a close without an order *)
(* goes to the only source with a position that covers it.                 *)
Credited(i, positions) ==
    CASE trades[i].by \in Sources /\ (trades[i].known \/ trades[i].tagged) -> trades[i].by
      [] trades[i].open -> Exchange
      [] OTHER -> CloserOf(positions, trades[i].size)

AppliedInFull(i, who, positions) ==
    IF who = Exchange THEN positions
    ELSE [positions EXCEPT ![who] = IF trades[i].open THEN @ + trades[i].size
                                    ELSE @ - trades[i].size]

(* apply_live_open_fill_to_position, apply_live_close_fill_to_position.    *)
Applied(i, who, positions) ==
    IF who = Exchange THEN positions
    ELSE [positions EXCEPT ![who] = IF trades[i].open THEN @ + trades[i].size
                                    ELSE @ - Least(@, trades[i].size)]

Imported(c, positions, upto) ==
    LET import[n \in Len(c) .. upto] ==
            IF n = Len(c) THEN [credit |-> c, src |-> positions]
            ELSE LET before == import[n - 1]
                     who == Credited(n, before.src)
                 IN [credit |-> Append(before.credit, who),
                     src |-> Applied(n, who, before.src)]
    IN import[upto]

(* sync_live_source_positions_from_exchange_positions: without a position  *)
(* at the exchange the sources' rows are removed, with a smaller one they  *)
(* are scaled down to it, and never up.                                    *)
Synced(positions, pos) ==
    LET total == Total(positions)
    IN [s \in Sources |-> IF pos < total THEN (positions[s] * pos) \div total
                          ELSE positions[s]]

ApplyReconciliation ==
    /\ run.pc = "read"
    /\ LET repaired == FromInventory(FromOrders(credit))
           imported == Imported(repaired, src, run.upto)
       IN /\ credit' = imported.credit
          /\ src' = IF run.read THEN Synced(imported.src, run.pos) ELSE imported.src
          /\ row' = IF run.read THEN run.pos ELSE row
    /\ complete' = run.whole
    /\ outside' = IF run.read THEN run.out ELSE outside
    /\ run' = NoRun
    /\ UNCHANGED <<trades, net>>

(* The run fails and is rolled back.                                       *)
FailReconciliation ==
    /\ run.pc # "idle" /\ run' = NoRun /\ complete' = FALSE
    /\ UNCHANGED <<trades, credit, src, row, net, outside>>

Next ==
    \/ \E s \in Sources, ask \in Lots, size \in Lots, tagged \in BOOLEAN :
         OpenTrade(s, ask, size, tagged)
    \/ \E s \in Sources, ask \in Lots, tagged \in BOOLEAN : CloseTrade(s, ask, tagged)
    \/ \E open \in BOOLEAN, size \in Lots : OutsideTrade(open, size)
    \/ \E i \in DOMAIN trades : Learn(i)
    \/ FetchFills \/ FetchPositions \/ ApplyReconciliation \/ FailReconciliation

Spec == Init /\ [][Next]_vars
----------------------------------------------------------------------------
(* After a complete reconciliation the entry gate misses neither a fill    *)
(* that is not imported yet nor exposure nobody is credited with: what it  *)
(* counts covers the position at the exchange, but for what was opened     *)
(* outside since.  And the sources together never own more than the        *)
(* position that was read.                                                 *)
NothingMissed ==
    complete => Exposure + outside >= net /\ Total(src) <= row

============================================================================
