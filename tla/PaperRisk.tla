----------------------------- MODULE PaperRisk -----------------------------
(***************************************************************************)
(* The risk of one paper account: the loop that liquidates its positions,  *)
(* charges them hourly funding and records its equity, and the loss limits *)
(* an entry of the copy engine has to pass.                                *)
(*                                                                         *)
(* Each part of a pass is a transaction of its own that first locks the    *)
(* accounts; the prices it uses were read before all of them.  The copy    *)
(* engine's writes are whole transactions here: what they do under         *)
(* concurrent readers is module PaperCopy.  Fees are left out, time counts *)
(* funding hours, a copy is opened in the hour of its source fill, and     *)
(* size * price is not rounded.                                            *)
(***************************************************************************)
EXTENDS Integers, Sequences, FiniteSets, FiniteSetsExt

CONSTANTS
    Coins, Prices, EntryLots,   \* lots entered at a time, negative ones short
    Isolated,               \* the coins held with isolated margin
    StartingBalance,
    Rate,                   \* funding of an hour, for each unit of notional
    EntryLeverage,          \* notional over margin
    MaxLeverage,            \* of the exchange, by coin
    DefaultLeverage,        \* when the exchange's is not known
    DayLimit, WeekLimit, PeakLimit, SourceLimit,    \* losses in percent, 0 for none
    Day, Week, Retention, Lookback, SnapshotEvery,  \* in hours
    MaxTime, MaxEntries, MaxRiskTroubles            \* bounds

(* Prices are positive; a funding rate may be negative.                    *)
ASSUME RiskAssumption ==
    /\ IsFiniteSet(Coins) /\ Prices \subseteq Nat /\ EntryLots \subseteq Int \ {0}
    /\ StartingBalance \in Nat /\ Rate \in Int /\ EntryLeverage \in Nat \ {0}
    /\ MaxLeverage \in [Coins -> Nat \ {0}] /\ DefaultLeverage \in Nat \ {0}
    /\ Day \in Nat /\ Week \in Nat /\ Retention \in Nat /\ Lookback \in Nat
    /\ SnapshotEvery \in Nat /\ MaxTime \in Nat /\ MaxEntries \in Nat /\ MaxRiskTroubles \in Nat

VARIABLES
    clock, price,
    account,    \* the row in paper_trading_accounts
    positions,  \* paper_positions, by coin
    payments,   \* paper_funding_payments
    snapshots,  \* paper_account_equity_snapshots, oldest first
    realized,   \* what closes and liquidations of each hour realized
    loop,       \* what the loop remembers between passes
    pass,       \* the pass it is in
    highest,    \* highest equity recorded since the balance was last reset
    used        \* entries so far, and the steps that Trouble counts

riskVars == <<clock, price, account, positions, payments, snapshots, realized, loop, pass, highest, used>>
riskBooks == <<account, positions, payments, snapshots, realized, highest>>
world == <<clock, price, used>>

(* Price moves, controls, crashes and missing answers, counted for the     *)
(* bound.                                                                  *)
Trouble == used.troubles < MaxRiskTroubles /\ used' = [used EXCEPT !.troubles = @ + 1]
----------------------------------------------------------------------------
NoPosition == [id |-> 0, size |-> 0, cost |-> 0, margin |-> 0, funding |-> 0, opened |-> 0]
Never == -1
Fresh == [snapshot |-> Never, funded |-> Never, leverages |-> {}, loaded |-> Never]
NoPass == [pc |-> "idle", now |-> 0, coins |-> {}, marks |-> <<>>]

Held == {c \in Coins : positions[c] # NoPosition}
Sum(f) == MapThenSumSet(LAMBDA x : f[x], DOMAIN f)
Known(marks, c) == c \in DOMAIN marks
Larger(m, n) == IF m > n THEN m ELSE n
Units(p) == Larger(p.size, -p.size)
Pnl(p, mark) == p.size * mark - p.cost
TotalPnl(book, S, marks) == Sum([c \in S |-> Pnl(book[c], marks[c])])

RiskTypeOK ==
    /\ clock \in 0..MaxTime /\ price \in [Coins -> Prices]
    /\ account \in [enabled : BOOLEAN, exit : BOOLEAN, cash : Int, funding : Int,
                    peak : Int, base : Nat]
    /\ \A c \in Held : positions[c].id \in 1..used.entries /\ positions[c].size # 0
    /\ \A n, k \in payments : n.id = k.id /\ n.hour = k.hour => n = k
    /\ pass.pc \in {"idle", "prices", "liquidate", "fund", "record"}
    /\ pass.coins \subseteq Coins

RiskInit ==
    /\ clock = 0 /\ price \in [Coins -> Prices]
    /\ account = [enabled |-> TRUE, exit |-> FALSE, cash |-> StartingBalance,
                  funding |-> 0, peak |-> Never, base |-> 0]
    /\ positions = [c \in Coins |-> NoPosition] /\ payments = {} /\ snapshots = <<>>
    /\ realized = [t \in 0..MaxTime |-> 0]
    /\ loop = Fresh /\ pass = NoPass
    /\ highest = Never /\ used = [entries |-> 0, troubles |-> 0]
----------------------------------------------------------------------------
(* Losses, measured on the recorded equity.                                *)
Lost(current, reference, limit) ==
    limit > 0 /\ reference > 0 /\ 100 * (reference - current) >= limit * reference

Latest == snapshots[Len(snapshots)].equity

EquityAt(time) ==
    LET past == {n \in DOMAIN snapshots : snapshots[n].at <= time}
    IN snapshots[IF past = {} THEN 1 ELSE Max(past)].equity

RetainedPeak(stored) == Max({0} \cup {snapshots[n].equity : n \in DOMAIN snapshots})
Peak(stored) == Larger(RetainedPeak(stored), stored)

Breached ==
    /\ snapshots # <<>>
    /\ \/ Lost(Latest, EquityAt(clock - Day), DayLimit)
       \/ Lost(Latest, EquityAt(clock - Week), WeekLimit)
       \/ Lost(Latest, Peak(account.peak), PeakLimit)

(* Realized in the window and unrealized now, against the cash: funding    *)
(* does not count.                                                         *)
SourceLoss(marks) ==
    -(Sum([t \in {h \in 0..MaxTime : h >= clock - Week} |-> realized[t]])
      + TotalPnl(positions, Held \cap DOMAIN marks, marks))

SourceLost(marks) ==
    /\ SourceLimit > 0
    /\ 100 * Larger(SourceLoss(marks), 0) >= SourceLimit * Larger(account.cash, 0)
----------------------------------------------------------------------------
(* The copy engine.  An entry that finds a limit breached makes the        *)
(* account exit-only and is skipped.                                       *)
Added(p, lots, mark) ==
    IF p = NoPosition
    THEN [id |-> used.entries + 1, size |-> lots, cost |-> lots * mark, funding |-> 0,
          margin |-> (Larger(lots, -lots) * mark) \div EntryLeverage, opened |-> clock]
    ELSE [p EXCEPT !.size = @ + lots, !.cost = @ + lots * mark,
                   !.margin = @ + (Larger(lots, -lots) * mark) \div EntryLeverage]

Tripped == [account EXCEPT !.exit = TRUE]

Enter(c) ==
    /\ account.enabled /\ ~account.exit /\ used.entries < MaxEntries
    /\ used' = [used EXCEPT !.entries = @ + 1]
    /\ IF Breached
       THEN account' = Tripped /\ positions' = positions
       ELSE /\ ~SourceLost(price) /\ account' = account
            /\ \E lots \in EntryLots :
                 /\ positions[c].size * lots >= 0
                 /\ positions' = [positions EXCEPT ![c] = Added(@, lots, price[c])]
    /\ UNCHANGED <<clock, price, payments, snapshots, realized, loop, pass, highest>>

(* cash, and the hour's realized results, after results by coin are booked *)
Booked(results) ==
    /\ account' = [account EXCEPT !.cash = @ + Sum(results)]
    /\ realized' = [realized EXCEPT ![clock] = @ + Sum(results)]

(* A partial close takes its share of the margin and none of the funding.  *)
Reduced(p, units) ==
    LET left == Units(p) - units
    IN IF left = 0 THEN NoPosition
       ELSE [p EXCEPT !.size = (@ * left) \div Units(p), !.cost = (@ * left) \div Units(p),
                      !.margin = (@ * left) \div Units(p)]

Exit(c) ==
    /\ account.enabled /\ positions[c] # NoPosition
    /\ \E units \in 1..Units(positions[c]) :
         /\ positions' = [positions EXCEPT ![c] = Reduced(@, units)]
         /\ Booked([x \in {c} |-> (Pnl(positions[c], price[c]) * units) \div Units(positions[c])])
    /\ UNCHANGED <<clock, price, payments, snapshots, loop, pass, highest, used>>
----------------------------------------------------------------------------
(* The account controls.  A new configuration sets enabled and lifts no    *)
(* limit; starting the account does.                                       *)
EnableAccount(on) ==
    /\ Trouble /\ (account.enabled # on \/ account.exit)
    /\ account' = [account EXCEPT !.enabled = on, !.exit = @ /\ ~on]
    /\ UNCHANGED <<clock, price, positions, payments, snapshots, realized, loop, pass, highest>>

Configure ==
    /\ Trouble /\ account' = [account EXCEPT !.enabled = ~@]
    /\ UNCHANGED <<clock, price, positions, payments, snapshots, realized, loop, pass, highest>>

Reset ==
    /\ ~account.enabled /\ Held = {} /\ account.base < used.entries
    /\ account' = [account EXCEPT !.cash = StartingBalance, !.funding = 0, !.peak = Never,
                                  !.exit = FALSE, !.base = used.entries]
    /\ snapshots' = <<>> /\ highest' = Never
    /\ UNCHANGED <<world, positions, payments, realized, loop, pass>>
----------------------------------------------------------------------------
(* A pass of the loop.  Coins are those held when it began; a coin opened  *)
(* since, or one the exchange gives no price for, has no mark.             *)
Begin ==
    /\ pass.pc = "idle"
    /\ pass' = [pc |-> "prices", now |-> clock, coins |-> Held, marks |-> <<>>]
    /\ UNCHANGED <<world, riskBooks, loop>>

LoadPrices ==
    /\ pass.pc = "prices"
    /\ \E priced \in SUBSET pass.coins, known \in SUBSET Coins :
         /\ pass' = [pass EXCEPT !.pc = "liquidate", !.marks = [c \in priced |-> price[c]]]
         /\ loop' = IF pass.coins # {} /\ (loop.loaded = Never \/ pass.now > loop.loaded)
                    THEN [loop EXCEPT !.leverages = known, !.loaded = pass.now] ELSE loop
         /\ IF priced = pass.coins /\ known = Coins THEN used' = used ELSE Trouble
    /\ UNCHANGED <<clock, price, riskBooks>>

(* equity <= notional / (2 * maximum leverage), the maintenance margin.    *)
Maintenance(book, S) ==
    Sum([c \in S |-> (Units(book[c]) * pass.marks[c] * 1000) \div
            (2 * (IF c \in loop.leverages THEN MaxLeverage[c] ELSE DefaultLeverage))])

IsolatedDue(c) ==
    1000 * (positions[c].margin + Pnl(positions[c], pass.marks[c]) + positions[c].funding)
        <= Maintenance(positions, {c})

CrossDue(cash, S) ==
    1000 * (cash - Sum([c \in S \cap Isolated |-> positions[c].margin])
            + TotalPnl(positions, S \ Isolated, pass.marks))
        <= Maintenance(positions, S \ Isolated)

(* An isolated position loses no more than its margin.                     *)
LiquidationResult(c) ==
    IF c \in Isolated
    THEN Larger(Pnl(positions[c], pass.marks[c]), -(positions[c].margin + positions[c].funding))
    ELSE Pnl(positions[c], pass.marks[c])

(* Isolated positions first; what they lose is gone when the cross account *)
(* is valued, and one cross position with no price spares them all.        *)
Liquidate ==
    /\ pass.pc = "liquidate"
    /\ LET isolated == {c \in Held \cap Isolated : Known(pass.marks, c) /\ IsolatedDue(c)}
           left == Held \ isolated
           cash == account.cash + Sum([c \in isolated |-> LiquidationResult(c)])
           cross == left \ Isolated
           gone == IF cross # {} /\ cross \subseteq DOMAIN pass.marks /\ CrossDue(cash, left)
                   THEN isolated \cup cross ELSE isolated
       IN IF pass.coins = {} THEN UNCHANGED <<account, positions, realized>>
          ELSE /\ Booked([c \in gone |-> LiquidationResult(c)])
               /\ positions' = [c \in Coins |-> IF c \in gone THEN NoPosition ELSE positions[c]]
    /\ pass' = [pass EXCEPT !.pc = "fund"]
    /\ UNCHANGED <<world, payments, snapshots, loop, highest>>

(* The hours not yet in paper_funding_payments, whose unique key is the    *)
(* position and the hour.                                                  *)
HoursHeld(c, hours) == {h \in hours : positions[c].opened < h /\ h <= pass.now}

Unpaid(c, hours) ==
    {h \in HoursHeld(c, hours) : ~\E n \in payments : n.id = positions[c].id /\ n.hour = h}

(* Every hour is paid on the size and the price of now, a missed one too.  *)
Payment(c) == -(positions[c].size * pass.marks[c] * Rate)

Charge(hours) ==
    LET start == Larger(Min({positions[c].opened : c \in Held}), pass.now - Lookback)
        due == [c \in Held \cap DOMAIN pass.marks |->
                    Unpaid(c, {h \in hours[c] : h >= start})]
        Amount(c) == Payment(c) * Cardinality(due[c])
        sum == Sum([c \in DOMAIN due |-> Amount(c)])
    IN /\ positions' = [c \in Coins |-> IF c \in DOMAIN due
                    THEN [positions[c] EXCEPT !.funding = @ + Amount(c)] ELSE positions[c]]
       /\ account' = [account EXCEPT !.cash = @ + sum, !.funding = @ + sum]
       /\ payments' = payments \cup UNION {{[id |-> positions[c].id, hour |-> h, amount |-> Payment(c)]
                                            : h \in due[c]} : c \in DOMAIN due}

(* An hour is read once, from its second minute on; the exchange may not   *)
(* have published it yet, and the request may fail.                        *)
ReadFunding ==
    /\ loop' = [loop EXCEPT !.funded = pass.now]
    /\ IF Held = {} THEN UNCHANGED <<account, positions, payments, used>>
       ELSE \E upto \in [Held -> {Never, pass.now - 1, pass.now}] :
              /\ Charge([c \in Held |-> 1..upto[c]])
              /\ IF \A c \in Held : upto[c] = pass.now THEN used' = used ELSE Trouble

Fund ==
    /\ pass.pc = "fund" /\ pass' = [pass EXCEPT !.pc = "record"]
    /\ IF pass.coins = {} \/ loop.funded = pass.now
       THEN UNCHANGED <<account, positions, payments, loop, used>>
       ELSE \/ ReadFunding
            \/ Trouble /\ UNCHANGED <<account, positions, payments, loop>>   \* the first minute
    /\ UNCHANGED <<clock, price, snapshots, realized, highest>>

(* Snapshots are in the order of their time: the old ones come first.      *)
Retained(all, time) ==
    SubSeq(all, Cardinality({n \in DOMAIN all : all[n].at < time}) + 1, Len(all))

(* An account with a position that has no price is not recorded.           *)
Record ==
    /\ pass.pc = "record"
    /\ IF loop.snapshot # Never /\ pass.now - loop.snapshot < SnapshotEvery
       THEN UNCHANGED <<account, snapshots, loop, highest>>
       ELSE LET equity == Larger(account.cash + TotalPnl(positions, Held, pass.marks), 0)
                all == IF Held \subseteq DOMAIN pass.marks
                       THEN Append(snapshots, [at |-> pass.now, equity |-> equity])
                       ELSE snapshots
            IN /\ snapshots' = Retained(all, pass.now - Retention)
               /\ IF Held \subseteq DOMAIN pass.marks
                  THEN /\ account' = [account EXCEPT !.peak = Larger(@, equity)]
                       /\ highest' = Larger(highest, equity)
                  ELSE UNCHANGED <<account, highest>>
               /\ loop' = [loop EXCEPT !.snapshot = pass.now]
    /\ pass' = NoPass
    /\ UNCHANGED <<world, positions, payments, realized>>

(* The worker stops: a transaction under way is rolled back.               *)
Crash ==
    /\ Trouble /\ loop' = Fresh /\ pass' = NoPass /\ <<loop, pass>> # <<Fresh, NoPass>>
    /\ UNCHANGED <<clock, price, riskBooks>>
----------------------------------------------------------------------------
Tick ==
    /\ clock < MaxTime /\ clock' = clock + 1
    /\ UNCHANGED <<price, used, riskBooks, loop, pass>>

Move(c) ==
    /\ Trouble
    /\ \E p \in Prices \ {price[c]} : price' = [price EXCEPT ![c] = p]
    /\ UNCHANGED <<clock, riskBooks, loop, pass>>

RiskNext ==
    \/ \E c \in Coins : Enter(c) \/ Exit(c) \/ Move(c)
    \/ \E on \in BOOLEAN : EnableAccount(on)
    \/ Configure \/ Reset
    \/ Begin \/ LoadPrices \/ Liquidate \/ Fund \/ Record \/ Crash \/ Tick

RiskSpec == RiskInit /\ [][RiskNext]_riskVars
----------------------------------------------------------------------------
(* What passes charge, over failures, restarts and the hours they read     *)
(* again, is each position and hour once: the funding in the account and   *)
(* in the open positions is what the stored payments add up to.            *)
FundingBooked ==
    LET Paid(S) == Sum([n \in S |-> n.amount])
    IN /\ account.funding = Paid({n \in payments : n.id > account.base})
       /\ \A c \in Held : positions[c].funding = Paid({n \in payments : n.id = positions[c].id})

(* No entry grows the account's positions while its recorded equity is     *)
(* under its highest ever, since the last reset, by the drawdown limit:    *)
(* not after old snapshots are pruned, nor after the account was started   *)
(* again, which lifts exit-only but not the drawdown.                      *)
EntryAboveDrawdown ==
    \A c \in Coins : snapshots # <<>> /\ Units(positions'[c]) > Units(positions[c])
        => ~Lost(Latest, highest, PeakLimit)

DrawdownHeld == [][EntryAboveDrawdown]_riskVars
=============================================================================
