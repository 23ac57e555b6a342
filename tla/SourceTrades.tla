---------------------------- MODULE SourceTrades ----------------------------
(***************************************************************************)
(* The trades of one wallet on one coin, reconstructed from its stored     *)
(* fills and kept in source_trades: the synchronizations that rebuild them *)
(* when the fills changed (a scoring run, a request for the wallet's       *)
(* page), the two cleanups, and the database under them.                   *)
(*                                                                         *)
(* A database statement sees what was committed when it began, and a       *)
(* transaction that meets another's uncommitted rows waits for it, so that *)
(* a transaction takes effect when it commits.                             *)
(***************************************************************************)
EXTENDS Integers, FiniteSets, FiniteSetsExt, Folds

CONSTANTS
    Syncs,          \* what may synchronize the wallet at one time
    Sizes,          \* the signed sizes the wallet trades
    MaxTraded,      \* bound: fills of the wallet
    MaxRevision     \* bound: changes of the stored fills

ASSUME TradesAssumption ==
    Sizes \subseteq Int \ {0} /\ MaxTraded \in Nat /\ MaxRevision \in Nat

VARIABLES
    traded,     \* the wallet's fills at the exchange
    walletFills, \* those in wallet_fills
    revision,   \* watched_wallets.fill_revision
    trades,     \* source_trades
    marks,      \* source_trade_ignored_fills
    synced,     \* source_trade_sync_states.fill_revision
    sync,       \* the synchronizations under way
    sweep       \* the retention run under way

tradeVars == <<traded, walletFills, revision, trades, marks, synced, sync, sweep>>
----------------------------------------------------------------------------
Missing == -1
Fills == [at : 1..MaxTraded, id : 1..MaxTraded, size : Sizes, start : Int]
NoSync == [step |-> "idle", rev |-> Missing, trades |-> {}, marks |-> {},
         oldTrades |-> {}, oldMarks |-> {}]
NoSweep == [step |-> "none", cutoff |-> 0]

TradesTypeOK ==
    /\ walletFills \subseteq traded /\ \A f \in traded : f \in Fills
    /\ revision \in 0..MaxRevision /\ synced \in {Missing} \cup 0..MaxRevision
    /\ \A s \in Syncs : sync[s].step \in {"idle", "found", "rebuilt", "trades", "marks"}
    /\ \A t, u \in trades : t.key = u.key => t = u
    /\ sweep \in [step : {"none", "trades", "marks"}, cutoff : 0..MaxTraded]

TradesInit ==
    /\ traded = {} /\ walletFills = {} /\ revision = 0
    /\ trades = {} /\ marks = {} /\ synced = Missing
    /\ sync = [s \in Syncs |-> NoSync] /\ sweep = NoSweep
----------------------------------------------------------------------------
Magnitude(n) == IF n < 0 THEN -n ELSE n
Smaller(m, n) == IF m < n THEN m ELSE n

(* A fill's id orders it among those of the same millisecond; it says      *)
(* nothing of the order in which they happened.                            *)
Before(f, g) == f.at < g.at \/ (f.at = g.at /\ f.id < g.id)

(* The exchange's side: the position before the fill comes with it.        *)
Position == MapThenSumSet(LAMBDA f : f.size, traded)
Now == IF traded = {} THEN 1 ELSE Max({f.at : f \in traded})
Trade ==
    /\ Cardinality(traded) < MaxTraded
    /\ \E q \in Sizes, at \in {Now, Now + 1} \cap 1..MaxTraded,
          id \in 1..MaxTraded \ {f.id : f \in traded} :
          /\ at > Now => id = Min(1..MaxTraded \ {f.id : f \in traded})
          /\ traded' = traded \cup {[at |-> at, id |-> id, size |-> q, start |-> Position]}
    /\ UNCHANGED <<walletFills, revision, trades, marks, synced, sync, sweep>>

(* The triggers of wallet_fills, in the transaction that changes it.       *)
Bumped(changed) == revision + Cardinality(changed)

(* Fills arrive from the stream and from imports, the old ones included.   *)
Import ==
    /\ \E new \in SUBSET (traded \ walletFills) :
          /\ new # {} /\ Bumped(new) <= MaxRevision
          /\ walletFills' = walletFills \cup new /\ revision' = Bumped(new)
    /\ UNCHANGED <<traded, trades, marks, synced, sync, sweep>>
----------------------------------------------------------------------------
(* Reconstruction: a fold over the stored fills.  At most one trade is     *)
(* open on each side; a fill that no trade explains is ignored.            *)
Sides == {"long", "short"}
NoTrade == [opened |-> 0, entry |-> 0, closed |-> 0]
Nothing == [open |-> [s \in Sides |-> NoTrade], done |-> {}, ignored |-> {}]

IsOpen(r, side) == r.open[side] # NoTrade
Ignore(r, f, reason) ==
    [r EXCEPT !.ignored = @ \cup {[id |-> f.id, at |-> f.at, reason |-> reason]}]

Row(side, t, status, at, n) ==
    [key |-> <<side, t.opened, at, n>>, status |-> status,
     at |-> at, entry |-> t.entry, closed |-> t.closed]

Held(start, side) == IF side = "long" THEN start > 0 ELSE start < 0

AddEntry(t, at, size) ==
    [t EXCEPT !.opened = IF t = NoTrade THEN at ELSE @, !.entry = @ + size]
AddClose(t, size) == [t EXCEPT !.closed = @ + Smaller(size, t.entry - t.closed)]
IsClosed(t) == t.closed = t.entry

ApplyOpen(r, f, size, start, side) ==
    IF ~IsOpen(r, side) /\ Held(start, side) THEN Ignore(r, f, "preexisting_open")
    ELSE [r EXCEPT !.open[side] = AddEntry(@, f.at, size)]

RecordClosed(r, side, t, at) ==
    [r EXCEPT !.open[side] = NoTrade,
              !.done = @ \cup {Row(side, t, "closed", at, Cardinality(@) + 1)}]

ApplyClose(r, f, size, side) ==
    LET t == r.open[side]
        after == AddClose(t, size)
        noted == IF after.closed - t.closed < size THEN Ignore(r, f, "unmatched_close") ELSE r
    IN  IF ~IsOpen(r, side) THEN noted
        ELSE IF IsClosed(after) THEN RecordClosed(noted, side, after, f.at)
        ELSE [noted EXCEPT !.open[side] = after]

FlipClose(size, start, from) ==
    Smaller(size, IF from = "short" THEN Magnitude(start) ELSE IF start > 0 THEN start ELSE 0)
ApplyFlip(r, f, size, start, from, to) ==
    LET part == FlipClose(size, start, from)
        left == IF part > 0 THEN ApplyClose(r, f, part, from) ELSE r
    IN  IF size > part THEN ApplyOpen(left, f, size - part, 0, to) ELSE left

(* The exchange names a fill by where it takes the position.               *)
ApplyFill(r, f) ==
    LET size == Magnitude(f.size)
        to == IF f.size > 0 THEN "long" ELSE "short"
        from == IF f.size > 0 THEN "short" ELSE "long"
    IN  IF ~Held(f.start, from) THEN ApplyOpen(r, f, size, f.start, to)
        ELSE IF size <= Magnitude(f.start) THEN ApplyClose(r, f, size, from)
        ELSE ApplyFlip(r, f, size, f.start, from, to)

(* What is still open comes last, in the order it was opened.              *)
OpenSides(r) == {s \in Sides : IsOpen(r, s)}
Place(r, side) ==
    LET opened(s) == r.open[s].opened
    IN  Cardinality({s \in OpenSides(r) : \/ s = side \/ opened(s) < opened(side)
                                         \/ (opened(s) = opened(side) /\ s = "long")})
WithOpen(r) ==
    r.done \cup {Row(side, r.open[side], "open", 0, Cardinality(r.done) + Place(r, side))
                 : side \in OpenSides(r)}

Latest(S) == CHOOSE f \in S : \A g \in S : g = f \/ Before(g, f)
Reconstruct(stored) ==
    MapThenFoldSet(LAMBDA f, r : ApplyFill(r, f), Nothing, LAMBDA f : f, Latest, stored)
TradesOf(stored) == WithOpen(Reconstruct(stored))
MarksOf(stored) == Reconstruct(stored).ignored
----------------------------------------------------------------------------
(* sync_materialized_source_trades, statement by statement.                *)
Find(s) ==
    /\ sync[s].step = "idle" /\ synced # revision
    /\ sync' = [sync EXCEPT ![s] = [NoSync EXCEPT !.step = "found", !.rev = revision]]
    /\ UNCHANGED <<traded, walletFills, revision, trades, marks, synced, sweep>>

Rebuild(s) ==
    /\ sync[s].step = "found"
    /\ sync' = [sync EXCEPT ![s] = [@ EXCEPT
            !.step = "rebuilt", !.trades = TradesOf(walletFills), !.marks = MarksOf(walletFills)]]
    /\ UNCHANGED <<traded, walletFills, revision, trades, marks, synced, sweep>>

DeleteTrades(s) ==
    /\ sync[s].step = "rebuilt"
    /\ sync' = [sync EXCEPT ![s] = [@ EXCEPT !.step = "trades", !.oldTrades = trades]]
    /\ UNCHANGED <<traded, walletFills, revision, trades, marks, synced, sweep>>

DeleteMarks(s) ==
    /\ sync[s].step = "trades"
    /\ sync' = [sync EXCEPT ![s] = [@ EXCEPT !.step = "marks", !.oldMarks = marks]]
    /\ UNCHANGED <<traded, walletFills, revision, trades, marks, synced, sweep>>

(* The unique keys of both tables decide whether the transaction commits.  *)
Keys(rows) == {t.key : t \in rows}
Facts(ignored) == {<<m.id, m.reason>> : m \in ignored}
SyncedAtCommit(s) == revision
SyncedAt(s) == sync[s].rev
Commit(s) ==
    LET w == sync[s] IN
    /\ w.step = "marks"
    /\ IF \/ Keys(trades \ w.oldTrades) \cap Keys(w.trades) # {}
          \/ Facts(marks \ w.oldMarks) \cap Facts(w.marks) # {}
       THEN UNCHANGED <<trades, marks, synced>>
       ELSE /\ trades' = (trades \ w.oldTrades) \cup w.trades
            /\ marks' = (marks \ w.oldMarks) \cup w.marks
            /\ synced' = SyncedAt(s)
    /\ sync' = [sync EXCEPT ![s] = NoSync]
    /\ UNCHANGED <<traded, walletFills, revision, sweep>>

(* A canceled run, a failed statement or the end of the process.           *)
Rollback(s) ==
    /\ sync[s].step # "idle"
    /\ sync' = [sync EXCEPT ![s] = NoSync]
    /\ UNCHANGED <<traded, walletFills, revision, trades, marks, synced, sweep>>
----------------------------------------------------------------------------
(* The rest of a transaction that took fills away.                         *)
Drop(gone) ==
    /\ walletFills' = walletFills \ gone
    /\ Bumped(gone) <= MaxRevision /\ revision' = Bumped(gone)
    /\ synced' = Missing

(* cleanup_ignored_wallet_fills deletes some of the marked fills.          *)
Unneeded(m) ==
    m.reason = "unmatched_close" => ~\E t \in trades : t.status = "closed" /\ t.at = m.at
CleanupCandidates(cutoff) ==
    {m \in marks : m.at < cutoff /\ Unneeded(m) /\ \E f \in walletFills : f.id = m.id}
CleanUp ==
    /\ \E cutoff \in 1..(MaxTraded + 1) : \E some \in SUBSET CleanupCandidates(cutoff) :
          LET ids == {m.id : m \in some} IN
          /\ some # {}
          /\ Drop({f \in walletFills : f.id \in ids})
          /\ marks' = {m \in marks : m.id \notin ids}
    /\ UNCHANGED <<traded, trades, sync, sweep>>

(* cleanup_wallet_fill_retention: three transactions, in order.            *)
RetainFills ==
    /\ sweep = NoSweep
    /\ \E cutoff \in 2..MaxTraded :
          LET old == {f \in walletFills : f.at < cutoff} IN
          /\ IF old # {} THEN Drop(old) ELSE UNCHANGED <<walletFills, revision, synced>>
          /\ sweep' = [step |-> "trades", cutoff |-> cutoff]
    /\ UNCHANGED <<traded, trades, marks, sync>>

RetainTrades ==
    LET old == {t \in trades : t.status = "closed" /\ t.at < sweep.cutoff} IN
    /\ sweep.step = "trades"
    /\ trades' = trades \ old
    /\ synced' = IF old = {} THEN synced ELSE Missing
    /\ sweep' = [sweep EXCEPT !.step = "marks"]
    /\ UNCHANGED <<traded, walletFills, revision, marks, sync>>

RetainMarks ==
    LET old == {m \in marks : m.at < sweep.cutoff} IN
    /\ sweep.step = "marks"
    /\ marks' = marks \ old
    /\ synced' = IF old = {} THEN synced ELSE Missing
    /\ sweep' = NoSweep
    /\ UNCHANGED <<traded, walletFills, revision, trades, sync>>

RetentionFails ==
    /\ sweep # NoSweep /\ sweep' = NoSweep
    /\ UNCHANGED <<traded, walletFills, revision, trades, marks, synced, sync>>
----------------------------------------------------------------------------
Synchronize(s) ==
    Find(s) \/ Rebuild(s) \/ DeleteTrades(s) \/ DeleteMarks(s) \/ Commit(s) \/ Rollback(s)

TradesNext ==
    \/ Trade \/ Import \/ \E s \in Syncs : Synchronize(s)
    \/ CleanUp \/ RetainFills \/ RetainTrades \/ RetainMarks \/ RetentionFails

TradesSpec == TradesInit /\ [][TradesNext]_tradeVars
----------------------------------------------------------------------------
(* Fills that arrive while the trades are rebuilt are never taken for      *)
(* reconstructed: as long as the wallet counts as synchronized, every      *)
(* trade and every ignored fill its stored fills lead to is in the tables, *)
(* whatever synchronizations and cleanups overlapped.                      *)
SyncedIsComplete ==
    synced = revision => TradesOf(walletFills) \subseteq trades /\ MarksOf(walletFills) \subseteq marks
=============================================================================
