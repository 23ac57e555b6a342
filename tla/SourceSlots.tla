----------------------------- MODULE SourceSlots ----------------------------
(***************************************************************************)
(* Which sources are followed in real time.  There are fewer places than   *)
(* sources: an allocation refresh ranks the pool, gives the sources that   *)
(* copies are still held from their places first, and the realtime loop    *)
(* subscribes to what it selected.  Meanwhile scores change, the operator  *)
(* edits wallets, cleanup archives and deletes them, and engines open      *)
(* copies from allocations they read earlier.                              *)
(***************************************************************************)
EXTENDS Integers, FiniteSets, Sequences, SequencesExt

CONSTANTS
    Wallets,      \* addresses, as integers: lists are sorted by address
    Slots,        \* max_realtime_wallets
    Top,          \* trading_copy_top_wallet_count
    Profiles,     \* what scoring and cleanup may find out about a wallet
    MinTrades, MaxDrawdown, MinClosed, MinScore, MaxLoss,    \* thresholds
    MaxChanges    \* bound: what scoring, discovery, cleanup, the operator, other
                  \* refreshes and crashes do

ASSUME SlotsAssumption ==
    /\ Wallets \subseteq Int /\ IsFiniteSet(Wallets)
    /\ \A p \in Profiles : p.score \in Int
    /\ Slots \in Nat /\ MaxChanges \in Nat

VARIABLES
    live,       \* live trading is enabled
    watched,    \* watched_wallets: none, or the state of the row
    profile,    \* wallet_scores and what cleanup reads next to it
    exposure,   \* copies held from a wallet
    active,     \* active allocations, and with them the eligibility epochs
    lanes,      \* live lanes that accept entries
    snapshot,   \* AllocationSnapshotCache: the active allocations
    taken,      \* the active allocations an engine is working with
    refresh,    \* the allocation refresh of the realtime loop
    other,      \* an allocation refresh of anything else
    stream,     \* the WebSocket subscription
    cleanup,    \* a cleanup under way
    changes     \* bound: MaxChanges

records == <<watched, profile>>
copies == <<exposure, taken>>
chosen == <<active, lanes, snapshot>>
loops == <<refresh, other, stream>>
slotVars == <<live, records, copies, chosen, loops, cleanup, changes>>
----------------------------------------------------------------------------
Unscored == [score |-> -1, ok |-> FALSE, polled |-> FALSE, fills |-> "none",
             closed |-> 0, drawdown |-> 0, loss |-> 0, holds |-> FALSE]
RowStates == {"none", "pool", "kept", "cooldown", "disabled", "archived"}

NoRefresh == [pc |-> "idle", slots |-> {}, active |-> {}, open |-> {},
              owned |-> {}, read |-> {}, order |-> <<>>]
NoStream == [status |-> "off", desired |-> <<>>, acked |-> {}, read |-> {}]
NoCleanup == [pc |-> "idle", deletes |-> FALSE, wallets |-> {}]

SlotsTypeOK ==
    /\ live \in BOOLEAN /\ watched \in [Wallets -> RowStates]
    /\ profile \in [Wallets -> Profiles \cup {Unscored}]
    /\ exposure \in [Wallets -> {"none", "paper", "live"}]
    /\ active \subseteq Wallets /\ lanes \subseteq Wallets
    /\ snapshot \subseteq Wallets /\ taken \subseteq Wallets
    /\ refresh.pc \in {"idle", "loaded", "owned"} /\ other.pc \in {"idle", "loaded"}
    /\ stream.status \in {"off", "connecting", "connected"}
    /\ stream.acked \subseteq ToSet(stream.desired) /\ Len(stream.desired) <= Slots
    /\ cleanup.pc \in {"idle", "chosen", "checked"} /\ cleanup.wallets \subseteq Wallets
    /\ changes \in 0..MaxChanges

SlotsInit ==
    /\ live \in BOOLEAN
    /\ watched = [w \in Wallets |-> "pool"]
    /\ profile \in [Wallets -> Profiles]
    /\ exposure = [w \in Wallets |-> "none"]
    /\ active = {} /\ lanes = {} /\ taken = {}
    /\ snapshot = {} /\ refresh = NoRefresh /\ other = NoRefresh
    /\ stream = NoStream /\ cleanup = NoCleanup /\ changes = 0
----------------------------------------------------------------------------
(* Scoring, discovery and the operator.                                    *)
Change ==
    /\ changes < MaxChanges /\ changes' = changes + 1
    /\ UNCHANGED <<copies, chosen>>

Enabled(w) == watched[w] \in {"pool", "kept", "cooldown"}

Rescore(w, p) ==
    /\ Enabled(w) /\ profile[w] # p
    /\ profile' = [profile EXCEPT ![w] = p]
    /\ Change /\ UNCHANGED <<live, watched, loops, cleanup>>

\* PATCH of a wallet: enabling an archived wallet returns it to the pool.
Edit(w, r) ==
    /\ watched[w] \notin {"none", r} /\ r \in RowStates \ {"none", "archived"}
    /\ watched' = [watched EXCEPT ![w] = r]
    /\ Change /\ UNCHANGED <<live, profile, loops, cleanup>>

\* A new wallet, or an archived one that passed discovery again.
Admit(w) ==
    /\ watched[w] \in {"none", "archived"}
    /\ watched' = [watched EXCEPT ![w] = "pool"]
    /\ UNCHANGED <<live, profile, copies, chosen, loops, cleanup, changes>>
----------------------------------------------------------------------------
(* Cleanup.  Every rule spares the protected wallets.                      *)
Protected(w) == watched[w] = "kept" \/ w \in active \/ exposure[w] # "none" \/ profile[w].holds

ZeroFills(w) == profile[w].polled /\ profile[w].fills = "none"
StaleFills(w) == profile[w].polled /\ profile[w].fills = "old"
Scored(w) == profile[w] # Unscored /\ profile[w].polled
FewTrades(w) == Scored(w) /\ profile[w].closed < MinTrades
DeepDrawdown(w) == Scored(w) /\ profile[w].drawdown >= MaxDrawdown
LowScore(w) == Scored(w) /\ profile[w].closed >= MinClosed /\ profile[w].score < MinScore

\* Asked at the exchange, of enabled wallets, polled before or not.
OpenLoss(w) == watched[w] \in {"pool", "cooldown"} /\ profile[w].loss >= MaxLoss

Spared(w) == watched[w] \in {"none", "kept", "archived"} \/ Protected(w)

Select(rule) ==
    LET found == {w \in rule : ~Spared(w)}
    IN  found # {} /\ cleanup' = [pc |-> "chosen", deletes |-> FALSE, wallets |-> found]

Prune ==
    /\ cleanup = NoCleanup
    /\ \/ Select({w \in Wallets : ZeroFills(w)})
       \/ Select({w \in Wallets : StaleFills(w)})
       \/ Select({w \in Wallets : FewTrades(w)})
       \/ Select({w \in Wallets : DeepDrawdown(w)})
       \/ Select({w \in Wallets : LowScore(w)})
       \/ Select({w \in Wallets : OpenLoss(w)})
    /\ Change /\ UNCHANGED <<live, records, loops>>

DeleteWallet(w) ==
    /\ cleanup = NoCleanup /\ watched[w] # "none"
    /\ cleanup' = [pc |-> "chosen", deletes |-> TRUE, wallets |-> {w}]
    /\ Change /\ UNCHANGED <<live, records, loops>>

\* Protection is looked up again, a statement before the change itself.
Recheck ==
    /\ cleanup.pc = "chosen"
    /\ LET left == {w \in cleanup.wallets : ~Protected(w)}
       IN  cleanup' = IF left = {} THEN NoCleanup
                    ELSE [cleanup EXCEPT !.pc = "checked", !.wallets = left]
    /\ UNCHANGED <<live, records, copies, chosen, loops, changes>>

Archive ==
    /\ cleanup.pc = "checked" /\ ~cleanup.deletes
    /\ LET gone == {w \in cleanup.wallets : watched[w] \notin {"none", "archived"}}
       IN  /\ watched' = [w \in Wallets |-> IF w \in gone THEN "archived" ELSE watched[w]]
           /\ profile' = [w \in Wallets |-> IF w \in gone THEN Unscored ELSE profile[w]]
    /\ cleanup' = NoCleanup
    /\ UNCHANGED <<live, copies, chosen, loops, changes>>

\* With the rows that the wallet owns, its allocation included.
Delete ==
    /\ cleanup.pc = "checked" /\ cleanup.deletes
    /\ watched' = [w \in Wallets |-> IF w \in cleanup.wallets THEN "none" ELSE watched[w]]
    /\ profile' = [w \in Wallets |-> IF w \in cleanup.wallets THEN Unscored ELSE profile[w]]
    /\ active' = active \ cleanup.wallets
    /\ cleanup' = NoCleanup
    /\ UNCHANGED <<live, copies, lanes, snapshot, loops, changes>>
----------------------------------------------------------------------------
(* Selection.                                                              *)
\* A source that copies are held from is watched again if its row is gone.
Restored(w) == IF watched[w] = "none" /\ exposure[w] # "none" THEN "pool" ELSE watched[w]

Pooled(w) == Restored(w) \in {"pool", "kept"} /\ profile[w].score > 0

RanksBefore(a, b) ==
    IF Pooled(a) # Pooled(b) THEN Pooled(a)
    ELSE IF profile[a].score # profile[b].score THEN profile[a].score > profile[b].score
    ELSE a < b

(* The members of S in an order, a set of pairs.                           *)
Sorted(S, order) ==
    CHOOSE s \in SetToSeqs(S) : \A i, j \in DOMAIN s : i < j => <<s[i], s[j]>> \in order
ByRank == {p \in Wallets \X Wallets : RanksBefore(p[1], p[2])}
ByAddress == {p \in Wallets \X Wallets : p[1] < p[2]}
As(s) == {p \in Wallets \X Wallets : \E i, j \in DOMAIN s : i < j /\ p = <<s[i], s[j]>>}

First(S, n) == {w \in S : Cardinality({v \in S : RanksBefore(v, w)}) < n}

Candidates == First({w \in Wallets : Pooled(w) /\ profile[w].ok}, Top)

\* Open positions, unresolved orders and unresolved exits, whatever became of
\* the wallet's row.
LiveSources == {w \in Wallets : exposure[w] = "live"}
WatchedSources == {w \in Wallets : exposure[w] # "none" /\ Enabled(w)}
OpenSources == {w \in Wallets : exposure[w] # "none"}

PaperFirst == IF live THEN LiveSources ELSE OpenSources

SlotSources ==
    LET held == First(PaperFirst, Slots)
    IN  held \cup First(Candidates \ held, Slots - Cardinality(held))

\* load_paper_source_allocations: candidates in the order of their rank, then
\* the other open sources, which are never active.
Allocations ==
    [pc |-> "loaded", slots |-> SlotSources, active |-> Candidates \cap SlotSources,
     open |-> OpenSources, owned |-> {},
     read |-> IF live THEN {} ELSE {w \in Wallets : exposure[w] # "none"},
     order |-> Sorted(Candidates, ByRank) \o Sorted(OpenSources \ Candidates, ByRank)]

Load ==
    /\ refresh = NoRefresh /\ refresh' = Allocations
    /\ UNCHANGED <<live, records, copies, chosen, other, stream, cleanup, changes>>

\* The sources of the live lanes that are not flat, before lanes are changed.
Owned == LiveSources

LoadOwned ==
    /\ refresh.pc = "loaded"
    /\ refresh' = [refresh EXCEPT !.pc = "owned", !.owned = Owned,
                                  !.read = @ \cup {w \in Wallets : exposure[w] = "live"}]
    /\ UNCHANGED <<live, records, copies, chosen, other, stream, cleanup, changes>>

UpTo(s, n) == IF Len(s) <= n THEN s ELSE SubSeq(s, 1, n)

\* load_realtime_wallets.
Listed(r) ==
    UpTo(Sorted(r.owned, ByAddress)
           \o Sorted((ToSet(r.order) \cap r.slots) \ r.owned, As(r.order)), Slots)

\* Missing rows are inserted, and the allocations are written.
Store(r) ==
    /\ watched' = [w \in Wallets |->
                 IF watched[w] = "none" /\ w \in r.open \cup r.active THEN "pool" ELSE watched[w]]
    /\ active' = r.active
    /\ UNCHANGED <<live, profile, exposure, cleanup, changes>>

\* One pass of the realtime loop: the list is compared with the subscription,
\* in order; a subscription that is not complete by now is dropped as well.
CommitRefresh ==
    LET list == Listed(refresh)
        same == stream.status = "connected" /\ list = stream.desired
        first == stream.status = "off" /\ list # <<>>
    IN  /\ refresh.pc = "owned" /\ Store(refresh)
        /\ lanes' = refresh.active /\ snapshot' = refresh.active
        /\ stream' = IF same THEN [stream EXCEPT !.read = refresh.read]
                     ELSE IF first THEN [status |-> "connecting", desired |-> list,
                                         acked |-> {}, read |-> refresh.read]
                     ELSE NoStream
        /\ refresh' = NoRefresh
        /\ UNCHANGED <<taken, other>>

LoadOther ==
    /\ other = NoRefresh
    /\ other' = [NoRefresh EXCEPT !.pc = "loaded", !.active = Candidates \cap SlotSources,
                                  !.open = OpenSources]
    /\ Change /\ UNCHANGED <<live, records, refresh, stream, cleanup>>

\* A summary or a manual close stores nothing else; recovery synchronizes the
\* lanes; an engine whose snapshot has expired does both and goes on with it.
CommitOther(syncs, engine) ==
    /\ other.pc = "loaded" /\ Store(other)
    /\ lanes' = IF syncs THEN other.active ELSE lanes
    /\ snapshot' = IF engine THEN other.active ELSE snapshot
    /\ taken' = IF engine THEN other.active ELSE taken
    /\ other' = NoRefresh
    /\ UNCHANGED <<refresh, stream>>
----------------------------------------------------------------------------
(* The subscription.                                                       *)
Acknowledge(w) ==
    /\ stream.status = "connecting" /\ w \in ToSet(stream.desired) \ stream.acked
    /\ LET acked == stream.acked \cup {w}
       IN  stream' = [stream EXCEPT !.acked = acked, !.status =
             IF acked = ToSet(stream.desired) THEN "connected" ELSE "connecting"]
    /\ UNCHANGED <<live, records, copies, chosen, refresh, other, cleanup, changes>>

Disconnect ==
    /\ stream.status # "off" /\ stream' = NoStream
    /\ UNCHANGED <<live, records, copies, chosen, refresh, other, cleanup, changes>>

\* The trading worker dies; live trading may be switched with its next start.
WorkerDies ==
    /\ changes < MaxChanges /\ changes' = changes + 1
    /\ live' \in BOOLEAN
    /\ stream' = NoStream /\ refresh' = NoRefresh /\ other' = NoRefresh
    /\ snapshot' = {} /\ taken' = {}
    /\ UNCHANGED <<records, exposure, active, lanes, cleanup>>
----------------------------------------------------------------------------
(* Copies.  A batch keeps the allocations it began with; an entry of a     *)
(* live copy needs its lane as well when its request is written.           *)
TakeSnapshot ==
    /\ taken' = snapshot
    /\ UNCHANGED <<live, records, exposure, chosen, loops, cleanup, changes>>

Open(w, kind) ==
    /\ w \in taken /\ exposure[w] = "none"
    /\ kind = "live" => live /\ w \in lanes
    /\ exposure' = [exposure EXCEPT ![w] = kind]
    /\ UNCHANGED <<live, records, chosen, taken, loops, cleanup, changes>>

Close(w) ==
    /\ exposure[w] # "none"
    /\ exposure' = [exposure EXCEPT ![w] = "none"]
    /\ UNCHANGED <<live, records, chosen, taken, loops, cleanup, changes>>
----------------------------------------------------------------------------
SlotsNext ==
    \/ \E w \in Wallets :
         \/ \E p \in Profiles : Rescore(w, p)
         \/ \E r \in RowStates : Edit(w, r)
         \/ Admit(w) \/ DeleteWallet(w) \/ Acknowledge(w) \/ Close(w)
         \/ \E kind \in {"paper", "live"} : Open(w, kind)
    \/ Prune \/ Recheck \/ Archive \/ Delete
    \/ Load \/ LoadOwned \/ CommitRefresh
    \/ LoadOther \/ \E syncs, engine \in BOOLEAN : CommitOther(syncs, engine)
    \/ TakeSnapshot \/ Disconnect \/ WorkerDies

SlotsSpec == SlotsInit /\ [][SlotsNext]_slotVars
----------------------------------------------------------------------------
(* "A wallet we still hold a position from keeps its slot until the        *)
(* position is closed": an open subscription has every such source that    *)
(* its last check could see, whatever scoring, cleanup, the operator or a  *)
(* restart did to the wallet, if there are places for all of them.         *)
ExposureKeepsSlot ==
    stream.status # "off" /\ Cardinality(stream.read) <= Slots =>
        stream.read \subseteq ToSet(stream.desired)
=============================================================================
