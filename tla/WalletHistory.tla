--------------------------- MODULE WalletHistory ---------------------------
(***************************************************************************)
(* The stored fill history of one wallet: discovery, which fetches it to   *)
(* judge a candidate and hands it on to the pool; the pool import, which    *)
(* continues it from the last poll; the websocket, which counts as a poll  *)
(* too; and everything that deletes of it.                                 *)
(*                                                                         *)
(* A fill is a number; two fills can share a time.  The exchange returns   *)
(* fills in pages, the oldest first, or the one page of the newest.  What  *)
(* the websocket delivers is there as soon as it was traded.               *)
(***************************************************************************)
EXTENDS Integers, FiniteSets, FiniteSetsExt

CONSTANTS
    Page,           \* HYPERLIQUID_FILL_PAGE_SIZE
    MaxPages,       \* pool_fill_import_max_pages
    Target,         \* target_fills
    Window,         \* pool_fill_import_days
    Overlap,        \* pool_fill_import_overlap_seconds
    RetentionAge,   \* fill_retention_days
    Days, Ends,     \* how far before now an operator's import may start and end
    Bursts,         \* bound: numbers of fills that share a time
    Spans,          \* bound: sizes of a window read back from the newest page
    MaxImports,     \* bound: imports at once
    MaxHistoryTime  \* bound: the clock

(* A page is not filled by what shares one time; imports end at a time     *)
(* that was.                                                               *)
ASSUME HistoryAssumption ==
    /\ Page \in Nat \ {0, 1} /\ MaxPages \in Nat \ {0} /\ Target \in Nat \ {0}
    /\ Window \in Nat /\ Overlap \in Nat /\ RetentionAge \in Nat
    /\ Days \subseteq Nat /\ Ends \subseteq Nat /\ Bursts \subseteq 0..2
    /\ Spans \subseteq Nat \ {0} /\ MaxImports \in Nat /\ MaxHistoryTime \in Nat

VARIABLES
    time,       \* the clock
    executed,   \* the wallet's fills at the exchange
    stored,     \* wallet_fills
    wallet,     \* its row of watched_wallets
    since,      \* the stored stretch begins after this (history)
    candidate,  \* its row of discovery_wallet_candidates
    import,     \* the imports under way
    sweeping,   \* a prune run has selected the wallet's fills as orphans
    swept       \* fills that a poll vouches for were deleted (history)

historyVars == <<time, executed, stored, wallet, since, candidate, import, sweeping, swept>>
----------------------------------------------------------------------------
None == -1
TimeOf(f) == f \div 2
Between(S, from, to) == {f \in S : from <= TimeOf(f) /\ TimeOf(f) <= to}
FirstTime(S) == TimeOf(Min(S))
LastTime(S) == TimeOf(Max(S))
Least(a, b) == IF a < b THEN a ELSE b
Greatest(a, b) == IF a < b THEN b ELSE a

Jobs == {"pool", "operator", "backfill"}
WalletFills == 0..(2 * MaxHistoryTime + 1)
NoWallet == [exists |-> FALSE, enabled |-> FALSE, polled |-> None]
NewWallet == [NoWallet EXCEPT !.exists = TRUE, !.enabled = TRUE]
NoImport == [from |-> None, to |-> None, now |-> None, last |-> None]
NoCandidate == [status |-> "none", from |-> None, upto |-> None]
Accepted == [NoCandidate EXCEPT !.status = "accepted"]
Decided == [NoCandidate EXCEPT !.status = "decided"]    \* promoted or rejected

HistoryTypeOK ==
    /\ time \in 0..MaxHistoryTime /\ executed \subseteq WalletFills /\ stored \subseteq executed
    /\ wallet \in [exists : BOOLEAN, enabled : BOOLEAN, polled : Int]
    /\ since \in Int /\ sweeping \in BOOLEAN /\ swept \in BOOLEAN
    /\ candidate \in [status : {"none", "accepted", "running", "fetched", "decided"},
                      from : Int, upto : Int]
    /\ import \in [Jobs -> [from : Int, to : Int, now : Int, last : Int]]

HistoryInit ==
    /\ time = 0 /\ executed = {} /\ stored = {}
    /\ wallet = NoWallet /\ since = None /\ candidate = NoCandidate
    /\ import = [j \in Jobs |-> NoImport]
    /\ sweeping = FALSE /\ swept = FALSE

(* The wallet trades before the clock moves on, and it is seen after.      *)
HistoryTick ==
    /\ time < MaxHistoryTime /\ time' = time + 1
    /\ \E n \in Bursts : executed' = executed \cup {2 * time + k : k \in 0..(n - 1)}
    /\ UNCHANGED <<stored, wallet, since, candidate, import, sweeping, swept>>
----------------------------------------------------------------------------
Oldest(S) == {f \in S : Cardinality({g \in S : g < f}) < Page}
Newest(S) == {f \in S : Cardinality({g \in S : g > f}) < Page}

(* read_forward, page after page: a full page may end between fills of one *)
(* time, so the next one starts at that time.                              *)
NextPage(read, to) ==
    LET page == Oldest(Between(executed, read.next, to))
        longer == [read EXCEPT !.rows = @ \cup page, !.left = @ - 1]
    IN IF read.whole THEN read
       ELSE IF Cardinality(page) < Page \/ LastTime(page) >= to
            THEN [longer EXCEPT !.whole = TRUE]
       ELSE [longer EXCEPT !.next = Greatest(LastTime(page), @ + 1)]

Forward(from, to, pages) ==
    LET read[n \in 0..pages] ==
            IF n = 0 THEN [next |-> from, rows |-> {}, whole |-> FALSE, left |-> pages]
            ELSE NextPage(read[n - 1], to)
    IN read[pages]

(* The windows read back from the newest page.  Their size follows the     *)
(* rate of fills; here it is any, the same throughout an import.  A window *)
(* that is cut short would leave a gap, and ends the walk.                 *)
NextWindow(run, reached, to, span) ==
    LET below == Greatest(run.from - span, reached)
        read == Forward(below, run.from, run.left)
    IN IF /\ run.from > reached /\ run.left > 0
          /\ Cardinality(Between(run.rows, run.from, to)) < Target
          /\ read.whole
       THEN [from |-> below, rows |-> run.rows \cup read.rows, left |-> read.left]
       ELSE run

(* Every window takes a page at least.                                     *)
Back(newest, reached, to, span) ==
    LET run[n \in 0..MaxPages] ==
            IF n = 0 THEN newest ELSE NextWindow(run[n - 1], reached, to, span)
    IN run[MaxPages]

(* trim_to_target: the oldest history is cut.                              *)
Trimmed(rows, from, to) ==
    LET kept == Between(rows, from, to)
        newest == {f \in kept : Cardinality({g \in kept : g > f}) < Target}
    IN IF Cardinality(kept) <= Target THEN [rows |-> kept, from |-> from, to |-> to]
       ELSE [rows |-> Between(kept, FirstTime(newest), to), from |-> FirstTime(newest), to |-> to]

(* read_fill_window: one page forward covers most wallets.  Otherwise the  *)
(* newest page is the anchor, unless the import ends before now or has one *)
(* page only; then it stops where the pages end.  (That the newest page is *)
(* not full cannot be when the first one was.)                             *)
ReadWindow(from, to, anchored, span) ==
    LET first == Forward(from, to, 1)
        reached == LastTime(first.rows)
        rest == Forward(reached, to, MaxPages - 1)
        rows == first.rows \cup rest.rows
        newest == Newest(executed)
        back == Back([from |-> Least(Greatest(FirstTime(newest), from), to),
                      rows |-> first.rows \cup newest, left |-> MaxPages - 2],
                     reached, to, span)
    IN IF first.whole THEN Trimmed(first.rows, from, to)
       ELSE IF ~anchored \/ MaxPages = 1
            THEN Trimmed(rows, from, IF rest.whole THEN to ELSE LastTime(rows))
       ELSE Trimmed(back.rows, IF back.from <= reached THEN from ELSE back.from, to)
----------------------------------------------------------------------------
(* The stretch known to be stored, when what was read after a time joins   *)
(* the stretch that ended at the last poll.                                *)
Joined(after, joins) ==
    IF wallet.polled # None /\ joins THEN Least(since, after) ELSE after

Overlaps(after, upto) == after < wallet.polled /\ since <= upto

ReadAfter(w, from) == IF w.from = from THEN from - 1 ELSE w.from

(* load_due_pool_fill_targets, poll_overlap_start_ms.                      *)
AfterLastPoll == wallet.polled + 1

PollFrom ==
    IF wallet.polled = None THEN time - Window ELSE wallet.polled - Overlap

Start(job, from, to) ==
    /\ import[job] = NoImport
    /\ Cardinality({j \in Jobs : import[j] # NoImport}) < MaxImports
    /\ import' = [import EXCEPT ![job] = [from |-> from, to |-> to, now |-> time,
                       last |-> IF job = "pool" THEN wallet.polled ELSE None]]
    /\ UNCHANGED <<time, executed, stored, wallet, since, sweeping, swept>>

StartPoolImport ==
    /\ wallet.exists /\ wallet.enabled
    /\ Start("pool", PollFrom, time) /\ UNCHANGED candidate

(* The import route: any window, of archived and disabled wallets too.     *)
StartOperatorImport(days, ago) ==
    /\ wallet.exists /\ ago <= days
    /\ Start("operator", time - days, time - ago) /\ UNCHANGED candidate

(* backfill_discovery_candidates commits that it runs, and then fetches.   *)
StartBackfill ==
    /\ candidate.status = "accepted"
    /\ Start("backfill", time - Window, time)
    /\ candidate' = [candidate EXCEPT !.status = "running"]

(* import_address_fills: the fills and the poll are one commit.            *)
PolledAt(i, w) == IF w.to >= i.to THEN i.now ELSE w.to

Finish(job, span) ==
    LET i == import[job]
        w == ReadWindow(i.from, i.to, i.to = i.now, span)
    IN /\ i # NoImport
       /\ stored' = stored \cup w.rows
       /\ import' = [import EXCEPT ![job] = NoImport]
       /\ IF job = "backfill"
          THEN /\ candidate' = [status |-> "fetched", from |-> ReadAfter(w, i.from),
                                upto |-> w.to]
               /\ UNCHANGED <<wallet, since>>
          ELSE /\ wallet' = [wallet EXCEPT !.polled = PolledAt(i, w)]
               /\ since' = Joined(ReadAfter(w, i.from),
                                  IF job = "pool" /\ wallet.polled = i.last
                                  THEN w.from = i.from
                                  ELSE Overlaps(ReadAfter(w, i.from), PolledAt(i, w)))
               /\ UNCHANGED candidate
       /\ UNCHANGED <<time, executed, sweeping, swept>>

(* store_realtime_fills: the snapshot of a subscription is the newest page; *)
(* a later message adds nothing else.  The wallet's row may be gone.       *)
ReceiveFills ==
    LET page == Newest(executed)
        after == IF page = executed THEN None ELSE FirstTime(page)
    IN /\ page # {}
       /\ stored' = stored \cup page
       /\ IF wallet.exists
          THEN /\ wallet' = [wallet EXCEPT !.polled = time]
               /\ since' = Joined(after, Overlaps(after, time))
          ELSE UNCHANGED <<wallet, since>>
       /\ UNCHANGED <<time, executed, candidate, import, sweeping, swept>>

(* A request that fails, a process that stops, or a run that is canceled.  *)
Abort(job) ==
    /\ import[job] # NoImport
    /\ import' = [import EXCEPT ![job] = NoImport]
    /\ UNCHANGED <<time, executed, stored, wallet, since, sweeping, swept>>

AbortImport(job) == Abort(job) /\ UNCHANGED candidate

(* The candidate has failed, and may be retried, or it is left running.    *)
AbortBackfill == Abort("backfill") /\ candidate' \in {candidate, Accepted}
----------------------------------------------------------------------------
(* upsert_discovery_candidates: no wallet of the pool, and no candidate    *)
(* there already is, unless the wallet has been archived for long enough.  *)
Discover ==
    /\ IF wallet.exists THEN ~wallet.enabled ELSE candidate.status = "none"
    /\ candidate' = Accepted
    /\ import' = [import EXCEPT !["backfill"] = NoImport]
    /\ UNCHANGED <<time, executed, stored, wallet, since, sweeping, swept>>

(* promote_backfilled_candidate_to_pool, readmit_archived_wallets: insert  *)
(* the wallet, or take it back if it was archived.                         *)
InPool == {[wallet EXCEPT !.exists = TRUE, !.enabled = @ \/ back] :
              back \in IF wallet.exists THEN BOOLEAN ELSE {TRUE}}

(* mark_promoted_wallets_polled: the backfill counts as the latest poll.   *)
Promote ==
    /\ candidate.status = "fetched"
    /\ \E w \in InPool : wallet' = [w EXCEPT !.polled = Greatest(@, candidate.upto)]
    /\ since' = IF wallet.polled > candidate.upto THEN since
                ELSE Joined(candidate.from, Overlaps(candidate.from, candidate.upto))
    /\ candidate' = Decided
    /\ UNCHANGED <<time, executed, stored, import, sweeping, swept>>

(* promote_discovery_candidates, of candidates without a backfill.         *)
PromoteUnfetched ==
    /\ candidate.status = "accepted"
    /\ wallet' \in InPool
    /\ candidate' = Decided
    /\ UNCHANGED <<time, executed, stored, since, import, sweeping, swept>>

(* A rejected candidate's data goes unless it is a wallet of ours.  One    *)
(* that the equity curve rejects has fetched no fills.                     *)
Reject ==
    /\ candidate.status \in {"running", "fetched"}
    /\ candidate.status = "running" => import["backfill"] # NoImport
    /\ candidate' = Decided
    /\ import' = [import EXCEPT !["backfill"] = NoImport]
    /\ stored' = IF wallet.exists THEN stored ELSE {}
    /\ swept' = (swept /\ wallet.exists)
    /\ UNCHANGED <<time, executed, wallet, since, sweeping>>
----------------------------------------------------------------------------
(* The wallet routes and the prune rules.                                  *)
Create ==
    /\ ~wallet.exists /\ wallet' = NewWallet
    /\ UNCHANGED <<time, executed, stored, since, candidate, import, sweeping, swept>>

(* update_wallet and archive_wallets: a wallet is disabled or archived, and *)
(* enabling takes either back to the pool.                                 *)
Enable(on) ==
    /\ wallet.exists /\ wallet.enabled # on
    /\ wallet' = [wallet EXCEPT !.enabled = on]
    /\ UNCHANGED <<time, executed, stored, since, candidate, import, sweeping, swept>>

(* delete_wallet_related_rows.  An import of the wallet that is under way  *)
(* finds no row to update and is rolled back.                              *)
DeleteWalletRows ==
    /\ wallet.exists
    /\ wallet' = NoWallet /\ stored' = {} /\ since' = None
    /\ import' = [j \in Jobs |-> IF j = "backfill" THEN import[j] ELSE NoImport]
    /\ swept' = (candidate.status = "fetched")
    /\ UNCHANGED <<time, executed, candidate, sweeping>>

(* prune_orphan_fill_wallets: fills of a wallet without a row are selected, *)
(* and then deleted.                                                       *)
SelectOrphan ==
    /\ ~sweeping /\ ~wallet.exists /\ stored # {} /\ sweeping' = TRUE
    /\ UNCHANGED <<time, executed, stored, wallet, since, candidate, import, swept>>

DeleteOrphan ==
    /\ sweeping /\ sweeping' = FALSE /\ stored' = {}
    /\ swept' = (swept \/ wallet.polled # None \/ candidate.status = "fetched")
    /\ UNCHANGED <<time, executed, wallet, since, candidate, import>>

(* cleanup_wallet_fill_retention: the oldest first, in batches.            *)
Outdated == Between(stored, 0, time - RetentionAge - 1)

Retain ==
    /\ \E n \in 1..Cardinality(Outdated) :
         stored' = {f \in stored : Cardinality({g \in stored : g < f}) >= n}
    /\ UNCHANGED <<time, executed, wallet, since, candidate, import, sweeping, swept>>

(* find_fill_gaps: to the next stored fill, or from the last to the poll.  *)
GapEnd(f) ==
    LET later == {g \in stored : TimeOf(g) > TimeOf(f)}
    IN IF later # {} THEN FirstTime(later) ELSE wallet.polled

Repair(f) ==
    /\ wallet.exists /\ TimeOf(f) < GapEnd(f)
    /\ stored' = stored \cup Forward(TimeOf(f), GapEnd(f), MaxPages).rows
    /\ UNCHANGED <<time, executed, wallet, since, candidate, import, sweeping, swept>>
----------------------------------------------------------------------------
HistoryNext ==
    \/ HistoryTick
    \/ StartPoolImport
    \/ \E days \in Days, ago \in Ends : StartOperatorImport(days, ago)
    \/ \E job \in {"pool", "operator"} : AbortImport(job)
    \/ \E job \in Jobs, span \in Spans : Finish(job, span)
    \/ ReceiveFills
    \/ Discover \/ StartBackfill \/ AbortBackfill \/ Promote \/ PromoteUnfetched \/ Reject
    \/ Create \/ DeleteWalletRows \/ \E on \in BOOLEAN : Enable(on)
    \/ SelectOrphan \/ DeleteOrphan \/ Retain
    \/ \E f \in stored : Repair(f)

HistorySpec == HistoryInit /\ [][HistoryNext]_historyVars
----------------------------------------------------------------------------
(* "A wallet's last_polled_at is the end of the stored span": what the     *)
(* exchange had before the last poll is stored, back to where a limit of   *)
(* pages or fills, a window or retention cut it, however imports overlap,  *)
(* fail and follow each other.                                             *)
StoredUntilPolled ==
    wallet.polled # None /\ ~swept =>
        \A f \in Between(executed, Greatest(since + 1, time - RetentionAge), wallet.polled - 1) :
            f \in stored
============================================================================
