----------------------------- MODULE CopyCaches -----------------------------
(***************************************************************************)
(* The cache of a trading worker that keeps the lookup of a source's       *)
(* account state off the path from a fill to its copies.  One source, one  *)
(* perp dex, one coin.                                                     *)
(*                                                                         *)
(* What a lookup returns is the number of fills of the source that it had  *)
(* seen.  A lookup is asked, read at the exchange, and answered, with time *)
(* and other lookups in between.                                           *)
(***************************************************************************)
EXTENDS Integers, Sequences

CONSTANTS
    MaxAge,     \* trading_copy_source_state_cache_max_age_seconds
    Refresh,    \* trading_copy_source_state_refresh_seconds
    MaxTime,    \* bound: the clock
    MaxFills    \* bound: fills of the source

ASSUME CacheAssumption ==
    /\ MaxAge \in Nat /\ Refresh \in Nat
    /\ MaxTime \in Nat /\ MaxFills \in Nat

VARIABLES
    now,        \* the clock
    fills,      \* of the source, each with its time and what it left
    state,      \* SourceAccountStateCache: the entry of the source
    batch,      \* the fills that an engine is copying
    warm        \* the lookup of the warm-up loop

cacheVars == <<now, fills, state, batch, warm>>
----------------------------------------------------------------------------
Never == -1

Fill == [exit : BOOLEAN, holds : BOOLEAN, at : Nat]

(* A state of the source: when it was asked for, the fills it includes, and *)
(* whether it is complete.                                                 *)
Known == [at : Int, seen : Nat, ok : BOOLEAN]
Unknown == [at |-> Never, seen |-> 0, ok |-> FALSE]

Lookup == [pc : {"none", "asked", "read", "failed"}, at : Int, seen : Nat, ok : BOOLEAN]
NoLookup == [pc |-> "none", at |-> Never, seen |-> 0, ok |-> FALSE]
Asked(t) == [NoLookup EXCEPT !.pc = "asked", !.at = t]

NoBatch == [pc |-> "idle", from |-> 1, upto |-> 0, began |-> 0,
            uses |-> Unknown, lookup |-> NoLookup]

CacheTypeOK ==
    /\ now \in 0..MaxTime /\ fills \in Seq(Fill) /\ Len(fills) <= MaxFills
    /\ state \in Known
    /\ batch.pc \in {"idle", "state", "ready"} /\ batch.uses \in Known
    /\ batch.lookup \in Lookup /\ warm \in Lookup

CacheInit ==
    /\ now = 0 /\ fills = <<>>
    /\ state = Unknown
    /\ batch = NoBatch /\ warm = NoLookup
----------------------------------------------------------------------------
(* The world: time and the source.                                         *)
TimePasses ==
    /\ now < MaxTime /\ now' = now + 1
    /\ UNCHANGED <<fills, state, batch, warm>>

Holds(n) == n > 0 /\ fills[n].holds

SourceTrades(exit, holds) ==
    /\ Len(fills) < MaxFills
    /\ IF exit THEN Holds(Len(fills)) ELSE holds
    /\ fills' = Append(fills, [exit |-> exit, holds |-> holds, at |-> now])
    /\ UNCHANGED <<now, state, batch, warm>>
----------------------------------------------------------------------------
(* SourceAccountStateCache.store: the age counts from the request.         *)
Stored(l) ==
    IF l.pc = "failed" \/ state.at > l.at THEN state
    ELSE [at |-> l.at, seen |-> l.seen, ok |-> l.ok]

(* cached_state_covers_fills: leverage and margin mode come with a         *)
(* position in the coin only.                                              *)
Covers(s) == s.ok /\ Holds(s.seen)

(* A cached state serves a batch of entries only.                          *)
AnyBatch(from, upto) == state.at # Never /\ now - state.at <= MaxAge /\ Covers(state)

Usable(from, upto) ==
    /\ state.at # Never /\ now - state.at <= MaxAge /\ Covers(state)
    /\ \A n \in from..upto : ~fills[n].exit

(* An engine takes up stored fills, and asks when the cache does not serve. *)
StartBatch(from, upto) ==
    /\ batch.pc = "idle" /\ from <= upto
    /\ batch' = [pc |-> IF Usable(from, upto) THEN "ready" ELSE "state",
                   from |-> from, upto |-> upto, began |-> now,
                   uses |-> IF Usable(from, upto) THEN state ELSE Unknown,
                   lookup |-> IF Usable(from, upto) THEN NoLookup ELSE Asked(now)]
    /\ UNCHANGED <<now, fills, state, warm>>

(* clearinghouse_state, read at the exchange, possibly without a margin    *)
(* summary or an equity; or the request fails.                             *)
Read(l, ok) == [l EXCEPT !.pc = "read", !.seen = Len(fills), !.ok = ok]
Failed(l) == [l EXCEPT !.pc = "failed"]

ReadForBatch ==
    /\ batch.lookup.pc = "asked"
    /\ \E l \in {Failed(batch.lookup)} \cup {Read(batch.lookup, ok) : ok \in BOOLEAN} :
         batch' = [batch EXCEPT !.lookup = l]
    /\ UNCHANGED <<now, fills, state, warm>>

(* The state is stored and used, whether or not the cache keeps a newer one. *)
AnswerBatch ==
    LET l == batch.lookup
    IN /\ l.pc \in {"read", "failed"}
       /\ state' = Stored(l)
       /\ batch' = [batch EXCEPT !.pc = "ready", !.lookup = NoLookup,
                      !.uses = IF l.pc = "failed" THEN Unknown
                               ELSE [at |-> l.at, seen |-> l.seen, ok |-> l.ok]]
       /\ UNCHANGED <<now, fills, warm>>

(* The parts are decided and the batch is done.                            *)
Decide ==
    /\ batch.pc = "ready"
    /\ batch' = NoBatch
    /\ UNCHANGED <<now, fills, state, warm>>
----------------------------------------------------------------------------
(* run_source_state_warmup_loop: sources that are not allocated are        *)
(* dropped; a state is due when there is none, or when it is old and a     *)
(* later fill could use it.  Nothing is done while the snapshot of the     *)
(* allocations has expired.                                                *)
Due == state.at = Never \/ (now - state.at >= Refresh /\ Holds(state.seen))

WarmUp(allocated) ==
    /\ warm.pc = "none"
    /\ state' = IF allocated THEN state ELSE Unknown
    /\ warm' = IF allocated /\ Due THEN Asked(now) ELSE NoLookup
    /\ UNCHANGED <<now, fills, batch>>

ReadForWarmUp ==
    /\ warm.pc = "asked"
    /\ \E l \in {Failed(warm)} \cup {Read(warm, ok) : ok \in BOOLEAN} : warm' = l
    /\ UNCHANGED <<now, fills, state, batch>>

AnswerWarmUp ==
    /\ warm.pc \in {"read", "failed"}
    /\ state' = Stored(warm) /\ warm' = NoLookup
    /\ UNCHANGED <<now, fills, batch>>
----------------------------------------------------------------------------
CacheNext ==
    \/ TimePasses
    \/ \E exit, holds \in BOOLEAN : SourceTrades(exit, holds)
    \/ \E from, upto \in 1..Len(fills) : StartBatch(from, upto)
    \/ ReadForBatch \/ AnswerBatch \/ Decide
    \/ \E allocated \in BOOLEAN : WarmUp(allocated)
    \/ ReadForWarmUp \/ AnswerWarmUp

CacheSpec == CacheInit /\ [][CacheNext]_cacheVars
----------------------------------------------------------------------------
(* Everything the source did before time t is among its first n fills.     *)
Includes(n, t) == \A i \in 1..Len(fills) : fills[i].at < t => i <= n

(* "Cached state is only used when every fill is a pure entry", so "close  *)
(* sizing never depends on an older snapshot": the state that a batch with *)
(* an exit is decided on includes that exit, and any other is no older     *)
(* than the cache allows, however lookups overtake each other.             *)
DecidesOnRecent ==
    batch.pc = "ready" /\ batch.uses # Unknown =>
        /\ Includes(batch.uses.seen, batch.began - MaxAge)
        /\ \A i \in batch.from..batch.upto : fills[i].exit => batch.uses.seen >= i
=============================================================================
