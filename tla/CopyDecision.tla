---------------------------- MODULE CopyDecision ----------------------------
(***************************************************************************)
(* How much of a source to copy: the rules that the paper simulator and    *)
(* live execution share, applied by either engine to the fills of one      *)
(* source in one coin, one after the other.                                *)
(*                                                                         *)
(* The source's position is in lots, long above zero and short below.  The *)
(* copy is in dollars at a price of one, so its size is its notional.      *)
(* Orders fill in full; what an order book or the exchange leaves over is  *)
(* the concern of the modules on execution.                                *)
(***************************************************************************)
EXTENDS Integers, Sequences

CONSTANTS
    Positions,      \* bound: positions of the source
    FillLots,       \* bound: lots that one fill trades
    MaxQueue,       \* bound: parts not yet applied
    MaxLate,        \* bound: exits to be retried
    Equities,       \* account equities met
    Ratio,          \* copied dollars for a lot, for each dollar of equity
    MinOrder,       \* trading_copy_min_order_notional_usd
    SourceMultiple, \* trading_copy_max_source_exposure_multiple, of the equity
    TotalMultiple,  \* trading_copy_max_total_exposure_multiple
    OtherExposures  \* exposure the account has to other sources

ASSUME DecisionAssumption ==
    /\ Positions \subseteq Int /\ OtherExposures \subseteq Nat /\ MaxQueue \in Nat
    /\ Equities \subseteq Nat /\ \E e \in Equities : \A f \in Equities : f <= e
    /\ FillLots \subseteq Nat \ {0} /\ Ratio \in Nat /\ MinOrder \in Nat
    /\ SourceMultiple \in Nat /\ TotalMultiple \in Nat

VARIABLES
    lots,       \* the source's position now
    queue,      \* parts of its fills, oldest first
    late,       \* exits that paper recorded as retriable, oldest first
    copy,       \* the copied position
    tiny,       \* dollars of closes skipped below the minimum since it opened
    rounded,    \* shares rounded while older exits waited, since it opened (history)
    equity,     \* equity that entries are sized on
    others      \* exposure of the account to other sources

copyVars == <<lots, queue, late, copy, tiny, rounded, equity, others>>
----------------------------------------------------------------------------
Abs(n) == IF n < 0 THEN -n ELSE n
Lesser(a, b) == IF a < b THEN a ELSE b
SideOf(n) == CASE n > 0 -> "long" [] n < 0 -> "short" [] n = 0 -> "none"
Flat == [side |-> "none", size |-> 0]

Part(action, side, start, size) == [action |-> action, side |-> side, start |-> start, size |-> size]
IsEntry(part) == part.action \in {"open", "flip_open"}

(* No copy is larger, so more skipped closes than this, or shares rounded,  *)
(* make no difference.                                                     *)
MostCopied == SourceMultiple * (CHOOSE e \in Equities : \A f \in Equities : f <= e)
MostRounded == IF MostCopied < 2 * MinOrder THEN 0 ELSE MostCopied - 2 * MinOrder + 1

CopyTypeOK ==
    /\ lots \in Positions /\ Len(queue) <= MaxQueue /\ equity \in Equities /\ others \in OtherExposures
    /\ copy.size \in Nat /\ (copy = Flat <=> copy.size = 0)
    /\ tiny \in 0..MostCopied /\ rounded \in 0..MostRounded

CopyInit ==
    /\ lots \in Positions /\ queue = <<>> /\ late = <<>>
    /\ copy = Flat /\ tiny = 0 /\ rounded = 0
    /\ equity \in Equities /\ others \in OtherExposures
----------------------------------------------------------------------------
(* plan_source_fill: a fill that takes the source from a to b.             *)
Parts(a, b) ==
    CASE SideOf(a) \in {"none", SideOf(b)} /\ Abs(b) > Abs(a) ->
            <<Part("open", SideOf(b), Abs(a), Abs(b - a))>>
      [] a # 0 /\ Abs(b) < Abs(a) /\ SideOf(b) \in {"none", SideOf(a)} ->
            <<Part("close", SideOf(a), Abs(a), Abs(b - a))>>
      [] a # 0 /\ b # 0 /\ SideOf(a) # SideOf(b) ->
            <<Part("flip_close", SideOf(a), Abs(a), Abs(a)),
              Part("flip_open", SideOf(b), 0, Abs(b))>>

SourceMoves(to) ==
    /\ Abs(to - lots) \in FillLots /\ Len(queue) + Len(Parts(lots, to)) <= MaxQueue
    /\ queue' = queue \o Parts(lots, to)
    /\ lots' = to
    /\ UNCHANGED <<late, copy, tiny, rounded, equity, others>>

AccountChanges(e, o) ==
    /\ equity' = e /\ others' = o
    /\ UNCHANGED <<lots, queue, late, copy, tiny, rounded>>
----------------------------------------------------------------------------
(* entry_precheck: a position of the source from before it was copied, an  *)
(* opposite copy, or a source that is no longer allocated.                 *)
Preexisting(part) == copy = Flat /\ part.start > 0
Opposite(part) == copy # Flat /\ copy.side # part.side

Prechecked(part, active) ==
    ~Preexisting(part) /\ ~Opposite(part) /\ (copy = Flat => active)

Room ==
    Lesser(SourceMultiple * equity - copy.size, TotalMultiple * equity - copy.size - others)

(* plan_entry_sizing: the first order is the minimum at least; an add      *)
(* chases the target by its own fill and one minimum order at most, and    *)
(* from half a minimum order is rounded up to one.                         *)
RoundedUpPastRoom(part, room) ==
    LET desired == Ratio * equity * (part.start + part.size)
    IN IF desired < MinOrder THEN MinOrder
       ELSE IF desired <= room THEN desired ELSE IF room >= MinOrder THEN room ELSE 0

OpeningSize(part, room) ==
    LET desired == Ratio * equity * (part.start + part.size)
    IN CASE desired < MinOrder -> IF MinOrder <= room THEN MinOrder ELSE 0
         [] desired >= MinOrder /\ desired <= room -> desired
         [] desired >= MinOrder /\ desired > room -> IF room >= MinOrder THEN room ELSE 0

AddSize(part, room) ==
    LET delta == Ratio * equity * (part.start + part.size) - copy.size
        desired == Lesser(delta, Ratio * equity * part.size + MinOrder)
        allowed == Lesser(desired, IF room > 0 THEN room ELSE 0)
    IN CASE allowed <= 0 -> 0
         [] allowed >= MinOrder -> allowed
         [] allowed > 0 /\ allowed < MinOrder ->
              IF 2 * allowed >= MinOrder /\ MinOrder <= room THEN MinOrder ELSE 0

EntrySize(part) ==
    IF copy = Flat THEN OpeningSize(part, Room) ELSE AddSize(part, Room)

(* An entry that the engine cannot decide is recorded as skipped: by paper *)
(* at once, by live when it is too old, until when it waits in its lane as *)
(* a flip does whose close is pending.                                     *)
ApplyEntry ==
    /\ queue # <<>> /\ IsEntry(Head(queue))
    /\ \E decided, active \in BOOLEAN :
         LET part == Head(queue)
             size == IF decided /\ Prechecked(part, active) THEN EntrySize(part) ELSE 0
         IN /\ copy' = IF size = 0 THEN copy
                       ELSE [side |-> part.side, size |-> copy.size + size]
            /\ tiny' = IF copy = Flat THEN 0 ELSE tiny
    /\ queue' = Tail(queue)
    /\ UNCHANGED <<lots, late, rounded, equity, others>>
----------------------------------------------------------------------------
(* source_position_is_final_close, from the state of the source now.       *)
SourceLeft(known) == known /\ SideOf(lots) # copy.side

(* copy_close_size.                                                        *)
Share(part, known) ==
    IF SourceLeft(known) THEN copy.size
    ELSE Lesser(copy.size, (copy.size * part.size) \div part.start)

(* decide_close and aggregate_below_min_close: a small close waits for     *)
(* others to make a minimum order with, unless the source has left.        *)
NeverCombined(part, known) ==
    IF SourceLeft(known) \/ Share(part, known) >= MinOrder THEN Share(part, known) ELSE 0

CloseSize(part, known) ==
    LET share == Share(part, known)
        joined == Lesser(share + tiny, copy.size)
    IN CASE SourceLeft(known) \/ share >= MinOrder -> share
         [] ~SourceLeft(known) /\ share < MinOrder -> IF joined >= MinOrder THEN joined ELSE 0

(* A share of a copy that exits have still to come off is rounded by less  *)
(* than a dollar each time.                                                *)
Rounds(part, waiting) ==
    waiting # <<>> /\ ~Opposite(part) /\ (copy.size * part.size) % part.start # 0

ClosePart(part, known, waiting) ==
    LET share == Share(part, known)
        size == CloseSize(part, known)
    IN /\ IF Opposite(part) \/ copy = Flat \/ share = 0
          THEN UNCHANGED <<copy, tiny>>
          ELSE /\ copy' = IF size = copy.size THEN Flat ELSE [copy EXCEPT !.size = @ - size]
               /\ tiny' = IF size = 0 THEN Lesser(tiny + share, MostCopied)
                          ELSE IF size > share \/ size = copy.size THEN 0 ELSE tiny
       /\ rounded' = IF copy' = Flat THEN 0
                     ELSE IF Rounds(part, waiting) THEN Lesser(rounded + 1, MostRounded) ELSE rounded

(* No price: paper records the exit as retriable and goes on.  Live keeps  *)
(* it first in its lane, so late stays empty there.                        *)
ApplyExit ==
    /\ queue # <<>> /\ ~IsEntry(Head(queue))
    /\ queue' = Tail(queue)
    /\ \/ /\ \E known \in BOOLEAN : ClosePart(Head(queue), known, late)
          /\ UNCHANGED late
       \/ /\ copy # Flat /\ ~Opposite(Head(queue)) /\ Len(late) < MaxLate
          /\ late' = Append(late, Head(queue))
          /\ UNCHANGED <<copy, tiny, rounded>>
    /\ UNCHANGED <<lots, equity, others>>

(* Recovery replays what is stored, in the order of the source.            *)
RetryExit ==
    /\ late # <<>>
    /\ late' = Tail(late)
    /\ \E known \in BOOLEAN : ClosePart(Head(late), known, Tail(late))
    /\ UNCHANGED <<lots, queue, equity, others>>
----------------------------------------------------------------------------
CopyNext ==
    \/ \E to \in Positions : SourceMoves(to)
    \/ \E e \in Equities, o \in OtherExposures : AccountChanges(e, o)
    \/ ApplyEntry \/ ApplyExit \/ RetryExit

CopySpec == CopyInit /\ [][CopyNext]_copyVars
----------------------------------------------------------------------------
LargestRatio == Ratio * (CHOOSE e \in Equities : \A f \in Equities : f <= e)

(* Once every fill is applied, the copy exceeds the source's proportion by *)
(* less than the two minimum orders that rounding and skipped closes can   *)
(* add, and a dollar for each share that was rounded while exits waited;   *)
(* and what it holds on a side the source has left is less than one: too   *)
(* little to close while the state of the source is unknown.               *)
CopyTracksSource ==
    queue = <<>> /\ late = <<>> =>
        IF copy.side = SideOf(lots)
        THEN copy.size < LargestRatio * Abs(lots) + 2 * MinOrder + rounded \/ copy = Flat
        ELSE copy.size < MinOrder

(* "Exposure caps are never exceeded", whatever the rounding to the        *)
(* minimum order and however the equity moved since the last entry.        *)
GrowsWithinCaps ==
    copy'.size > copy.size =>
        /\ copy'.size <= SourceMultiple * equity
        /\ copy'.size + others <= TotalMultiple * equity

CapsHeld == [][GrowsWithinCaps]_copyVars
=============================================================================
