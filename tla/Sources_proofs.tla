--------------------------- MODULE Sources_proofs ---------------------------
(***************************************************************************)
(* Proofs about the services of the sources: the cached state of a source, *)
(* the budget of information requests, the status rows of operations, the  *)
(* trades rebuilt from fills, the sizes of copies, the slots of those that *)
(* are followed, and, with the stored fills, the types of all of these.    *)
(***************************************************************************)
EXTENDS MCSources, WalletHistory_proofs, SequenceTheorems
-----------------------------------------------------------------------------
(***************************************************************************)
(* A batch is decided on a recent state of its source, for any ages, any   *)
(* fills and any order in which lookups overtake each other.               *)
(*                                                                         *)
(* The argument: whatever was read for a request includes every fill made  *)
(* before the request, and stays so, for a later fill is never older than  *)
(* the present.  A cache that counts the age from the request therefore    *)
(* knows all that is older than the age, and a lookup that a batch asks    *)
(* for itself includes the fills of the batch.                             *)
(***************************************************************************)

(* A state k, asked for at k.at, includes what the source did before.      *)
Sound(F, clock, k) ==
    /\ k.at \in 0 .. clock
    /\ k.seen \in 0 .. Len(F)
    /\ \A i \in 1 .. Len(F) : F[i].at < k.at => i <= k.seen

(* A state that is recent enough for a batch, and includes its exits.      *)
Serves(F, clock, k, b) ==
    /\ Sound(F, clock, k)
    /\ b.began - MaxAge <= k.at
    /\ \A i \in b.from .. b.upto : F[i].exit => i <= k.seen

Batches == [pc : {"idle", "state", "ready"}, from : Nat \ {0}, upto : Nat, began : Nat,
            uses : Known, lookup : Lookup]

Typed ==
    /\ now \in Nat /\ fills \in Seq(Fill)
    /\ state \in Known /\ batch \in Batches /\ warm \in Lookup

StateSound == state.at # Never => Sound(fills, now, state)

WarmSound ==
    /\ warm.pc # "none" => warm.at \in 0 .. now
    /\ warm.pc = "read" => Sound(fills, now, warm)

BatchSound ==
    /\ batch.pc # "idle" => batch.began <= now /\ batch.upto <= Len(fills)
    /\ batch.pc # "state" => batch.lookup.pc = "none"
    /\ batch.pc = "state" => batch.lookup.at = batch.began
    /\ batch.lookup.pc = "read" => Serves(fills, now, batch.lookup, batch)
    /\ batch.pc = "ready" /\ batch.uses # Unknown => Serves(fills, now, batch.uses, batch)

CacheInv == Typed /\ StateSound /\ WarmSound /\ BatchSound
----------------------------------------------------------------------------
LEMMA Kinds == Unknown \in Known /\ NoLookup \in Lookup /\ NoBatch \in Batches
  BY DEF Unknown, Known, NoLookup, Lookup, NoBatch, Batches, Never

LEMMA AskedNow ==
    ASSUME NEW t \in Nat
    PROVE  Asked(t) \in Lookup /\ Asked(t).pc = "asked" /\ Asked(t).at = t
  <1>1. ASSUME NEW l \in Lookup
        PROVE  /\ [l EXCEPT !.pc = "asked", !.at = t] \in Lookup
               /\ [l EXCEPT !.pc = "asked", !.at = t].pc = "asked"
               /\ [l EXCEPT !.pc = "asked", !.at = t].at = t
    <2>1. t \in Int
      OBVIOUS
    <2>2. [l EXCEPT !.pc = "asked", !.at = t].pc = "asked"
      BY DEF Lookup
    <2>3. [l EXCEPT !.pc = "asked", !.at = t].at = t
      BY DEF Lookup
    <2>4. [l EXCEPT !.pc = "asked", !.at = t] \in Lookup
      BY <2>1 DEF Lookup
    <2> QED BY <2>2, <2>3, <2>4
  <1>2. NoLookup \in Lookup
    BY Kinds
  <1> QED BY <1>1, <1>2 DEF Asked

LEMMA CacheStarts == CacheInit => CacheInv
  <1> SUFFICES ASSUME CacheInit PROVE CacheInv
    OBVIOUS
  <1>1. Typed
    BY Kinds DEF CacheInit, Typed
  <1>2. StateSound /\ WarmSound /\ BatchSound
    BY DEF CacheInit, StateSound, WarmSound, BatchSound, Unknown, NoLookup, NoBatch, Never
  <1> QED BY <1>1, <1>2 DEF CacheInv

(* Time and the source do not make a state unsound.                        *)
LEMMA TimeKeeps ==
    ASSUME Typed, NEW k, Sound(fills, now, k)
    PROVE  Sound(fills, now + 1, k)
  BY DEF Typed, Sound

LEMMA FillKeeps ==
    ASSUME Typed, NEW f \in Fill, f.at = now
    PROVE  /\ Append(fills, f) \in Seq(Fill) /\ Len(Append(fills, f)) = Len(fills) + 1
           /\ \A k : Sound(fills, now, k) => Sound(Append(fills, f), now, k)
           /\ \A k, b : /\ b \in Batches /\ b.upto <= Len(fills) /\ Serves(fills, now, k, b)
                        => Serves(Append(fills, f), now, k, b)
  <1> DEFINE F == Append(fills, f)
  <1>1. /\ F \in Seq(Fill) /\ Len(F) = Len(fills) + 1 /\ Len(fills) \in Nat
        /\ \A i \in 1 .. Len(fills) : F[i] = fills[i]
        /\ F[Len(fills) + 1] = f
    BY DEF Typed
  <1>2. ASSUME NEW k, Sound(fills, now, k) PROVE Sound(F, now, k)
    <2>1. ASSUME NEW i \in 1 .. Len(F), F[i].at < k.at PROVE i <= k.seen
      <3>1. CASE i \in 1 .. Len(fills)
        BY <1>1, <1>2, <2>1, <3>1 DEF Sound
      <3>2. CASE i = Len(fills) + 1
        BY <1>1, <1>2, <2>1, <3>2 DEF Sound, Typed
      <3> QED BY <1>1, <3>1, <3>2
    <2> HIDE DEF F
    <2> QED BY <1>1, <1>2, <2>1 DEF Sound
  <1>3. ASSUME NEW k, NEW b \in Batches, b.upto <= Len(fills), Serves(fills, now, k, b)
        PROVE  Serves(F, now, k, b)
    <2>1. Sound(F, now, k)
      BY <1>2, <1>3 DEF Serves
    <2>2. \A i \in b.from .. b.upto : i \in 1 .. Len(fills)
      BY <1>1, <1>3 DEF Batches
    <2> HIDE DEF F
    <2> QED BY <1>1, <1>3, <2>1, <2>2 DEF Serves
  <1> QED BY <1>1, <1>2, <1>3
----------------------------------------------------------------------------
LEMMA WorldStep ==
    ASSUME CacheInv,
           TimePasses \/ \E exit, holds \in BOOLEAN : SourceTrades(exit, holds)
    PROVE  CacheInv'
  <1> USE DEF CacheInv
  <1>1. CASE TimePasses
    <2>1. /\ now' = now + 1 /\ now \in Nat
          /\ UNCHANGED <<fills, state, batch, warm>>
      BY <1>1 DEF TimePasses, Typed
    <2>2. Typed'
      BY <2>1 DEF Typed
    <2>3. StateSound' /\ WarmSound'
      BY <2>1, TimeKeeps DEF StateSound, WarmSound, Typed
    <2>4. BatchSound'
      <3>1. \A k : Serves(fills, now, k, batch) => Serves(fills, now + 1, k, batch)
        BY TimeKeeps DEF Serves
      <3> QED BY <2>1, <3>1 DEF BatchSound, Typed, Batches
    <2> QED BY <2>2, <2>3, <2>4
  <1>2. ASSUME NEW exit \in BOOLEAN, NEW holds \in BOOLEAN, SourceTrades(exit, holds)
        PROVE  CacheInv'
    <2> DEFINE f == [exit |-> exit, holds |-> holds, at |-> now]
    <2>1. fills' = Append(fills, f) /\ UNCHANGED <<now, state, batch, warm>>
      BY <1>2 DEF SourceTrades
    <2>2. f \in Fill /\ f.at = now
      BY DEF Fill, Typed
    <2> HIDE DEF f
    <2>3. Typed'
      BY <2>1, <2>2, FillKeeps DEF Typed
    <2>4. StateSound' /\ WarmSound'
      BY <2>1, <2>2, FillKeeps DEF StateSound, WarmSound
    <2>5. BatchSound'
      <3>1. batch \in Batches /\ Len(fills) \in Nat
        BY DEF Typed
      <3>2. batch.lookup.pc = "read" => batch.pc = "state"
        BY <3>1 DEF BatchSound, Batches
      <3>3. \A k : batch.upto <= Len(fills) /\ Serves(fills, now, k, batch)
                      => Serves(fills', now, k, batch)
        BY <2>1, <2>2, <3>1, FillKeeps
      <3>4. batch.upto <= Len(fills) => batch.upto <= Len(fills')
        BY <2>1, <2>2, <3>1, FillKeeps DEF Batches
      <3> QED BY <2>1, <3>2, <3>3, <3>4 DEF BatchSound
    <2> QED BY <2>3, <2>4, <2>5
  <1> QED BY <1>1, <1>2

(* What a lookup reads now is sound, and includes everything there is.     *)
LEMMA LookupSound ==
    ASSUME Typed, NEW l \in Lookup, l.at \in 0 .. now, NEW ok \in BOOLEAN
    PROVE  /\ Read(l, ok) \in Lookup /\ Read(l, ok).pc = "read"
           /\ Read(l, ok).at = l.at /\ Read(l, ok).seen = Len(fills)
           /\ Sound(fills, now, Read(l, ok))
  <1>1. Len(fills) \in Nat
    BY DEF Typed
  <1>2. /\ Read(l, ok) \in Lookup /\ Read(l, ok).pc = "read"
        /\ Read(l, ok).at = l.at /\ Read(l, ok).seen = Len(fills)
    BY <1>1 DEF Read, Lookup
  <1> QED BY <1>1, <1>2 DEF Sound

LEMMA FailedLookup ==
    ASSUME NEW l \in Lookup
    PROVE  Failed(l) \in Lookup /\ Failed(l).pc = "failed" /\ Failed(l).at = l.at
  BY DEF Failed, Lookup

(* The cache keeps what it has or takes what was read.                     *)
LEMMA StoredSound ==
    ASSUME Typed, StateSound, NEW l \in Lookup, l.pc = "read" => Sound(fills, now, l),
           l.pc \in {"read", "failed"}
    PROVE  /\ Stored(l) \in Known
           /\ Stored(l).at # Never => Sound(fills, now, Stored(l))
  <1>1. CASE Stored(l) = state
    BY <1>1 DEF StateSound, Typed
  <1>2. CASE l.pc = "read" /\ Stored(l) = [at |-> l.at, seen |-> l.seen, ok |-> l.ok]
    BY <1>2 DEF Known, Lookup, Sound
  <1> QED BY <1>1, <1>2 DEF Stored
----------------------------------------------------------------------------
LEMMA BatchStarts ==
    ASSUME CacheInv, NEW from \in 1 .. Len(fills), NEW upto \in 1 .. Len(fills),
           StartBatch(from, upto)
    PROVE  CacheInv'
  <1> USE DEF CacheInv
  <1>0. UNCHANGED <<now, fills, state, warm>> /\ now \in Nat /\ Len(fills) \in Nat
    BY DEF StartBatch, Typed
  <1>1. StateSound' /\ WarmSound'
    BY <1>0 DEF StateSound, WarmSound
  <1>2. CASE Usable(from, upto)
    <2>1. batch' = [pc |-> "ready", from |-> from, upto |-> upto, began |-> now,
                    uses |-> state, lookup |-> NoLookup]
      BY <1>2 DEF StartBatch
    <2>2. Typed'
      BY <1>0, <2>1, Kinds DEF Typed, Batches
    <2>3. Serves(fills, now, state, batch')
      <3>1. Sound(fills, now, state)
        BY <1>2 DEF Usable, StateSound
      <3>2. batch'.from = from /\ batch'.upto = upto /\ batch'.began = now
        BY <2>1
      <3>3. now - MaxAge <= state.at
        <4>1. state.at \in Int /\ MaxAge \in Nat /\ now - state.at <= MaxAge
          BY <1>2, CacheAssumption DEF Usable, Typed, Known, CacheAssumption
        <4> QED BY <1>0, <4>1
      <3>4. \A i \in from .. upto : ~fills[i].exit
        BY <1>2 DEF Usable
      <3> QED BY <3>1, <3>2, <3>3, <3>4 DEF Serves
    <2>4. BatchSound'
      BY <1>0, <2>1, <2>3 DEF BatchSound, NoLookup
    <2> QED BY <1>1, <2>2, <2>4
  <1>3. CASE ~Usable(from, upto)
    <2>1. batch' = [pc |-> "state", from |-> from, upto |-> upto, began |-> now,
                    uses |-> Unknown, lookup |-> Asked(now)]
      BY <1>3 DEF StartBatch
    <2>2. Asked(now) \in Lookup /\ Asked(now).pc = "asked" /\ Asked(now).at = now
      BY <1>0, AskedNow
    <2>3. Typed'
      BY <1>0, <2>1, <2>2, Kinds DEF Typed, Batches
    <2>4. BatchSound'
      BY <1>0, <2>1, <2>2 DEF BatchSound
    <2> QED BY <1>1, <2>3, <2>4
  <1> QED BY <1>2, <1>3

LEMMA BatchStep ==
    ASSUME CacheInv, ReadForBatch \/ AnswerBatch \/ Decide
    PROVE  CacheInv'
  <1> USE DEF CacheInv
  <1>0. batch \in Batches /\ batch.lookup \in Lookup /\ now \in Nat /\ Len(fills) \in Nat
    BY DEF Typed, Batches
  <1>1. CASE ReadForBatch
    <2>1. batch.pc = "state" /\ batch.lookup.at = batch.began /\ batch.began <= now
          /\ batch.upto <= Len(fills)
      BY <1>0, <1>1 DEF ReadForBatch, BatchSound, Batches
    <2>2. UNCHANGED <<now, fills, state, warm>>
      BY <1>1 DEF ReadForBatch
    <2>3. PICK l \in {Failed(batch.lookup)} \cup {Read(batch.lookup, ok) : ok \in BOOLEAN} :
            batch' = [batch EXCEPT !.lookup = l]
      BY <1>1 DEF ReadForBatch
    <2>4. batch.lookup.at \in 0 .. now
      BY <1>0, <2>1 DEF Batches
    <2>5. l \in Lookup /\ l.at = batch.lookup.at
          /\ (l.pc = "read" => l.seen = Len(fills) /\ Sound(fills, now, l))
      BY <1>0, <2>3, <2>4, LookupSound, FailedLookup
    <2>6. batch' \in Batches /\ batch'.lookup = l /\ batch'.pc = batch.pc
          /\ batch'.began = batch.began /\ batch'.upto = batch.upto /\ batch'.from = batch.from
      BY <1>0, <2>3, <2>5 DEF Batches
    <2>7. Typed' /\ StateSound' /\ WarmSound'
      BY <2>2, <2>6 DEF Typed, StateSound, WarmSound
    <2>8. l.pc = "read" => Serves(fills, now, l, batch')
      BY <1>0, <2>1, <2>5, <2>6, CacheAssumption DEF Serves, Batches, CacheAssumption
    <2>9. BatchSound'
      BY <2>1, <2>2, <2>5, <2>6, <2>8 DEF BatchSound
    <2> QED BY <2>7, <2>9
  <1>2. CASE AnswerBatch
    <2> DEFINE l == batch.lookup
               u == IF l.pc = "failed" THEN Unknown
                    ELSE [at |-> l.at, seen |-> l.seen, ok |-> l.ok]
    <2>1. /\ l.pc \in {"read", "failed"} /\ state' = Stored(l)
          /\ batch' = [batch EXCEPT !.pc = "ready", !.lookup = NoLookup, !.uses = u]
          /\ UNCHANGED <<now, fills, warm>>
      BY <1>2 DEF AnswerBatch
    <2>2. batch.pc = "state"
      BY <1>0, <2>1 DEF BatchSound, Batches
    <2>3. l.pc = "read" => Serves(fills, now, l, batch) /\ Sound(fills, now, l)
      BY DEF BatchSound, Serves
    <2>4. u \in Known
      BY <1>0, Kinds DEF Known, Lookup
    <2>5. batch' \in Batches /\ batch'.pc = "ready" /\ batch'.uses = u
          /\ batch'.lookup = NoLookup /\ batch'.began = batch.began
          /\ batch'.upto = batch.upto /\ batch'.from = batch.from
      BY <1>0, <2>1, <2>4, Kinds DEF Batches
    <2>6. u # Unknown => Serves(fills, now, u, batch')
      BY <1>0, <2>1, <2>3, <2>5 DEF Serves, Sound
    <2>7. Typed' /\ StateSound'
      BY <1>0, <2>1, <2>3, <2>5, StoredSound DEF Typed, StateSound
    <2>8. WarmSound' /\ BatchSound'
      BY <2>1, <2>2, <2>5, <2>6 DEF WarmSound, BatchSound, NoLookup
    <2> QED BY <2>7, <2>8
  <1>3. CASE Decide
    <2>1. batch' = NoBatch /\ UNCHANGED <<now, fills, state, warm>>
      BY <1>3 DEF Decide
    <2> QED BY <2>1, Kinds
            DEF Typed, StateSound, WarmSound, BatchSound, NoBatch, NoLookup, Unknown
  <1> QED BY <1>1, <1>2, <1>3

LEMMA WarmStep ==
    ASSUME CacheInv,
           (\E allocated \in BOOLEAN : WarmUp(allocated)) \/ ReadForWarmUp \/ AnswerWarmUp
    PROVE  CacheInv'
  <1> USE DEF CacheInv
  <1>0. warm \in Lookup /\ now \in Nat
    BY DEF Typed
  <1>1. ASSUME NEW allocated \in BOOLEAN, WarmUp(allocated) PROVE CacheInv'
    <2>1. /\ state' \in {state, Unknown} /\ warm' \in {Asked(now), NoLookup}
          /\ UNCHANGED <<now, fills, batch>>
      BY <1>1 DEF WarmUp
    <2>2. Asked(now) \in Lookup /\ Asked(now).pc = "asked" /\ Asked(now).at = now
      BY <1>0, AskedNow
    <2>3. Typed'
      BY <2>1, <2>2, Kinds DEF Typed
    <2>s. StateSound'
      <3>1. Unknown.at = Never
        BY DEF Unknown
      <3> QED BY <2>1, <3>1 DEF StateSound
    <2>4. WarmSound' /\ BatchSound'
      BY <1>0, <2>1, <2>2 DEF WarmSound, BatchSound, NoLookup
    <2> QED BY <2>3, <2>s, <2>4
  <1>2. CASE ReadForWarmUp
    <2>1. warm.at \in 0 .. now
      BY <1>2 DEF ReadForWarmUp, WarmSound
    <2>2. PICK l \in {Failed(warm)} \cup {Read(warm, ok) : ok \in BOOLEAN} : warm' = l
      BY <1>2 DEF ReadForWarmUp
    <2>3. l \in Lookup /\ l.at = warm.at /\ (l.pc = "read" => Sound(fills, now, l))
      BY <1>0, <2>1, <2>2, LookupSound, FailedLookup
    <2>4. UNCHANGED <<now, fills, state, batch>>
      BY <1>2 DEF ReadForWarmUp
    <2> QED BY <2>1, <2>2, <2>3, <2>4 DEF Typed, StateSound, WarmSound, BatchSound
  <1>3. CASE AnswerWarmUp
    <2>1. /\ warm.pc \in {"read", "failed"} /\ state' = Stored(warm) /\ warm' = NoLookup
          /\ UNCHANGED <<now, fills, batch>>
      BY <1>3 DEF AnswerWarmUp
    <2>2. Typed' /\ StateSound'
      BY <1>0, <2>1, Kinds, StoredSound DEF Typed, StateSound, WarmSound
    <2>3. WarmSound' /\ BatchSound'
      BY <2>1 DEF WarmSound, BatchSound, NoLookup
    <2> QED BY <2>2, <2>3
  <1> QED BY <1>1, <1>2, <1>3

LEMMA CacheStep == CacheInv /\ [CacheNext]_cacheVars => CacheInv'
  <1> SUFFICES ASSUME CacheInv, [CacheNext]_cacheVars PROVE CacheInv'
    OBVIOUS
  <1>1. CASE TimePasses \/ \E exit, holds \in BOOLEAN : SourceTrades(exit, holds)
    BY <1>1, WorldStep
  <1>2. CASE \E from, upto \in 1..Len(fills) : StartBatch(from, upto)
    BY <1>2, BatchStarts
  <1>3. CASE ReadForBatch \/ AnswerBatch \/ Decide
    BY <1>3, BatchStep
  <1>4. CASE (\E allocated \in BOOLEAN : WarmUp(allocated)) \/ ReadForWarmUp \/ AnswerWarmUp
    BY <1>4, WarmStep
  <1>5. CASE UNCHANGED cacheVars
    BY <1>5 DEF cacheVars, CacheInv, Typed, StateSound, WarmSound, BatchSound
  <1> QED BY <1>1, <1>2, <1>3, <1>4, <1>5 DEF CacheNext

(* The cache's variables have their types, and the bounds hold.            *)
CacheBounded == CacheInv /\ now <= MaxTime /\ Len(fills) <= MaxFills

LEMMA CacheBounds == CacheBounded /\ [CacheNext]_cacheVars => CacheBounded'
  <1> SUFFICES ASSUME CacheBounded, [CacheNext]_cacheVars PROVE CacheBounded'
    OBVIOUS
  <1>0. CacheInv /\ now <= MaxTime /\ Len(fills) <= MaxFills /\ now \in Nat /\ fills \in Seq(Fill)
    BY DEF CacheBounded, CacheInv, Typed
  <1>1. CacheInv'
    BY <1>0, CacheStep
  <1>2. now' <= MaxTime
    <2>1. now' = now \/ (now < MaxTime /\ now' = now + 1)
      BY DEF CacheNext, TimePasses, SourceTrades, StartBatch, ReadForBatch, AnswerBatch, Decide,
             WarmUp, ReadForWarmUp, AnswerWarmUp, cacheVars
    <2> QED BY <1>0, <2>1, CacheAssumption DEF CacheAssumption
  <1>3. Len(fills') <= MaxFills
    <2>1. \/ fills' = fills
          \/ Len(fills) < MaxFills /\ \E f : fills' = Append(fills, f)
      BY DEF CacheNext, TimePasses, SourceTrades, StartBatch, ReadForBatch, AnswerBatch, Decide,
             WarmUp, ReadForWarmUp, AnswerWarmUp, cacheVars
    <2>2. \A f : Len(Append(fills, f)) = Len(fills) + 1
      BY <1>0
    <2> QED BY <1>0, <2>1, <2>2, CacheAssumption DEF CacheAssumption
  <1> QED BY <1>1, <1>2, <1>3 DEF CacheBounded

LEMMA CacheBoundsStart == CacheInit => CacheBounded
  BY CacheStarts, CacheAssumption DEF CacheInit, CacheBounded, CacheAssumption

LEMMA CacheTyped == CacheBounded => CacheTypeOK
  <1> SUFFICES ASSUME CacheBounded PROVE CacheTypeOK
    OBVIOUS
  <1>1. Typed /\ now <= MaxTime /\ Len(fills) <= MaxFills
    BY DEF CacheBounded, CacheInv
  <1> QED BY <1>1, CacheAssumption DEF Typed, Batches, CacheTypeOK, CacheAssumption
----------------------------------------------------------------------------
(* What the copy engines take from copy_execution_cache is no older than   *)
(* the cache allows, and an exit is sized by a state that includes it.     *)
THEOREM RecentDecisions == CacheSpec => []DecidesOnRecent
  <1>1. CacheInv => DecidesOnRecent
    <2> SUFFICES ASSUME CacheInv, batch.pc = "ready", batch.uses # Unknown
                 PROVE  /\ Includes(batch.uses.seen, batch.began - MaxAge)
                        /\ \A i \in batch.from..batch.upto :
                              fills[i].exit => batch.uses.seen >= i
      BY DEF DecidesOnRecent
    <2>1. Serves(fills, now, batch.uses, batch) /\ batch \in Batches /\ fills \in Seq(Fill)
      BY DEF CacheInv, BatchSound, Typed
    <2>2. /\ batch.uses.at \in Int /\ batch.uses.seen \in Nat /\ batch.began \in Nat
          /\ batch.from \in Nat /\ batch.upto \in Nat
      BY <2>1 DEF Batches, Serves, Sound
    <2>t. \A i \in 1 .. Len(fills) : fills[i].at \in Nat
      <3>1. \A i \in 1 .. Len(fills) : fills[i] \in Fill
        BY <2>1, ElementOfSeq
      <3> QED BY <3>1 DEF Fill
    <2>3. Includes(batch.uses.seen, batch.began - MaxAge)
      BY <2>1, <2>2, <2>t, CacheAssumption DEF Includes, Serves, Sound, CacheAssumption
    <2>4. \A i \in batch.from..batch.upto : fills[i].exit => batch.uses.seen >= i
      BY <2>1, <2>2 DEF Serves
    <2> QED BY <2>3, <2>4
  <1> QED BY <1>1, CacheStarts, CacheStep, PTL DEF CacheSpec
-----------------------------------------------------------------------------
(***************************************************************************)
(* The reserve of copy execution is kept for any number of processes and   *)
(* callers, any sizes, rates and weights.                                  *)
(*                                                                         *)
(* Types and ReserveKept together are inductive: the types bound what      *)
(* executions owe by the reserve, so that a reserve that is owed in full   *)
(* leaves a bucket that is not overdrawn.                                  *)
(***************************************************************************)

BudgetInv == BudgetTypeOK /\ ReserveKept

Numbers ==
    /\ Burst \in Nat /\ Rate \in Nat /\ Reserve \in Nat /\ LocalBurst \in Nat
    /\ LocalRate \in Nat /\ Base \in Nat /\ Extra \in Nat /\ RetryAfter \in Nat
    /\ Reserve + Base + Extra <= Burst

(* The constants are numbers, and a process is at home.                    *)
LEMMA Constants == Numbers /\ Home \in [Callers -> Processes]
  BY BudgetAssumption DEF BudgetAssumption, Numbers

(* What the shared bucket and the debt to its reserve keep: the part of    *)
(* the invariant that is about numbers.                                    *)
Balanced(b, o) == b \in Int /\ b <= Burst /\ o \in 0 .. Reserve /\ b + o >= Reserve

LEMMA TakeBalanced ==
    ASSUME Balanced(bucket, owed), NEW c \in Callers, CanTake(c), Taken(c)
    PROVE  Balanced(bucket', owed')
  <1> USE Constants DEF Numbers
  <1>1. Reserved \in Nat
    BY DEF Reserved
  <1>2. CASE c \in Executing
    BY <1>1, <1>2 DEF Balanced, CanTake, Floor, Taken, Lower
  <1>3. CASE c \notin Executing
    BY <1>1, <1>3 DEF Balanced, CanTake, Floor, Taken
  <1> QED BY <1>2, <1>3

LEMMA AdjustBalanced ==
    ASSUME Balanced(bucket, owed), NEW c \in Callers, NEW w \in Nat, Adjusted(c, w)
    PROVE  Balanced(bucket', owed')
  BY Constants DEF Numbers, Balanced, Adjusted, Lower, AtLeastZero

LEMMA RefillBalanced ==
    ASSUME Balanced(bucket, owed), Tick
    PROVE  Balanced(bucket', owed')
  BY Constants DEF Numbers, Balanced, Tick, Lower, AtLeastZero
----------------------------------------------------------------------------
(* The rest of the types.                                                  *)
Places == {"idle", "waiting", "taking", "local", "shared grant", "local grant"}

Processed ==
    /\ local \in [Processes -> Int]
    /\ silent \in [Processes -> 0 .. RetryAfter]
    /\ caller \in [Callers -> Places]

(* One process changes its bucket or its silence.                          *)
LEMMA Elsewhere ==
    ASSUME Processed, NEW p \in Processes
    PROVE  /\ \A n \in Int : [local EXCEPT ![p] = n] \in [Processes -> Int]
           /\ [silent EXCEPT ![p] = 0] \in [Processes -> 0 .. RetryAfter]
           /\ [silent EXCEPT ![p] = RetryAfter] \in [Processes -> 0 .. RetryAfter]
  BY Constants DEF Processed, Numbers

LEMMA Going ==
    ASSUME Processed, NEW c \in Callers, NEW place \in Places, Goes(c, place)
    PROVE  caller' \in [Callers -> Places]
  BY DEF Processed, Goes

LEMMA Split == BudgetInv <=> Balanced(bucket, owed) /\ Processed
  BY Constants DEF Numbers, BudgetInv, BudgetTypeOK, ReserveKept, Balanced, Processed, Places

LEMMA SplitNext == BudgetInv' <=> Balanced(bucket', owed') /\ Processed'
  BY Constants DEF Numbers, BudgetInv, BudgetTypeOK, ReserveKept, Balanced, Processed, Places

LEMMA BudgetStarts == BudgetInit => BudgetInv
  <1> SUFFICES ASSUME BudgetInit PROVE BudgetInv
    OBVIOUS
  <1>1. Balanced(bucket, owed)
    BY Constants DEF Numbers, Balanced, BudgetInit
  <1>2. Processed
    BY Constants DEF Numbers, Processed, Places, BudgetInit
  <1> QED BY <1>1, <1>2, Split

(* A caller's step, one case for each place it goes on from.               *)
LEMMA CallerStep ==
    ASSUME BudgetInv, NEW c \in Callers,
           Ask(c) \/ Yield(c) \/ Take(c) \/ Wait(c) \/ FallBack(c) \/ TakeLocal(c) \/ Settle(c)
    PROVE  BudgetInv'
  <1> USE Constants
  <1>0. Balanced(bucket, owed) /\ Processed
    BY Split
  <1>h. Home[c] \in Processes
    OBVIOUS
  <1>1. CASE Ask(c)
    BY <1>0, <1>1, SplitNext DEF Ask, Goes, Balanced, Processed, Places
  <1>2. CASE Yield(c)
    BY <1>0, <1>2, SplitNext DEF Yield, Goes, Balanced, Processed, Places
  <1>3. CASE Take(c)
    <2>1. Balanced(bucket', owed')
      BY <1>0, <1>3, TakeBalanced DEF Take
    <2>2. Processed'
      <3>1. silent' \in [Processes -> 0 .. RetryAfter]
        BY <1>0, <1>h, <1>3, Elsewhere DEF Take
      <3>2. caller' \in [Callers -> Places]
        BY <1>0, <1>3, Going DEF Take, Places
      <3> QED BY <1>0, <1>3, <3>1, <3>2 DEF Take, Processed
    <2> QED BY <2>1, <2>2, SplitNext
  <1>4. CASE Wait(c)
    BY <1>0, <1>4, SplitNext DEF Wait, Goes, Balanced, Processed, Places
  <1>5. CASE FallBack(c)
    <2>1. Balanced(bucket', owed')
      BY <1>0, <1>5, TakeBalanced DEF FallBack
    <2>2. Processed'
      <3>1. silent' \in [Processes -> 0 .. RetryAfter]
        BY <1>0, <1>h, <1>5, Elsewhere DEF FallBack
      <3>2. caller' \in [Callers -> Places]
        BY <1>0, <1>5, Going DEF FallBack, Places
      <3> QED BY <1>0, <1>5, <3>1, <3>2 DEF FallBack, Processed
    <2> QED BY <2>1, <2>2, SplitNext
  <1>6. CASE TakeLocal(c)
    <2>1. Balanced(bucket', owed')
      BY <1>0, <1>6 DEF TakeLocal
    <2>2. Processed'
      <3>1. local[Home[c]] - Reserved \in Int
        BY <1>0, <1>h DEF Processed, Reserved, Numbers
      <3>2. local' \in [Processes -> Int]
        BY <1>0, <1>h, <1>6, <3>1, Elsewhere DEF TakeLocal
      <3>3. caller' \in [Callers -> Places]
        BY <1>0, <1>6, Going DEF TakeLocal, Places
      <3> QED BY <1>0, <1>6, <3>2, <3>3 DEF TakeLocal, Processed
    <2> QED BY <2>1, <2>2, SplitNext
  <1>7. CASE Settle(c)
    <2>1. PICK used \in Base .. Base + Extra :
            LET p == Home[c]  unused == Reserved - used IN
            /\ \/ /\ caller[c] = "shared grant"
                  /\ Adjusted(c, unused)
                  /\ silent' \in {silent, [silent EXCEPT ![p] = RetryAfter]}
                  /\ UNCHANGED local
               \/ /\ caller[c] = "shared grant"
                  /\ silent' = [silent EXCEPT ![p] = RetryAfter]
                  /\ UNCHANGED <<bucket, local, owed>>
               \/ /\ caller[c] = "local grant"
                  /\ local' = [local EXCEPT ![p] = Lower(LocalBurst, @ + unused)]
                  /\ UNCHANGED <<bucket, silent, owed>>
            /\ Goes(c, "idle")
      BY <1>7 DEF Settle
    <2> DEFINE unused == Reserved - used
    <2>2. unused \in Nat
      BY DEF Numbers, Reserved
    <2>3. Balanced(bucket', owed')
      <3>1. CASE Adjusted(c, unused)
        BY <1>0, <2>2, <3>1, AdjustBalanced
      <3>2. CASE UNCHANGED <<bucket, owed>>
        BY <1>0, <3>2
      <3> QED BY <2>1, <3>1, <3>2
    <2>4. local' \in [Processes -> Int]
      <3>1. Lower(LocalBurst, local[Home[c]] + unused) \in Int
        BY <1>0, <1>h, <2>2 DEF Processed, Lower, Numbers
      <3>2. [local EXCEPT ![Home[c]] = Lower(LocalBurst, @ + unused)] \in [Processes -> Int]
        BY <1>0, <1>h, <3>1, Elsewhere
      <3>3. local \in [Processes -> Int]
        BY <1>0 DEF Processed
      <3> QED BY <2>1, <3>2, <3>3
    <2>5. silent' \in [Processes -> 0 .. RetryAfter]
      <3>1. silent \in [Processes -> 0 .. RetryAfter]
        BY <1>0 DEF Processed
      <3>2. silent' = silent \/ silent' = [silent EXCEPT ![Home[c]] = RetryAfter]
        BY <2>1
      <3>3. [silent EXCEPT ![Home[c]] = RetryAfter] \in [Processes -> 0 .. RetryAfter]
        BY <1>0, <1>h, Elsewhere
      <3> QED BY <3>1, <3>2, <3>3
    <2>6. caller' \in [Callers -> Places]
      BY <1>0, <2>1 DEF Processed, Goes, Places
    <2> QED BY <2>3, <2>4, <2>5, <2>6, SplitNext DEF Processed
  <1> QED BY <1>1, <1>2, <1>3, <1>4, <1>5, <1>6, <1>7

LEMMA BudgetStep == BudgetInv /\ [BudgetNext]_budgetVars => BudgetInv'
  <1> SUFFICES ASSUME BudgetInv, [BudgetNext]_budgetVars PROVE BudgetInv'
    OBVIOUS
  <1>0. Balanced(bucket, owed) /\ Processed
    BY Split
  <1>1. ASSUME NEW c \in Callers,
               Ask(c) \/ Yield(c) \/ Take(c) \/ Wait(c) \/ FallBack(c) \/ TakeLocal(c) \/ Settle(c)
        PROVE  BudgetInv'
    BY <1>1, CallerStep
  <1>2. ASSUME NEW p \in Processes, Restart(p) PROVE BudgetInv'
    <2>1. Balanced(bucket', owed')
      BY <1>0, <1>2 DEF Restart
    <2>2. Processed'
      <3>1. local' \in [Processes -> Int] /\ silent' \in [Processes -> 0 .. RetryAfter]
        BY <1>0, <1>2, Constants, Elsewhere DEF Restart, Numbers
      <3>2. caller' \in [Callers -> Places]
        BY <1>0, <1>2 DEF Restart, Processed, Places
      <3> QED BY <3>1, <3>2 DEF Processed
    <2> QED BY <2>1, <2>2, SplitNext
  <1>3. CASE Tick
    <2>1. Balanced(bucket', owed')
      BY <1>0, <1>3, RefillBalanced
    <2>2. Processed'
      BY <1>0, <1>3, Constants DEF Tick, Processed, Lower, AtLeastZero, Numbers
    <2> QED BY <2>1, <2>2, SplitNext
  <1>4. CASE RedisRestarts
    <2>1. Balanced(bucket', owed')
      BY <1>4, Constants DEF RedisRestarts, Balanced, Numbers
    <2>2. Processed'
      BY <1>0, <1>4 DEF RedisRestarts, Processed
    <2> QED BY <2>1, <2>2, SplitNext
  <1>5. CASE UNCHANGED budgetVars
    BY <1>0, <1>5, SplitNext DEF budgetVars, Balanced, Processed
  <1> QED BY <1>1, <1>2, <1>3, <1>4, <1>5 DEF BudgetNext
----------------------------------------------------------------------------
(* The buckets, callers and debts of hyperliquid_info_budget keep their    *)
(* types; the shared bucket never holds more than its size.                *)
THEOREM BudgetTyped == BudgetSpec => []BudgetTypeOK
  <1>1. BudgetInv => BudgetTypeOK
    BY DEF BudgetInv
  <1> QED BY <1>1, BudgetStarts, BudgetStep, PTL DEF BudgetSpec

(* Background requests leave the execution reserve of the shared bucket    *)
(* alone, whatever answers of Redis are lost, refunded or late.            *)
THEOREM ReserveStands == BudgetSpec => []ReserveKept
  <1>1. BudgetInv => ReserveKept
    BY DEF BudgetInv
  <1> QED BY <1>1, BudgetStarts, BudgetStep, PTL DEF BudgetSpec
-----------------------------------------------------------------------------
(***************************************************************************)
(* A cancel request that was accepted stays with its run, for any number   *)
(* of runs and for each kind of operation.                                 *)
(*                                                                         *)
(* A write that leaves the row running for the same run has read the row   *)
(* in its own transaction and keeps the request; a status read or a cancel *)
(* request that acts on a row it read before only ever ends a run.  So all *)
(* the invariant has to say is that rows, the remembered ones included,    *)
(* are rows.                                                               *)
(***************************************************************************)

Watches == [step : {"none", "read", "stale"}, row : Rows]
Requests == [step : {"none", "read", "live", "stale"}, row : Rows]
RowsKept == row \in Rows /\ watch \in Watches /\ asking \in Requests

LEMMA Written ==
    ASSUME RowsKept, NEW r \in Runs
    PROVE  /\ Started(r, TRUE) \in Rows /\ Started(r, FALSE) \in Rows
           /\ Progressed(r) \in Rows
           /\ Succeeded(r) \in Rows /\ MarkedFailed(r) \in Rows /\ Canceled(r) \in Rows
  BY DEF RowsKept, Rows, Started, Progressed, Succeeded, MarkedFailed, Canceled

(* A row that was read may be written back as ended.                       *)
LEMMA RowsEnded ==
    ASSUME NEW old \in Rows
    PROVE  /\ MarkedFailed(old.id) \in Rows /\ Canceled(old.id) \in Rows
           /\ [old EXCEPT !.recent = FALSE] \in Rows
           /\ [old EXCEPT !.cancel = TRUE, !.recent = FALSE] \in Rows
  BY DEF Rows, MarkedFailed, Canceled

LEMMA RunKeepsRows ==
    ASSUME RowsKept, NEW r \in Runs, RunStep(r)
    PROVE  RowsKept'
  <1>1. UNCHANGED <<watch, asking>>
    BY DEF RunStep, Accept, Queue, TakeLock, Begin, Checkpoint, Progress, Persist, Fail,
           Report, Release, FailAgain, Crash
  <1>2. \/ row' = row
        \/ row' \in {Started(r, TRUE), Started(r, FALSE), Progressed(r)}
        \/ row' \in {Succeeded(r), MarkedFailed(r), Canceled(r), MarkedFailed(row.id)}
    BY DEF RunStep, Accept, Queue, TakeLock, Begin, Checkpoint, Progress, Persist, Fail,
           Report, Release, FailAgain, Crash
  <1>3. row \in Rows
    BY DEF RowsKept
  <1>4. row' \in Rows
    BY <1>2, <1>3, Written, RowsEnded
  <1> QED BY <1>1, <1>4 DEF RowsKept

LEMMA ReadsKeepRows ==
    ASSUME RowsKept,
           Age \/ Expire \/ WatchRead \/ WatchLock \/ WatchWrite
             \/ CancelRead \/ CancelLock \/ CancelWrite
    PROVE  RowsKept'
  <1>1. row \in Rows /\ watch.row \in Rows /\ asking.row \in Rows
    BY DEF RowsKept, Watches, Requests
  <1>2. NoOne \in Watches /\ NoOne \in Requests
    BY DEF NoOne, Watches, Requests, Rows, Idle
  <1>3. CASE Age \/ Expire
    BY <1>1, <1>3, RowsEnded DEF RowsKept, Age, Expire
  <1>4. CASE WatchRead
    <2>1. watch' \in Watches
      BY <1>1, <1>4 DEF WatchRead, Watches
    <2> QED BY <1>4, <2>1 DEF RowsKept, WatchRead
  <1>5. CASE WatchLock
    <2>1. watch' \in Watches
      BY <1>2, <1>5 DEF RowsKept, WatchLock, Watches
    <2> QED BY <1>5, <2>1 DEF RowsKept, WatchLock
  <1>6. CASE WatchWrite
    <2>1. row' \in Rows
      BY <1>1, <1>6, RowsEnded DEF WatchWrite
    <2> QED BY <1>2, <1>6, <2>1 DEF RowsKept, WatchWrite
  <1>7. CASE CancelRead
    <2>1. asking' \in Requests
      BY <1>1, <1>7 DEF CancelRead, Requests
    <2> QED BY <1>7, <2>1 DEF RowsKept, CancelRead
  <1>8. CASE CancelLock
    <2>1. asking' \in Requests
      BY <1>8 DEF RowsKept, CancelLock, Requests
    <2> QED BY <1>8, <2>1 DEF RowsKept, CancelLock
  <1>9. CASE CancelWrite
    <2>1. row' \in Rows
      BY <1>1, <1>9, RowsEnded DEF CancelWrite
    <2> QED BY <1>2, <1>9, <2>1 DEF RowsKept, CancelWrite
  <1> QED BY <1>3, <1>4, <1>5, <1>6, <1>7, <1>8, <1>9

LEMMA RowsStart == StatusInit => RowsKept
  BY DEF StatusInit, RowsKept, NoOne, Idle, Watches, Requests, Rows

LEMMA RowsStep == RowsKept /\ [StatusNext]_statusVars => RowsKept'
  <1> SUFFICES ASSUME RowsKept, [StatusNext]_statusVars PROVE RowsKept'
    OBVIOUS
  <1>1. CASE UNCHANGED statusVars
    BY <1>1 DEF RowsKept, statusVars
  <1> QED BY <1>1, RunKeepsRows, ReadsKeepRows DEF StatusNext
----------------------------------------------------------------------------
LEMMA RunKeepsCancel ==
    ASSUME RowsKept, NEW r \in Runs, RunStep(r)
    PROVE  CancelStays
  <1> SUFFICES ASSUME row.status = "running", row.cancel,
                      row'.status = "running", row'.id = row.id
               PROVE  row'.cancel
    BY DEF CancelStays
  <1>1. CASE Queue(r) \/ Begin(r)
    <2>1. row' = Started(r, TRUE) \/ row' = Started(r, FALSE)
      BY <1>1 DEF Queue, Begin
    <2>2. row.id = r
      BY <2>1 DEF Started
    <2>3. row'.cancel = (row.status = "running" /\ row.id = r /\ row.cancel)
      BY <2>1 DEF Started
    <2> QED BY <2>2, <2>3
  <1>2. CASE Progress(r)
    BY <1>2 DEF Progress, Progressed
  <1>3. CASE Report(r) \/ FailAgain(r)
    BY <1>3 DEF Report, FailAgain, Succeeded, MarkedFailed, Canceled
  <1>4. CASE \/ Accept(r) \/ TakeLock(r) \/ Checkpoint(r) \/ Persist(r) \/ Fail(r)
             \/ Release(r) \/ Crash(r)
    BY <1>4 DEF Accept, TakeLock, Checkpoint, Persist, Fail, Release, Crash
  <1> QED BY <1>1, <1>2, <1>3, <1>4 DEF RunStep

LEMMA ReadsKeepCancel ==
    ASSUME RowsKept,
           Age \/ Expire \/ WatchRead \/ WatchLock \/ WatchWrite
             \/ CancelRead \/ CancelLock \/ CancelWrite
    PROVE  CancelStays
  <1>1. row \in Rows
    BY DEF RowsKept
  <1>2. CASE Age
    BY <1>1, <1>2 DEF Age, CancelStays, Rows
  <1>3. CASE WatchWrite
    BY <1>3 DEF WatchWrite, CancelStays, MarkedFailed, Canceled
  <1>4. CASE CancelWrite
    BY <1>1, <1>4 DEF CancelWrite, CancelStays, Canceled, Rows
  <1>5. CASE Expire \/ WatchRead \/ WatchLock \/ CancelRead \/ CancelLock
    BY <1>5 DEF Expire, WatchRead, WatchLock, CancelRead, CancelLock, CancelStays
  <1> QED BY <1>2, <1>3, <1>4, <1>5

(* operation_status_service: a cancel request that was accepted stays on   *)
(* the row while the same run is the running one, whichever runs, status   *)
(* reads and requests write it.                                            *)
THEOREM CancelStands == StatusSpec => CancelSurvives
  <1>1. RowsKept /\ [StatusNext]_statusVars => [CancelStays]_statusVars
    BY RunKeepsCancel, ReadsKeepCancel DEF StatusNext
  <1> QED BY <1>1, RowsStart, RowsStep, PTL DEF StatusSpec, CancelSurvives
----------------------------------------------------------------------------
(* The runs and the owner of the lock have their types.                    *)
RunRows == [phase : Alive \cup {"new", "over"}, background : BOOLEAN]
StatusKept == RowsKept /\ owner \in Runs \cup {NoRun} /\ run \in [Runs -> RunRows]

LEMMA Moved ==
    ASSUME run \in [Runs -> RunRows], NEW r \in Runs, NEW x \in Alive \cup {"new", "over"},
           MovesTo(r, x)
    PROVE  run' \in [Runs -> RunRows]
  BY DEF MovesTo, RunRows

LEMMA StatusStep == StatusKept /\ [StatusNext]_statusVars => StatusKept'
  <1> SUFFICES ASSUME StatusKept, [StatusNext]_statusVars PROVE StatusKept'
    OBVIOUS
  <1>0. RowsKept' /\ owner \in Runs \cup {NoRun} /\ run \in [Runs -> RunRows]
    BY RowsStep DEF StatusKept
  <1>1. ASSUME NEW r \in Runs, RunStep(r)
        PROVE  owner' \in Runs \cup {NoRun} /\ run' \in [Runs -> RunRows]
    <2>1. CASE Accept(r)
      BY <1>0, <2>1 DEF Accept, RunRows, Alive
    <2>2. CASE TakeLock(r) \/ Release(r)
      <3>1. owner' \in {owner, r, NoRun}
        BY <2>2 DEF TakeLock, Release
      <3>2. run' = run \/ MovesTo(r, "locked") \/ MovesTo(r, "over")
        BY <2>2 DEF TakeLock, Release
      <3>3. {"locked", "over"} \subseteq Alive \cup {"new", "over"}
        BY DEF Alive
      <3> QED BY <1>0, <3>1, <3>2, <3>3, Moved
    <2>3. CASE \/ Queue(r) \/ Begin(r) \/ Checkpoint(r) \/ Progress(r) \/ Persist(r) \/ Fail(r)
               \/ Report(r) \/ FailAgain(r) \/ Crash(r)
      <3>1. owner' = owner
        BY <2>3 DEF Queue, Begin, Checkpoint, Progress, Persist, Fail, Report, FailAgain, Crash
      <3>2. \E x \in Alive \cup {"new", "over"} : MovesTo(r, x)
        BY <2>3 DEF Queue, Begin, Checkpoint, Progress, Persist, Fail, Report, FailAgain, Crash,
                    Alive
      <3> QED BY <1>0, <3>1, <3>2, Moved
    <2> QED BY <1>1, <2>1, <2>2, <2>3 DEF RunStep
  <1>2. CASE \/ Age \/ Expire \/ WatchRead \/ WatchLock \/ WatchWrite
             \/ CancelRead \/ CancelLock \/ CancelWrite
    <2>1. run' = run /\ owner' \in {owner, NoRun}
      BY <1>2 DEF Age, Expire, WatchRead, WatchLock, WatchWrite, CancelRead, CancelLock,
                  CancelWrite
    <2> QED BY <1>0, <2>1 DEF StatusKept
  <1>3. CASE UNCHANGED statusVars
    BY <1>0, <1>3 DEF statusVars, StatusKept
  <1> QED BY <1>0, <1>1, <1>2, <1>3 DEF StatusNext, StatusKept

LEMMA StatusStarts == StatusInit => StatusKept
  <1> SUFFICES ASSUME StatusInit PROVE StatusKept
    OBVIOUS
  <1>1. [phase |-> "new", background |-> FALSE] \in RunRows
    BY DEF RunRows
  <1> QED BY <1>1, RowsStart DEF StatusInit, StatusKept

LEMMA StatusTyped == StatusKept => StatusTypeOK
  BY DEF StatusKept, StatusTypeOK, RowsKept, Watches, Requests, RunRows
-----------------------------------------------------------------------------
(***************************************************************************)
(* A wallet that counts as synchronized has every trade of its fills, for  *)
(* any number of synchronizations, any fills and any cleanups.             *)
(*                                                                         *)
(* What the reconstruction makes of the fills is left as it is: the        *)
(* argument is about when it was made.  A change of the fills takes the    *)
(* revision past every number a synchronization has found, so one that     *)
(* found the revision of now has rebuilt from the fills of now.            *)
(***************************************************************************)
SyncOf(step, rev, new, ignored, old, oldMarks) ==
    [step |-> step, rev |-> rev, trades |-> new, marks |-> ignored,
     oldTrades |-> old, oldMarks |-> oldMarks]

Work(w) ==
    /\ w = SyncOf(w.step, w.rev, w.trades, w.marks, w.oldTrades, w.oldMarks)
    /\ w.rev \in Int /\ w.rev <= revision

(* What was found at the revision of now was rebuilt from the fills of now. *)
Current(w) ==
    w.step \in {"rebuilt", "trades", "marks"} /\ w.rev = revision =>
        w.trades = TradesOf(walletFills) /\ w.marks = MarksOf(walletFills)

SyncsKnown == DOMAIN sync = Syncs /\ \A s \in Syncs : Work(sync[s]) /\ Current(sync[s])

RevisionKnown ==
    /\ IsFiniteSet(traded) /\ walletFills \subseteq traded
    /\ revision \in Nat /\ synced \in Int /\ synced <= revision

TradesInv == RevisionKnown /\ SyncsKnown /\ SyncedIsComplete

LEMMA TradesStart == TradesInit => TradesInv
<1>. SUFFICES ASSUME TradesInit PROVE TradesInv
  OBVIOUS
<1>1. RevisionKnown /\ synced # revision
  BY FS_EmptySet DEF TradesInit, RevisionKnown, Missing
<1>2. SyncsKnown
  BY DEF TradesInit, SyncsKnown, Work, Current, NoSync, Missing, SyncOf
<1>. QED  BY <1>1, <1>2 DEF TradesInv, SyncedIsComplete

(* Fills that come or go leave nothing that is current.                    *)
LEMMA BumpedGrows ==
    ASSUME RevisionKnown, NEW changed, changed \subseteq traded
    PROVE  Bumped(changed) \in Nat /\ revision <= Bumped(changed)
           /\ (changed # {} => revision < Bumped(changed))
<1>1. IsFiniteSet(changed)
  BY FS_Subset DEF RevisionKnown
<1>2. Cardinality(changed) \in Nat /\ (changed # {} => Cardinality(changed) # 0)
  BY <1>1, FS_CardinalityType, FS_EmptySet
<1>. QED  BY <1>2 DEF Bumped, RevisionKnown

LEMMA RevisionMoves ==
    ASSUME TradesInv, UNCHANGED sync, revision' \in Nat, revision <= revision',
           revision' = revision => walletFills' = walletFills
    PROVE  SyncsKnown'
<1>1. ASSUME NEW s \in Syncs
      PROVE  Work(sync[s])' /\ Current(sync[s])'
  BY DEF TradesInv, SyncsKnown, RevisionKnown, Work, Current
<1>. QED  BY <1>1 DEF TradesInv, SyncsKnown

LEMMA TablesSame ==
    ASSUME TradesInv, UNCHANGED <<walletFills, revision, trades, marks, synced>>
    PROVE  SyncedIsComplete'
BY DEF TradesInv, SyncedIsComplete

LEMMA TradeKeeps == TradesInv /\ Trade => TradesInv'
<1>. SUFFICES ASSUME TradesInv, Trade PROVE TradesInv'
  OBVIOUS
<1>1. PICK f : traded' = traded \cup {f}
  BY DEF Trade
<1>2. RevisionKnown'
  BY <1>1, FS_AddElement DEF TradesInv, RevisionKnown, Trade
<1>3. SyncsKnown'
  BY RevisionMoves DEF Trade, TradesInv, RevisionKnown
<1>. QED  BY <1>2, <1>3, TablesSame DEF Trade, TradesInv

LEMMA ImportKeeps == TradesInv /\ Import => TradesInv'
<1>. SUFFICES ASSUME TradesInv, Import PROVE TradesInv'
  OBVIOUS
<1>1. PICK new \in SUBSET (traded \ walletFills) :
          new # {} /\ walletFills' = walletFills \cup new /\ revision' = Bumped(new)
  BY DEF Import
<1>2. revision' \in Nat /\ revision < revision'
  BY <1>1, BumpedGrows DEF TradesInv
<1>3. RevisionKnown' /\ synced' # revision'
  BY <1>1, <1>2 DEF TradesInv, RevisionKnown, Import
<1>4. SyncsKnown'
  BY <1>2, RevisionMoves DEF Import, TradesInv, RevisionKnown
<1>. QED  BY <1>3, <1>4 DEF TradesInv, SyncedIsComplete

LEMMA SyncMoves ==
    ASSUME TradesInv, NEW s \in Syncs, NEW w, sync' = [sync EXCEPT ![s] = w], Work(w), Current(w),
           UNCHANGED <<walletFills, revision>>
    PROVE  SyncsKnown'
<1>1. DOMAIN sync' = Syncs /\ \A o \in Syncs : sync'[o] = IF o = s THEN w ELSE sync[o]
  BY DEF TradesInv, SyncsKnown
<1>2. ASSUME NEW o \in Syncs
      PROVE  Work(sync[o])' /\ Current(sync[o])'
  BY <1>1 DEF TradesInv, SyncsKnown, Work, Current
<1>. QED  BY <1>1, <1>2 DEF SyncsKnown

LEMMA SyncTyped ==
    ASSUME TradesInv, NEW s \in Syncs
    PROVE  Work(sync[s]) /\ Current(sync[s]) /\ RevisionKnown
BY DEF TradesInv, SyncsKnown

LEMMA NoSyncKnown ==
    ASSUME TradesInv
    PROVE  Work(NoSync) /\ Current(NoSync)
BY DEF TradesInv, RevisionKnown, Work, Current, NoSync, Missing, SyncOf

(* The record of a synchronization, one field at a time.                   *)
AtStep(w, x) == [w EXCEPT !.step = x]
AtRevision(w, x) == [w EXCEPT !.rev = x]
WithTrades(w, x) == [w EXCEPT !.trades = x]
WithMarks(w, x) == [w EXCEPT !.marks = x]
OverTrades(w, x) == [w EXCEPT !.oldTrades = x]
OverMarks(w, x) == [w EXCEPT !.oldMarks = x]

LEMMA SyncFields ==
    ASSUME NEW a, NEW b, NEW c, NEW d, NEW e, NEW f, NEW x
    PROVE  /\ AtStep(SyncOf(a, b, c, d, e, f), x) = SyncOf(x, b, c, d, e, f)
           /\ AtRevision(SyncOf(a, b, c, d, e, f), x) = SyncOf(a, x, c, d, e, f)
           /\ WithTrades(SyncOf(a, b, c, d, e, f), x) = SyncOf(a, b, x, d, e, f)
           /\ WithMarks(SyncOf(a, b, c, d, e, f), x) = SyncOf(a, b, c, x, e, f)
           /\ OverTrades(SyncOf(a, b, c, d, e, f), x) = SyncOf(a, b, c, d, x, f)
           /\ OverMarks(SyncOf(a, b, c, d, e, f), x) = SyncOf(a, b, c, d, e, x)
BY DEF SyncOf, AtStep, AtRevision, WithTrades, WithMarks, OverTrades, OverMarks

LEMMA WorkIs ==
    ASSUME NEW w, NEW st, NEW rv \in Int, rv <= revision, NEW t, NEW m, NEW ot, NEW om,
           w = SyncOf(st, rv, t, m, ot, om),
           \/ st \notin {"rebuilt", "trades", "marks"} \/ rv # revision
           \/ t = TradesOf(walletFills) /\ m = MarksOf(walletFills)
    PROVE  Work(w) /\ Current(w)
BY DEF SyncOf, Work, Current

LEMMA SynchronizeKeeps == \A s \in Syncs : TradesInv /\ Synchronize(s) => TradesInv'
<1>. SUFFICES ASSUME NEW s \in Syncs, TradesInv, Synchronize(s)
              PROVE  TradesInv'
  OBVIOUS
<1>0. Work(sync[s]) /\ Current(sync[s]) /\ RevisionKnown
  BY SyncTyped
<1>1. CASE Find(s)
  <2>. DEFINE w == [NoSync EXCEPT !.step = "found", !.rev = revision]
  <2>2. sync' = [sync EXCEPT ![s] = w] /\ UNCHANGED <<traded, walletFills, revision, trades, marks, synced>>
    BY <1>1 DEF Find
  <2>0. w = AtRevision(AtStep(NoSync, "found"), revision)
        /\ NoSync = SyncOf("idle", Missing, {}, {}, {}, {})
    BY DEF AtRevision, AtStep, NoSync, SyncOf
  <2>1. w = SyncOf("found", revision, {}, {}, {}, {})
    BY <2>0, SyncFields
  <2>. HIDE DEF w
  <2>3. Work(w) /\ Current(w)
    BY <1>0, <2>1, WorkIs DEF RevisionKnown
  <2>. QED  BY <2>3, <2>2, SyncMoves, TablesSame DEF TradesInv, RevisionKnown
<1>2. CASE Rebuild(s)
  <2>. DEFINE w == [sync[s] EXCEPT !.step = "rebuilt", !.trades = TradesOf(walletFills),
                                   !.marks = MarksOf(walletFills)]
  <2>2. sync' = [sync EXCEPT ![s] = w] /\ UNCHANGED <<traded, walletFills, revision, trades, marks, synced>>
    BY <1>2 DEF Rebuild
  <2>0. w = WithMarks(WithTrades(AtStep(sync[s], "rebuilt"), TradesOf(walletFills)),
                      MarksOf(walletFills))
    BY DEF WithMarks, WithTrades, AtStep
  <2>. HIDE DEF w
  <2>1. w = SyncOf("rebuilt", sync[s].rev, TradesOf(walletFills), MarksOf(walletFills),
                   sync[s].oldTrades, sync[s].oldMarks)
    BY <1>0, <2>0, SyncFields DEF Work
  <2>3. Work(w) /\ Current(w)
    BY <1>0, <2>1, WorkIs DEF Work
  <2>. QED  BY <2>3, <2>2, SyncMoves, TablesSame DEF TradesInv, RevisionKnown
<1>3. CASE DeleteTrades(s)
  <2>. DEFINE w == [sync[s] EXCEPT !.step = "trades", !.oldTrades = trades]
  <2>2. sync' = [sync EXCEPT ![s] = w] /\ UNCHANGED <<traded, walletFills, revision, trades, marks, synced>>
    BY <1>3 DEF DeleteTrades
  <2>0. w = OverTrades(AtStep(sync[s], "trades"), trades)
    BY DEF OverTrades, AtStep
  <2>. HIDE DEF w
  <2>1. w = SyncOf("trades", sync[s].rev, sync[s].trades, sync[s].marks, trades, sync[s].oldMarks)
    BY <1>0, <2>0, SyncFields DEF Work
  <2>4. \/ sync[s].rev # revision
        \/ sync[s].trades = TradesOf(walletFills) /\ sync[s].marks = MarksOf(walletFills)
    BY <1>0, <1>3 DEF Current, DeleteTrades
  <2>3. Work(w) /\ Current(w)
    BY <1>0, <2>1, <2>4, WorkIs DEF Work
  <2>. QED  BY <2>3, <2>2, SyncMoves, TablesSame DEF TradesInv, RevisionKnown
<1>4. CASE DeleteMarks(s)
  <2>. DEFINE w == [sync[s] EXCEPT !.step = "marks", !.oldMarks = marks]
  <2>2. sync' = [sync EXCEPT ![s] = w] /\ UNCHANGED <<traded, walletFills, revision, trades, marks, synced>>
    BY <1>4 DEF DeleteMarks
  <2>0. w = OverMarks(AtStep(sync[s], "marks"), marks)
    BY DEF OverMarks, AtStep
  <2>. HIDE DEF w
  <2>1. w = SyncOf("marks", sync[s].rev, sync[s].trades, sync[s].marks, sync[s].oldTrades, marks)
    BY <1>0, <2>0, SyncFields DEF Work
  <2>4. \/ sync[s].rev # revision
        \/ sync[s].trades = TradesOf(walletFills) /\ sync[s].marks = MarksOf(walletFills)
    BY <1>0, <1>4 DEF Current, DeleteMarks
  <2>3. Work(w) /\ Current(w)
    BY <1>0, <2>1, <2>4, WorkIs DEF Work
  <2>. QED  BY <2>3, <2>2, SyncMoves, TablesSame DEF TradesInv, RevisionKnown
<1>5. CASE Commit(s)
  <2>1. sync' = [sync EXCEPT ![s] = NoSync] /\ UNCHANGED <<traded, walletFills, revision>>
        /\ sync[s].step = "marks"
    BY <1>5 DEF Commit
  <2>2. SyncsKnown'
    BY <2>1, NoSyncKnown, SyncMoves
  <2>3. CASE UNCHANGED <<trades, marks, synced>>
    BY <2>1, <2>2, <2>3, TablesSame DEF TradesInv, RevisionKnown
  <2>4. CASE /\ trades' = (trades \ sync[s].oldTrades) \cup sync[s].trades
             /\ marks' = (marks \ sync[s].oldMarks) \cup sync[s].marks
             /\ synced' = SyncedAt(s)
    <3>1. RevisionKnown'
      BY <1>0, <2>1, <2>4 DEF RevisionKnown, SyncedAt, Work
    <3>2. SyncedIsComplete'
      BY <1>0, <2>1, <2>4 DEF SyncedIsComplete, Current, SyncedAt
    <3>. QED  BY <2>2, <3>1, <3>2 DEF TradesInv
  <2>. QED  BY <1>5, <2>3, <2>4 DEF Commit
<1>6. CASE Rollback(s)
  <2>1. sync' = [sync EXCEPT ![s] = NoSync] /\ UNCHANGED <<traded, walletFills, revision, trades, marks, synced>>
    BY <1>6 DEF Rollback
  <2>. QED  BY <2>1, NoSyncKnown, SyncMoves, TablesSame DEF TradesInv, RevisionKnown
<1>. QED  BY <1>1, <1>2, <1>3, <1>4, <1>5, <1>6 DEF Synchronize

LEMMA DropKeeps ==
    ASSUME TradesInv, NEW gone, gone \subseteq walletFills, Drop(gone), UNCHANGED <<traded, sync>>
    PROVE  TradesInv'
<1>1. gone \subseteq traded
  BY DEF TradesInv, RevisionKnown
<1>2. revision' \in Nat /\ revision <= revision' /\ (gone # {} => revision < revision')
  BY <1>1, BumpedGrows DEF Drop, TradesInv
<1>3. walletFills' = walletFills \ gone /\ synced' = Missing
  BY DEF Drop
<1>4. RevisionKnown' /\ synced' # revision'
  BY <1>2, <1>3 DEF TradesInv, RevisionKnown, Missing
<1>5. SyncsKnown'
  BY <1>2, <1>3, RevisionMoves DEF TradesInv, RevisionKnown
<1>. QED  BY <1>4, <1>5 DEF TradesInv, SyncedIsComplete

LEMMA CleanUpKeeps == TradesInv /\ CleanUp => TradesInv'
<1>. SUFFICES ASSUME TradesInv, CleanUp PROVE TradesInv'
  OBVIOUS
<1>1. PICK ids : Drop({f \in walletFills : f.id \in ids})
  BY DEF CleanUp
<1>2. {f \in walletFills : f.id \in ids} \subseteq walletFills
  OBVIOUS
<1>. QED  BY <1>1, <1>2, DropKeeps DEF CleanUp

LEMMA RetainFillsKeeps == TradesInv /\ RetainFills => TradesInv'
<1>. SUFFICES ASSUME TradesInv, RetainFills PROVE TradesInv'
  OBVIOUS
<1>1. CASE UNCHANGED <<walletFills, revision, synced>>
  <2>1. SyncsKnown'
    BY <1>1, RevisionMoves DEF RetainFills, TradesInv, RevisionKnown
  <2>. QED  BY <1>1, <2>1, TablesSame DEF RetainFills, TradesInv, RevisionKnown
<1>2. ASSUME NEW cutoff, Drop({f \in walletFills : f.at < cutoff})
      PROVE  TradesInv'
  <2>1. {f \in walletFills : f.at < cutoff} \subseteq walletFills
    OBVIOUS
  <2>. QED  BY <1>2, <2>1, DropKeeps DEF RetainFills
<1>. QED  BY <1>1, <1>2 DEF RetainFills

(* Rows of a table that go take the mark of the synchronization with them. *)
LEMMA RetentionKeeps == TradesInv /\ (RetainTrades \/ RetainMarks \/ RetentionFails) => TradesInv'
<1>. SUFFICES ASSUME TradesInv, RetainTrades \/ RetainMarks \/ RetentionFails
              PROVE  TradesInv'
  OBVIOUS
<1>1. UNCHANGED <<traded, walletFills, revision, sync>>
  BY DEF RetainTrades, RetainMarks, RetentionFails
<1>2. SyncsKnown'
  BY <1>1, RevisionMoves DEF TradesInv, RevisionKnown
<1>3. synced' = Missing \/ UNCHANGED <<trades, marks, synced>>
  <2>1. CASE RetainTrades
    BY <2>1 DEF RetainTrades
  <2>2. CASE RetainMarks
    BY <2>2 DEF RetainMarks
  <2>. QED  BY <2>1, <2>2 DEF RetentionFails
<1>4. CASE synced' = Missing
  <2>1. RevisionKnown' /\ synced' # revision'
    BY <1>1, <1>4 DEF TradesInv, RevisionKnown, Missing
  <2>. QED  BY <1>2, <2>1 DEF TradesInv, SyncedIsComplete
<1>5. CASE UNCHANGED <<trades, marks, synced>>
  BY <1>1, <1>2, <1>5, TablesSame DEF TradesInv, RevisionKnown
<1>. QED  BY <1>3, <1>4, <1>5

LEMMA TradesStep == TradesInv /\ [TradesNext]_tradeVars => TradesInv'
<1>. SUFFICES ASSUME TradesInv, [TradesNext]_tradeVars PROVE TradesInv'
  OBVIOUS
<1>1. CASE UNCHANGED tradeVars
  <2>1. UNCHANGED <<traded, walletFills, revision, trades, marks, synced, sync>>
    BY <1>1 DEF tradeVars
  <2>2. SyncsKnown'
    BY <2>1, RevisionMoves DEF TradesInv, RevisionKnown
  <2>. QED  BY <2>1, <2>2, TablesSame DEF TradesInv, RevisionKnown
<1>2. CASE TradesNext
  BY <1>2, TradeKeeps, ImportKeeps, SynchronizeKeeps, CleanUpKeeps, RetainFillsKeeps, RetentionKeeps
     DEF TradesNext
<1>. QED  BY <1>1, <1>2

(* A wallet that counts as synchronized has every trade and every ignored  *)
(* fill its stored fills lead to, whatever synchronizations and cleanups   *)
(* overlapped (sync_materialized_source_trades).                           *)
THEOREM SyncedHasAll == TradesSpec => []SyncedIsComplete
<1>1. TradesInit => TradesInv
  BY TradesStart
<1>2. TradesInv /\ [TradesNext]_tradeVars => TradesInv'
  BY TradesStep
<1>3. TradesInv => SyncedIsComplete
  BY DEF TradesInv
<1>. QED  BY <1>1, <1>2, <1>3, PTL DEF TradesSpec
-----------------------------------------------------------------------------
(***************************************************************************)
(* The trades that are reconstructed are whole, for any fills: a closed    *)
(* trade has closed all that it entered, an open one less than that, and   *)
(* no two of them share a key.                                             *)
(*                                                                         *)
(* A trade is removed from its side the moment nothing is left of it, with *)
(* the number of the trades closed by then in its key, and what is open at *)
(* the end is numbered after all of them.                                  *)
(***************************************************************************)
OpenTrades == {t \in [opened : Nat, entry : Nat \ {0}, closed : Nat] : t.closed < t.entry}
TradeRows ==
    {t \in [key : Sides \X Nat \X Nat \X Nat, status : {"open", "closed"}, at : Nat,
            entry : Nat \ {0}, closed : Nat] :
       IF t.status = "closed" THEN t.closed = t.entry ELSE t.closed < t.entry}
MarkRows == [id : Nat, at : Nat, reason : {"preexisting_open", "unmatched_close"}]

OneKeyEach(rows) == \A t, u \in rows : t.key = u.key => t = u
Numbered(rows) ==
    /\ IsFiniteSet(rows) /\ OneKeyEach(rows)
    /\ \A t \in rows : t.key[4] <= Cardinality(rows)

Results ==
    {r \in [open : [Sides -> OpenTrades \cup {NoTrade}], done : SUBSET TradeRows,
            ignored : SUBSET MarkRows] : Numbered(r.done)}

LEMMA FillIs ==
    ASSUME NEW f \in Fills
    PROVE  /\ f.at \in Nat /\ f.id \in Nat /\ f.size \in Int /\ f.start \in Int
           /\ Magnitude(f.size) \in Nat \ {0} /\ Magnitude(f.start) \in Nat
  <1>1. /\ f.at \in 1..MaxTraded /\ f.id \in 1..MaxTraded /\ f.size \in Sizes /\ f.start \in Int
        /\ MaxTraded \in Nat /\ f.size \in Int \ {0}
    BY TradesAssumption DEF Fills, TradesAssumption
  <1> QED BY <1>1 DEF Magnitude

LEMMA IgnoreKeeps ==
    ASSUME NEW r \in Results, NEW f \in Fills,
           NEW reason \in {"preexisting_open", "unmatched_close"}
    PROVE  Ignore(r, f, reason) \in Results /\ Ignore(r, f, reason).open = r.open
  <1>1. [id |-> f.id, at |-> f.at, reason |-> reason] \in MarkRows
    BY FillIs DEF MarkRows
  <1> QED BY <1>1 DEF Results, Ignore

LEMMA OpenKeeps ==
    ASSUME NEW r \in Results, NEW f \in Fills, NEW size \in Nat \ {0}, NEW start \in Int,
           NEW side \in Sides
    PROVE  ApplyOpen(r, f, size, start, side) \in Results
  <1>1. CASE ~IsOpen(r, side) /\ Held(start, side)
    BY <1>1, IgnoreKeeps DEF ApplyOpen
  <1>2. CASE ~(~IsOpen(r, side) /\ Held(start, side))
    <2> DEFINE t == r.open[side]
               more == AddEntry(t, f.at, size)
    <2>1. t \in OpenTrades \cup {NoTrade}
      BY DEF Results
    <2>2. more \in OpenTrades
      <3> HIDE DEF t
      <3>1. /\ t \in [opened : Nat, entry : Nat, closed : Nat]
            /\ t.closed <= t.entry
        BY <2>1 DEF NoTrade, OpenTrades
      <3> DEFINE at == IF t = NoTrade THEN f.at ELSE t.opened
      <3>2. more = [t EXCEPT !.opened = at, !.entry = t.entry + size]
        BY DEF AddEntry
      <3>3. at \in Nat /\ t.entry + size \in Nat \ {0} /\ t.closed < t.entry + size
        BY <3>1, FillIs
      <3> HIDE DEF more, at
      <3>4. /\ more \in [opened : Nat, entry : Nat \ {0}, closed : Nat]
            /\ more.entry = t.entry + size /\ more.closed = t.closed
        BY <3>1, <3>2, <3>3
      <3> QED BY <3>3, <3>4 DEF OpenTrades
    <2>3. ApplyOpen(r, f, size, start, side) = [r EXCEPT !.open[side] = more]
      BY <1>2 DEF ApplyOpen
    <2> HIDE DEF more
    <2> QED BY <2>2, <2>3 DEF Results
  <1> QED BY <1>1, <1>2

(* A trade that is closed takes the next number.                           *)
LEMMA RecordKeeps ==
    ASSUME NEW r \in Results, NEW side \in Sides, NEW at \in Nat,
           NEW t \in [opened : Nat, entry : Nat \ {0}, closed : Nat], t.closed = t.entry
    PROVE  RecordClosed(r, side, t, at) \in Results
  <1> DEFINE n == Cardinality(r.done) + 1
             row1 == Row(side, t, "closed", at, n)
             done == r.done \cup {row1}
  <1>1. r.done \in SUBSET TradeRows /\ Numbered(r.done)
    BY DEF Results
  <1>2. Cardinality(r.done) \in Nat /\ n \in Nat
    BY <1>1, FS_CardinalityType DEF Numbered
  <1>3. row1 \in TradeRows /\ row1.key = <<side, t.opened, at, n>>
    <2> HIDE DEF n
    <2> QED BY <1>2 DEF Row, TradeRows
  <1>4. \A u \in r.done : u.key[4] \in Nat /\ u.key[4] < n
    BY <1>1, <1>2 DEF Numbered, TradeRows
  <1>5. row1.key[4] = n
    BY <1>3
  <1>6. row1 \notin r.done
    BY <1>2, <1>4, <1>5
  <1> HIDE DEF row1
  <1>7. IsFiniteSet(done) /\ Cardinality(done) = n
    BY <1>1, <1>6, FS_AddElement DEF Numbered
  <1>8. OneKeyEach(done)
    <2> SUFFICES ASSUME NEW a \in done, NEW b \in done, a.key = b.key PROVE a = b
      BY DEF OneKeyEach
    <2>1. CASE a \in r.done /\ b \in r.done
      BY <1>1, <2>1 DEF Numbered, OneKeyEach
    <2>2. a.key[4] = b.key[4]
      OBVIOUS
    <2> QED BY <1>2, <1>4, <1>5, <2>1, <2>2
  <1>9. \A u \in done : u.key[4] <= Cardinality(done)
    <2> HIDE DEF n
    <2>1. ASSUME NEW u \in done PROVE u.key[4] <= n
      BY <1>2, <1>4, <1>5, <2>1
    <2> QED BY <1>7, <2>1
  <1>10. Numbered(done) /\ done \in SUBSET TradeRows
    BY <1>1, <1>3, <1>7, <1>8, <1>9 DEF Numbered
  <1>11. RecordClosed(r, side, t, at) = [r EXCEPT !.open[side] = NoTrade, !.done = done]
    BY DEF RecordClosed, row1
  <1> HIDE DEF done
  <1> QED BY <1>10, <1>11 DEF Results

LEMMA CloseKeeps ==
    ASSUME NEW r \in Results, NEW f \in Fills, NEW size \in Nat \ {0}, NEW side \in Sides
    PROVE  ApplyClose(r, f, size, side) \in Results
  <1> DEFINE t == r.open[side]
             after == AddClose(t, size)
             noted == IF after.closed - t.closed < size THEN Ignore(r, f, "unmatched_close") ELSE r
  <1>1. noted \in Results /\ noted.open = r.open
    BY IgnoreKeeps
  <1>2. t \in OpenTrades \cup {NoTrade} /\ (IsOpen(r, side) => t \in OpenTrades)
    BY DEF Results, IsOpen
  <1>3. ApplyClose(r, f, size, side) =
          IF ~IsOpen(r, side) THEN noted
          ELSE IF IsClosed(after) THEN RecordClosed(noted, side, after, f.at)
          ELSE [noted EXCEPT !.open[side] = after]
    BY DEF ApplyClose
  <1> HIDE DEF noted
  <1>4. CASE ~IsOpen(r, side)
    BY <1>1, <1>3, <1>4
  <1>5. CASE IsOpen(r, side)
    <2>1. /\ after \in [opened : Nat, entry : Nat \ {0}, closed : Nat]
          /\ after.closed <= after.entry
      <3> HIDE DEF t
      <3> QED BY <1>2, <1>5 DEF OpenTrades, AddClose, Smaller
    <2> HIDE DEF after, t
    <2>2. CASE IsClosed(after)
      <3>1. RecordClosed(noted, side, after, f.at) \in Results
        BY <1>1, <2>1, <2>2, RecordKeeps, FillIs DEF IsClosed
      <3> QED BY <1>3, <1>5, <2>2, <3>1
    <2>3. CASE ~IsClosed(after)
      <3>1. after \in OpenTrades
        BY <2>1, <2>3 DEF IsClosed, OpenTrades
      <3>2. [noted EXCEPT !.open[side] = after] \in Results
        BY <1>1, <3>1 DEF Results
      <3> QED BY <1>3, <1>5, <2>3, <3>2
    <2> QED BY <2>2, <2>3
  <1> QED BY <1>4, <1>5

LEMMA ResultKeeps ==
    ASSUME NEW r \in Results, NEW f \in Fills
    PROVE  ApplyFill(r, f) \in Results
  <1> DEFINE size == Magnitude(f.size)
             to == IF f.size > 0 THEN "long" ELSE "short"
             from == IF f.size > 0 THEN "short" ELSE "long"
  <1>1. size \in Nat \ {0} /\ f.start \in Int /\ Magnitude(f.start) \in Nat
        /\ to \in Sides /\ from \in Sides
    BY FillIs DEF Sides
  <1>2. ApplyFill(r, f) =
          IF ~Held(f.start, from) THEN ApplyOpen(r, f, size, f.start, to)
          ELSE IF size <= Magnitude(f.start) THEN ApplyClose(r, f, size, from)
          ELSE ApplyFlip(r, f, size, f.start, from, to)
    BY DEF ApplyFill
  <1> HIDE DEF size, to, from
  <1>3. ApplyFlip(r, f, size, f.start, from, to) \in Results
    <2> DEFINE part == FlipClose(size, f.start, from)
               left == IF part > 0 THEN ApplyClose(r, f, part, from) ELSE r
    <2>1. part \in Nat /\ part <= size
      BY <1>1 DEF FlipClose, Smaller
    <2>2. ApplyFlip(r, f, size, f.start, from, to) =
            IF size > part THEN ApplyOpen(left, f, size - part, 0, to) ELSE left
      BY DEF ApplyFlip
    <2> HIDE DEF part
    <2>3. left \in Results
      BY <1>1, <2>1, CloseKeeps
    <2> HIDE DEF left
    <2>4. size > part => size - part \in Nat \ {0}
      BY <1>1, <2>1
    <2> QED BY <1>1, <2>2, <2>3, <2>4, OpenKeeps
  <1> QED BY <1>1, <1>2, <1>3, OpenKeeps, CloseKeeps

(* A finite set that an order ranks has a last member.                     *)
Ranks(R, S) ==
    /\ \A a \in S : <<a, a>> \notin R
    /\ \A a, b \in S : a # b => <<a, b>> \in R \/ <<b, a>> \in R
    /\ \A a, b, c \in S : <<a, b>> \in R /\ <<b, c>> \in R => <<a, c>> \in R

IsLast(m, S, R) == m \in S /\ \A x \in S : x # m => <<x, m>> \in R

LEMMA HasLast ==
    ASSUME NEW S, IsFiniteSet(S), S # {}, NEW R, Ranks(R, S)
    PROVE  \E m : IsLast(m, S, R)
<1>. DEFINE B == {T \in SUBSET S : T # {} /\ ~\E m : IsLast(m, T, R)}
<1>. SUFFICES ASSUME S \in B PROVE FALSE
  OBVIOUS
<1>1. \E T \in B : \A U \in B : ~(U \subseteq T /\ U # T)
  <2>1. B \subseteq SUBSET S /\ B # {}
    OBVIOUS
  <2>. HIDE DEF B
  <2>. QED  BY <2>1, SmallestSubset
<1>2. PICK T \in B : \A U \in B : ~(U \subseteq T /\ U # T)
  BY <1>1
<1>3. PICK x : x \in T
  OBVIOUS
<1>4. CASE T \ {x} = {}
  <2>1. IsLast(x, T, R)
    BY <1>3, <1>4 DEF IsLast
  <2>. QED  BY <2>1
<1>5. CASE T \ {x} # {}
  <2>1. T \ {x} \in SUBSET S /\ T \ {x} \subseteq T /\ T \ {x} # T
    BY <1>3
  <2>2. PICK m : IsLast(m, T \ {x}, R)
    BY <1>2, <1>5, <2>1
  <2>3. m \in S /\ x \in S /\ m # x /\ m \in T
    BY <1>3, <2>2 DEF IsLast
  <2>4. CASE <<x, m>> \in R
    <3>1. IsLast(m, T, R)
      BY <2>2, <2>3, <2>4 DEF IsLast
    <3>. QED  BY <3>1
  <2>5. CASE <<m, x>> \in R
    <3>1. ASSUME NEW y \in T, y # x PROVE <<y, x>> \in R
      BY <2>2, <2>3, <2>5, <3>1 DEF IsLast, Ranks
    <3>2. IsLast(x, T, R)
      BY <1>3, <3>1 DEF IsLast
    <3>. QED  BY <3>2
  <2>. QED  BY <2>3, <2>4, <2>5 DEF Ranks
<1>. QED  BY <1>4, <1>5

OneIdEach(S) == \A f, g \in S : f.id = g.id => f = g

LEMMA LatestIn ==
    ASSUME NEW S, IsFiniteSet(S), S \subseteq Fills, OneIdEach(S), S # {}
    PROVE  Latest(S) \in S
  <1> DEFINE R == {p \in S \X S : Before(p[1], p[2])}
  <1>1. \A f \in S : f.at \in Nat /\ f.id \in Nat
    BY FillIs
  <1>2. \A f, g \in S : <<f, g>> \in R <=> Before(f, g)
    OBVIOUS
  <1> HIDE DEF R
  <1>3. Ranks(R, S)
    <2>1. \A f \in S : ~Before(f, f)
      BY <1>1 DEF Before
    <2>2. \A f, g \in S : f # g => Before(f, g) \/ Before(g, f)
      BY <1>1 DEF Before, OneIdEach
    <2>3. \A f, g, h \in S : Before(f, g) /\ Before(g, h) => Before(f, h)
      BY <1>1 DEF Before
    <2> QED BY <1>2, <2>1, <2>2, <2>3 DEF Ranks
  <1>4. PICK m : IsLast(m, S, R)
    BY <1>3, HasLast
  <1>5. m \in S /\ \A g \in S : g = m \/ Before(g, m)
    BY <1>2, <1>4 DEF IsLast
  <1> QED BY <1>5 DEF Latest

LEMMA Rebuilt ==
    ASSUME NEW D, IsFiniteSet(D), D \subseteq Fills, OneIdEach(D)
    PROVE  Reconstruct(D) \in Results
  <1> DEFINE pick == [S \in SUBSET D |-> Latest(S)]
             step == [r \in Results |-> [f \in D |-> ApplyFill(r, f)]]
             rec(g) == [S \in SUBSET D |-> IF S = {} THEN Nothing
                                           ELSE ApplyFill(g[S \ {Latest(S)}], Latest(S))]
             s == CHOOSE g : g = rec(g)
  <1>1. Nothing \in Results
    <2>1. Numbered({})
      BY FS_EmptySet DEF Numbered, OneKeyEach
    <2> QED BY <2>1 DEF Nothing, Results
  <1>2. \A S \in SUBSET D : pick[S] = Latest(S) /\ (S # {} => Latest(S) \in S)
    BY LatestIn, FS_Subset DEF OneIdEach
  <1>3. Picks(pick, D)
    BY <1>2 DEF Picks
  <1>4. step \in FoldMaps(D, Results)
    BY ResultKeeps DEF FoldMaps
  <1>5. \A r \in Results, f \in D : step[r][f] = ApplyFill(r, f) /\ ApplyFill(r, f) \in Results
    BY ResultKeeps
  <1> HIDE DEF pick, step
  <1>6. PICK g \in FoldsOf(D, Results, Nothing, step, pick) : TRUE
    BY <1>1, <1>3, <1>4, FoldExists
  <1>7. g = rec(g)
    <2>1. g \in [SUBSET D -> Results]
      BY DEF FoldsOf
    <2>2. ASSUME NEW S \in SUBSET D
          PROVE  g[S] = IF S = {} THEN Nothing ELSE ApplyFill(g[S \ {Latest(S)}], Latest(S))
      <3>1. CASE S = {}
        BY <3>1 DEF FoldsOf
      <3>2. CASE S # {}
        <4>1. g[S] = step[g[S \ {pick[S]}]][pick[S]]
          BY <3>2 DEF FoldsOf
        <4>2. Latest(S) \in D /\ pick[S] = Latest(S) /\ g[S \ {Latest(S)}] \in Results
          BY <1>2, <2>1, <3>2
        <4> QED BY <1>5, <3>2, <4>1, <4>2
      <3> QED BY <3>1, <3>2
    <2> QED BY <2>1, <2>2
  <1>8. s = rec(s)
    BY <1>7
  <1>9. Reconstruct(D) = s[D]
    BY DEF Reconstruct, MapThenFoldSet
  <1> HIDE DEF s
  <1>10. s[{}] \in Results
    <2>1. {} \in SUBSET D
      OBVIOUS
    <2>2. rec(s)[{}] = Nothing
      BY <2>1
    <2> HIDE DEF rec
    <2>3. s[{}] = rec(s)[{}]
      BY <1>8, Zenon
    <2> QED BY <1>1, <2>2, <2>3
  <1>11. ASSUME NEW S \in SUBSET D, S # {}, s[S \ {pick[S]}] \in Results
         PROVE  s[S] \in Results
    <2>1. s[S] = ApplyFill(s[S \ {Latest(S)}], Latest(S))
      BY <1>8, <1>11
    <2>2. Latest(S) \in D /\ s[S \ {Latest(S)}] \in Results
      BY <1>2, <1>11
    <2>3. ApplyFill(s[S \ {Latest(S)}], Latest(S)) \in Results
      BY <2>2, ResultKeeps
    <2> QED BY <2>1, <2>3
  <1>12. \A S \in SUBSET D : s[S] \in Results
    BY <1>3, <1>10, <1>11, FoldStays
  <1> QED BY <1>9, <1>12

(* What is still open is numbered after all that was closed.               *)
LEMMA PlaceIs ==
    ASSUME NEW r \in Results, NEW side \in OpenSides(r)
    PROVE  Place(r, side) \in Nat \ {0}
  <1> DEFINE P == {s \in OpenSides(r) :
                     \/ s = side \/ r.open[s].opened < r.open[side].opened
                     \/ (r.open[s].opened = r.open[side].opened /\ s = "long")}
  <1>1. Place(r, side) = Cardinality(P)
    BY DEF Place
  <1>2. IsFiniteSet(Sides)
    <2>1. IsFiniteSet({"long"}) /\ IsFiniteSet({"short"}) /\ Sides = {"long"} \cup {"short"}
      BY FS_Singleton DEF Sides
    <2> QED BY <2>1, FS_Union
  <1>3. P \subseteq Sides /\ side \in P
    BY DEF OpenSides
  <1> HIDE DEF P
  <1>4. IsFiniteSet(P) /\ Cardinality(P) \in Nat /\ Cardinality(P) # 0
    BY <1>2, <1>3, FS_Subset, FS_CardinalityType, FS_EmptySet
  <1> QED BY <1>1, <1>4

LEMMA TradesSound ==
    ASSUME NEW D, IsFiniteSet(D), D \subseteq Fills, OneIdEach(D)
    PROVE  /\ TradesOf(D) \subseteq TradeRows /\ OneKeyEach(TradesOf(D))
           /\ MarksOf(D) \subseteq MarkRows
  <1> DEFINE r == Reconstruct(D)
             n == Cardinality(r.done)
             row1(side) == Row(side, r.open[side], "open", 0, n + Place(r, side))
             rest == {row1(side) : side \in OpenSides(r)}
  <1>1. r \in Results
    BY Rebuilt
  <1>2. TradesOf(D) = r.done \cup rest /\ MarksOf(D) = r.ignored
    BY DEF TradesOf, MarksOf, WithOpen
  <1> HIDE DEF r
  <1>3. r.done \subseteq TradeRows /\ Numbered(r.done) /\ n \in Nat /\ r.ignored \subseteq MarkRows
    BY <1>1, FS_CardinalityType DEF Results, Numbered
  <1> HIDE DEF n
  <1>4. ASSUME NEW side \in OpenSides(r)
        PROVE  /\ row1(side) \in TradeRows /\ row1(side).key[1] = side
               /\ row1(side).key[4] \in Nat /\ row1(side).key[4] > n
    <2>1. side \in Sides /\ r.open[side] \in OpenTrades
      BY <1>1 DEF OpenSides, IsOpen, Results
    <2>2. n + Place(r, side) \in Nat /\ n + Place(r, side) > n
      BY <1>1, <1>3, PlaceIs
    <2> DEFINE place == n + Place(r, side)
               t == r.open[side]
    <2>3. row1(side) = [key |-> <<side, t.opened, 0, place>>, status |-> "open", at |-> 0,
                        entry |-> t.entry, closed |-> t.closed]
      BY DEF Row
    <2>4. t.opened \in Nat /\ t.entry \in Nat \ {0} /\ t.closed \in Nat /\ t.closed < t.entry
      BY <2>1 DEF OpenTrades
    <2>5. <<side, t.opened, 0, place>> \in Sides \X Nat \X Nat \X Nat
      BY <2>1, <2>2, <2>4
    <2> HIDE DEF row1, t, place
    <2>6. row1(side) \in TradeRows
      BY <2>3, <2>4, <2>5 DEF TradeRows
    <2>7. row1(side).key = <<side, t.opened, 0, place>>
      BY <2>3
    <2> QED BY <2>2, <2>6, <2>7 DEF place
  <1>5. \A t \in r.done : t.key[4] \in Nat /\ t.key[4] <= n
    BY <1>3 DEF Numbered, TradeRows, n
  <1>6. rest \subseteq TradeRows
    BY <1>4
  <1>7. \A t, u \in rest : t.key = u.key => t = u
    BY <1>4
  <1>8. \A t \in r.done, u \in rest : t.key # u.key
    <2> SUFFICES ASSUME NEW t \in r.done, NEW u \in rest PROVE t.key[4] # u.key[4]
      OBVIOUS
    <2>1. u.key[4] \in Nat /\ u.key[4] > n
      BY <1>4
    <2> QED BY <1>3, <1>5, <2>1
  <1> HIDE DEF rest
  <1>9. OneKeyEach(TradesOf(D))
    BY <1>2, <1>3, <1>7, <1>8 DEF OneKeyEach, Numbered
  <1> QED BY <1>2, <1>3, <1>6, <1>9
----------------------------------------------------------------------------
(* Sizes of whole lots make positions of whole lots.                       *)
LEMMA PositionIs ==
    ASSUME IsFiniteSet(traded), traded \subseteq Fills
    PROVE  Position \in Int
  <1> DEFINE D == traded
             f == [x \in D |-> x.size]
             rec(g) == [S \in SUBSET D |-> IF S = {} THEN 0 ELSE Pick(S).size + g[S \ {Pick(S)}]]
             s == CHOOSE g : g = rec(g)
  <1>1. \A x \in D : f[x] \in Int /\ f[x] = x.size
    BY FillIs
  <1>2. \A S \in SUBSET D : S # {} => f[Pick(S)] = Pick(S).size
    <2>1. \A S \in SUBSET D : S # {} => Pick(S) \in D
      BY DEF Pick
    <2> QED BY <1>1, <2>1
  <1> HIDE DEF f
  <1>3. PICK g \in Sums(f, D) : TRUE
    BY <1>1, SumExists
  <1>4. g = rec(g)
    <2>1. g \in [SUBSET D -> Int]
      BY DEF Sums
    <2>2. \A S \in SUBSET D : g[S] = IF S = {} THEN 0 ELSE Pick(S).size + g[S \ {Pick(S)}]
      BY <1>2 DEF Sums
    <2> QED BY <2>1, <2>2
  <1>5. s = rec(s)
    BY <1>4
  <1>6. Position = s[D]
    BY DEF Position, MapThenSumSet, MapThenFoldSet, Pick
  <1> HIDE DEF s
  <1>7. s = [S \in SUBSET D |-> IF S = {} THEN 0 ELSE f[Pick(S)] + s[S \ {Pick(S)}]]
    <2>1. \A S \in SUBSET D : (IF S = {} THEN 0 ELSE Pick(S).size + s[S \ {Pick(S)}])
                              = (IF S = {} THEN 0 ELSE f[Pick(S)] + s[S \ {Pick(S)}])
      BY <1>2
    <2> QED BY <1>5, <2>1
  <1>8. s \in Sums(f, D)
    BY <1>1, <1>7, ChosenIsSum
  <1> QED BY <1>6, <1>8 DEF Sums
----------------------------------------------------------------------------
(* What every synchronization carries, and the tables, keep their types    *)
(* and have one row for a key.                                             *)
Revisions == {Missing} \cup 0..MaxRevision
RowsSound(rows) == rows \subseteq TradeRows /\ OneKeyEach(rows)
Carries(w) ==
    /\ w.step \in {"idle", "found", "rebuilt", "trades", "marks"} /\ w.rev \in Revisions
    /\ RowsSound(w.trades) /\ w.marks \subseteq MarkRows

TradedKnown == traded \subseteq Fills /\ OneIdEach(traded)
TablesTyped ==
    /\ RowsSound(trades) /\ marks \subseteq MarkRows
    /\ revision \in 0..MaxRevision /\ synced \in Revisions
    /\ sweep \in [step : {"none", "trades", "marks"}, cutoff : 0..MaxTraded]
SyncsTyped == \A s \in Syncs : Carries(sync[s])

TypedInv == TradesInv /\ TradedKnown /\ TablesTyped /\ SyncsTyped

LEMMA NothingCarried == Carries(NoSync) /\ NoSync.trades = {} /\ RowsSound({})
  BY DEF Carries, NoSync, Revisions, RowsSound, OneKeyEach

LEMMA SweepKinds ==
    /\ NoSweep \in [step : {"none", "trades", "marks"}, cutoff : 0..MaxTraded]
    /\ \A n \in 0..MaxTraded : [step |-> "trades", cutoff |-> n]
                               \in [step : {"none", "trades", "marks"}, cutoff : 0..MaxTraded]
  BY TradesAssumption DEF NoSweep, TradesAssumption

LEMMA TypedStarts == TradesInit => TypedInv
  <1> SUFFICES ASSUME TradesInit PROVE TypedInv
    OBVIOUS
  <1>1. TradedKnown
    BY DEF TradesInit, TradedKnown, OneIdEach
  <1>2. TablesTyped
    BY NothingCarried, SweepKinds, TradesAssumption
       DEF TradesInit, TablesTyped, Revisions, TradesAssumption
  <1>3. SyncsTyped
    BY NothingCarried DEF TradesInit, SyncsTyped
  <1> QED BY <1>1, <1>2, <1>3, TradesStart DEF TypedInv

LEMMA StoredFills ==
    ASSUME TypedInv
    PROVE  RowsSound(TradesOf(walletFills)) /\ MarksOf(walletFills) \subseteq MarkRows
  <1>1. IsFiniteSet(walletFills) /\ walletFills \subseteq Fills /\ OneIdEach(walletFills)
    BY FS_Subset DEF TypedInv, TradesInv, RevisionKnown, TradedKnown, OneIdEach
  <1> QED BY <1>1, TradesSound DEF RowsSound

LEMMA TradeTyped ==
    ASSUME TypedInv, Trade
    PROVE  TradedKnown' /\ TablesTyped' /\ SyncsTyped'
  <1>1. PICK q \in Sizes, at \in 1..MaxTraded, id \in 1..MaxTraded \ {f.id : f \in traded} :
            traded' = traded \cup {[at |-> at, id |-> id, size |-> q, start |-> Position]}
    BY DEF Trade
  <1> DEFINE f == [at |-> at, id |-> id, size |-> q, start |-> Position]
  <1>2. Position \in Int
    BY PositionIs DEF TypedInv, TradesInv, RevisionKnown, TradedKnown
  <1>3. f \in Fills /\ f.id = id
    BY <1>2 DEF Fills
  <1> HIDE DEF f
  <1>4. TradedKnown'
    <2>1. \A g \in traded : g.id # f.id
      BY <1>3
    <2> QED BY <1>1, <1>3, <2>1 DEF TypedInv, TradedKnown, OneIdEach, f
  <1> QED BY <1>4 DEF TypedInv, Trade, TablesTyped, SyncsTyped

LEMMA BumpedTyped ==
    ASSUME TypedInv, NEW changed, changed \subseteq traded, Bumped(changed) <= MaxRevision
    PROVE  Bumped(changed) \in 0..MaxRevision
  BY BumpedGrows, TradesAssumption DEF TypedInv, TradesInv, TradesAssumption

LEMMA ArrivalTyped ==
    ASSUME TypedInv, Import
    PROVE  TradedKnown' /\ TablesTyped' /\ SyncsTyped'
  <1>1. revision' \in 0..MaxRevision
    BY BumpedTyped DEF Import
  <1> QED BY <1>1 DEF TypedInv, Import, TradedKnown, TablesTyped, SyncsTyped

LEMMA CarriedMoves ==
    ASSUME TypedInv, NEW s \in Syncs, NEW w, sync' = [sync EXCEPT ![s] = w], Carries(w)
    PROVE  SyncsTyped'
  <1>1. \A o \in Syncs : sync'[o] = IF o = s THEN w ELSE sync[o]
    BY DEF TypedInv, TradesInv, SyncsKnown
  <1>2. \A o \in Syncs : Carries(sync'[o])
    BY <1>1 DEF TypedInv, SyncsTyped
  <1> QED BY <1>2 DEF SyncsTyped

LEMMA CarriesIs ==
    ASSUME NEW st \in {"idle", "found", "rebuilt", "trades", "marks"}, NEW rv \in Revisions,
           NEW t, RowsSound(t), NEW m, m \subseteq MarkRows, NEW ot, NEW om
    PROVE  Carries(SyncOf(st, rv, t, m, ot, om))
  BY DEF SyncOf, Carries

LEMMA SynchronizeTyped ==
    ASSUME TypedInv, NEW s \in Syncs, Synchronize(s)
    PROVE  TradedKnown' /\ TablesTyped' /\ SyncsTyped'
  <1>0. Work(sync[s]) /\ Carries(sync[s]) /\ TablesTyped /\ TradedKnown
    BY SyncTyped DEF TypedInv, SyncsTyped
  <1>1. ASSUME UNCHANGED <<traded, walletFills, revision, trades, marks, synced, sweep>>
        PROVE  TradedKnown' /\ TablesTyped'
    BY <1>1, <1>0 DEF TradedKnown, TablesTyped
  <1>2. CASE Find(s)
    <2> DEFINE w == [NoSync EXCEPT !.step = "found", !.rev = revision]
    <2>1. w = AtRevision(AtStep(NoSync, "found"), revision)
          /\ NoSync = SyncOf("idle", Missing, {}, {}, {}, {})
      BY DEF AtRevision, AtStep, NoSync, SyncOf
    <2>2. sync' = [sync EXCEPT ![s] = w]
      BY <1>2 DEF Find
    <2> HIDE DEF w
    <2>3. w = SyncOf("found", revision, {}, {}, {}, {})
      BY <2>1, SyncFields
    <2>4. revision \in Revisions
      BY <1>0 DEF TablesTyped, Revisions
    <2>5. Carries(w)
      BY <2>3, <2>4, NothingCarried, CarriesIs
    <2>6. SyncsTyped'
      BY <2>2, <2>5, CarriedMoves
    <2> QED BY <1>1, <1>2, <2>6 DEF Find
  <1>3. CASE Rebuild(s)
    <2> DEFINE w == [sync[s] EXCEPT !.step = "rebuilt", !.trades = TradesOf(walletFills),
                                    !.marks = MarksOf(walletFills)]
    <2>1. w = WithMarks(WithTrades(AtStep(sync[s], "rebuilt"), TradesOf(walletFills)),
                        MarksOf(walletFills))
      BY DEF WithMarks, WithTrades, AtStep
    <2>2. sync' = [sync EXCEPT ![s] = w]
      BY <1>3 DEF Rebuild
    <2> HIDE DEF w
    <2>3. w = SyncOf("rebuilt", sync[s].rev, TradesOf(walletFills), MarksOf(walletFills),
                     sync[s].oldTrades, sync[s].oldMarks)
      BY <1>0, <2>1, SyncFields DEF Work
    <2>4. Carries(w)
      BY <1>0, <2>3, StoredFills, CarriesIs DEF Carries
    <2>5. SyncsTyped'
      BY <2>2, <2>4, CarriedMoves
    <2> QED BY <1>1, <1>3, <2>5 DEF Rebuild
  <1>4. CASE DeleteTrades(s)
    <2> DEFINE w == [sync[s] EXCEPT !.step = "trades", !.oldTrades = trades]
    <2>1. w = OverTrades(AtStep(sync[s], "trades"), trades)
      BY DEF OverTrades, AtStep
    <2>2. sync' = [sync EXCEPT ![s] = w]
      BY <1>4 DEF DeleteTrades
    <2> HIDE DEF w
    <2>3. w = SyncOf("trades", sync[s].rev, sync[s].trades, sync[s].marks, trades,
                     sync[s].oldMarks)
      BY <1>0, <2>1, SyncFields DEF Work
    <2>4. Carries(w)
      BY <1>0, <2>3, CarriesIs DEF Carries
    <2>5. SyncsTyped'
      BY <2>2, <2>4, CarriedMoves
    <2> QED BY <1>1, <1>4, <2>5 DEF DeleteTrades
  <1>5. CASE DeleteMarks(s)
    <2> DEFINE w == [sync[s] EXCEPT !.step = "marks", !.oldMarks = marks]
    <2>1. w = OverMarks(AtStep(sync[s], "marks"), marks)
      BY DEF OverMarks, AtStep
    <2>2. sync' = [sync EXCEPT ![s] = w]
      BY <1>5 DEF DeleteMarks
    <2> HIDE DEF w
    <2>3. w = SyncOf("marks", sync[s].rev, sync[s].trades, sync[s].marks, sync[s].oldTrades,
                     marks)
      BY <1>0, <2>1, SyncFields DEF Work
    <2>4. Carries(w)
      BY <1>0, <2>3, CarriesIs DEF Carries
    <2>5. SyncsTyped'
      BY <2>2, <2>4, CarriedMoves
    <2> QED BY <1>1, <1>5, <2>5 DEF DeleteMarks
  <1>6. CASE Commit(s)
    <2>1. sync' = [sync EXCEPT ![s] = NoSync] /\ UNCHANGED <<traded, walletFills, revision, sweep>>
      BY <1>6 DEF Commit
    <2>2. SyncsTyped'
      BY <2>1, NothingCarried, CarriedMoves
    <2>3. CASE UNCHANGED <<trades, marks, synced>>
      BY <1>1, <2>1, <2>2, <2>3
    <2>4. CASE /\ Keys(trades \ sync[s].oldTrades) \cap Keys(sync[s].trades) = {}
               /\ trades' = (trades \ sync[s].oldTrades) \cup sync[s].trades
               /\ marks' = (marks \ sync[s].oldMarks) \cup sync[s].marks
               /\ synced' = SyncedAt(s)
      <3>1. RowsSound(trades) /\ RowsSound(sync[s].trades)
        BY <1>0 DEF TablesTyped, Carries
      <3>2. \A t \in trades \ sync[s].oldTrades, u \in sync[s].trades : t.key # u.key
        BY <2>4 DEF Keys
      <3>3. RowsSound(trades')
        BY <2>4, <3>1, <3>2 DEF RowsSound, OneKeyEach
      <3>4. marks' \subseteq MarkRows /\ synced' \in Revisions
        BY <1>0, <2>4 DEF TablesTyped, Carries, SyncedAt
      <3> QED BY <1>0, <2>1, <2>2, <3>3, <3>4 DEF TradedKnown, TablesTyped
    <2> QED BY <1>6, <2>3, <2>4 DEF Commit
  <1>7. CASE Rollback(s)
    <2>1. SyncsTyped'
      BY <1>7, NothingCarried, CarriedMoves DEF Rollback
    <2> QED BY <1>1, <1>7, <2>1 DEF Rollback
  <1> QED BY <1>2, <1>3, <1>4, <1>5, <1>6, <1>7 DEF Synchronize

LEMMA RowsLess ==
    ASSUME NEW rows, RowsSound(rows), NEW fewer, fewer \subseteq rows
    PROVE  RowsSound(fewer)
  BY DEF RowsSound, OneKeyEach

LEMMA DropTyped ==
    ASSUME TypedInv, NEW gone, gone \subseteq walletFills, Drop(gone)
    PROVE  revision' \in 0..MaxRevision /\ synced' \in Revisions
  <1>1. gone \subseteq traded
    BY DEF TypedInv, TradesInv, RevisionKnown
  <1> QED BY <1>1, BumpedTyped DEF Drop, Revisions

LEMMA CleanUpTyped ==
    ASSUME TypedInv, CleanUp \/ RetainFills \/ RetainTrades \/ RetainMarks \/ RetentionFails
    PROVE  TradedKnown' /\ TablesTyped' /\ SyncsTyped'
  <1>0. TradedKnown /\ TablesTyped /\ SyncsTyped
    BY DEF TypedInv
  <1>1. UNCHANGED <<traded, sync>>
    BY DEF CleanUp, RetainFills, RetainTrades, RetainMarks, RetentionFails
  <1>2. TradedKnown' /\ SyncsTyped'
    BY <1>0, <1>1 DEF TradedKnown, SyncsTyped
  <1>3. CASE CleanUp
    <2>1. PICK ids : Drop({f \in walletFills : f.id \in ids})
                     /\ marks' = {m \in marks : m.id \notin ids}
      BY <1>3 DEF CleanUp
    <2>2. {f \in walletFills : f.id \in ids} \subseteq walletFills
      OBVIOUS
    <2>3. revision' \in 0..MaxRevision /\ synced' \in Revisions
      BY <2>1, <2>2, DropTyped
    <2>4. marks' \subseteq MarkRows /\ UNCHANGED <<trades, sweep>>
      BY <1>0, <1>3, <2>1 DEF CleanUp, TablesTyped
    <2> QED BY <1>0, <1>2, <2>3, <2>4 DEF TablesTyped
  <1>4. CASE RetainFills
    <2>1. PICK cutoff \in 2..MaxTraded :
              /\ \/ Drop({f \in walletFills : f.at < cutoff})
                 \/ UNCHANGED <<walletFills, revision, synced>>
              /\ sweep' = [step |-> "trades", cutoff |-> cutoff]
      BY <1>4 DEF RetainFills
    <2>2. {f \in walletFills : f.at < cutoff} \subseteq walletFills
      OBVIOUS
    <2>3. revision' \in 0..MaxRevision /\ synced' \in Revisions
      BY <1>0, <2>1, <2>2, DropTyped DEF TablesTyped
    <2>4. sweep' \in [step : {"none", "trades", "marks"}, cutoff : 0..MaxTraded]
      BY <2>1, SweepKinds, TradesAssumption DEF TradesAssumption
    <2>5. UNCHANGED <<trades, marks>>
      BY <1>4 DEF RetainFills
    <2> QED BY <1>0, <1>2, <2>3, <2>4, <2>5 DEF TablesTyped
  <1>5. CASE RetainTrades
    <2>1. trades' \subseteq trades /\ synced' \in {synced, Missing}
          /\ sweep' = [sweep EXCEPT !.step = "marks"] /\ UNCHANGED <<revision, marks>>
      BY <1>5 DEF RetainTrades
    <2>2. RowsSound(trades')
      BY <1>0, <2>1, RowsLess DEF TablesTyped
    <2>3. sweep' \in [step : {"none", "trades", "marks"}, cutoff : 0..MaxTraded]
      BY <1>0, <2>1 DEF TablesTyped
    <2>4. synced' \in Revisions
      BY <1>0, <2>1 DEF TablesTyped, Revisions
    <2> QED BY <1>0, <1>2, <2>1, <2>2, <2>3, <2>4 DEF TablesTyped
  <1>6. CASE RetainMarks
    <2>1. marks' \subseteq marks /\ synced' \in {synced, Missing}
          /\ sweep' = NoSweep /\ UNCHANGED <<revision, trades>>
      BY <1>6 DEF RetainMarks
    <2>2. synced' \in Revisions
      BY <1>0, <2>1 DEF TablesTyped, Revisions
    <2> QED BY <1>0, <1>2, <2>1, <2>2, SweepKinds DEF TablesTyped
  <1>7. CASE RetentionFails
    BY <1>0, <1>2, <1>7, SweepKinds DEF RetentionFails, TablesTyped
  <1> QED BY <1>3, <1>4, <1>5, <1>6, <1>7

LEMMA TypedKeeps == TypedInv /\ [TradesNext]_tradeVars => TypedInv'
  <1> SUFFICES ASSUME TypedInv, [TradesNext]_tradeVars PROVE TypedInv'
    OBVIOUS
  <1>1. TradesInv'
    BY TradesStep DEF TypedInv
  <1>2. CASE UNCHANGED tradeVars
    BY <1>1, <1>2 DEF tradeVars, TypedInv, TradedKnown, TablesTyped, SyncsTyped
  <1>3. CASE TradesNext
    <2>1. TradedKnown' /\ TablesTyped' /\ SyncsTyped'
      BY <1>3, TradeTyped, ArrivalTyped, SynchronizeTyped, CleanUpTyped DEF TradesNext
    <2> QED BY <1>1, <2>1 DEF TypedInv
  <1> QED BY <1>2, <1>3

LEMMA TradesTyped ==
    ASSUME TypedInv
    PROVE  TradesTypeOK
  BY DEF TypedInv, TradesInv, RevisionKnown, TradedKnown, TablesTyped, SyncsTyped, Carries,
         Revisions, RowsSound, OneKeyEach, TradesTypeOK

(* source_trades: a closed trade has closed all that it entered, an open   *)
(* one less than that, and an entry is never empty, whatever fills were    *)
(* missing or came late, and whatever synchronizations and cleanups        *)
(* overlapped.                                                             *)
Whole ==
    \A t \in trades :
      /\ t.entry > 0 /\ t.closed \in 0..t.entry
      /\ t.status = "closed" <=> t.closed = t.entry
THEOREM TradesAreWhole == TradesSpec => []Whole
  <1>1. TypedInv => Whole
    <2> SUFFICES ASSUME TypedInv, NEW t \in trades
                 PROVE  /\ t.entry > 0 /\ t.closed \in 0..t.entry
                        /\ t.status = "closed" <=> t.closed = t.entry
      BY DEF Whole
    <2>1. t \in TradeRows
      BY DEF TypedInv, TablesTyped, RowsSound
    <2> QED BY <2>1 DEF TradeRows
  <1> QED BY <1>1, TypedStarts, TypedKeeps, PTL DEF TradesSpec
-----------------------------------------------------------------------------
(***************************************************************************)
(* A copy grows within the exposure caps, for any positions of the source, *)
(* any equities and thresholds, and whatever order its parts are decided   *)
(* in.                                                                     *)
(*                                                                         *)
(* An entry that is rounded up to the minimum order is not larger than     *)
(* the room of both caps.  That an exit never lets the copy grow rests on  *)
(* the parts: none closes less than nothing, or from a position of zero.   *)
(***************************************************************************)
Actions == {"open", "close", "flip_close", "flip_open"}
SoundParts ==
    {p \in [action : Actions, side : {"long", "short"}, start : Nat, size : Nat] :
        IsEntry(p) \/ p.start # 0}
Exits == {p \in SoundParts : ~IsEntry(p)}
Copies == {c \in [side : {"none", "long", "short"}, size : Nat] :
              c.side = "none" <=> c.size = 0}

DecisionInv ==
    /\ lots \in Positions /\ queue \in Seq(SoundParts) /\ Len(queue) <= MaxQueue
    /\ late \in Seq(Exits)
    /\ copy \in Copies /\ tiny \in 0..MostCopied /\ rounded \in 0..MostRounded
    /\ equity \in Equities /\ others \in OtherExposures

LEMMA MostCopiedIsNat == MostCopied \in Nat
  <1>1. PICK e \in Equities : \A f \in Equities : f <= e
    BY DecisionAssumption
  <1>2. (CHOOSE x \in Equities : \A f \in Equities : f <= x) \in Equities
    BY <1>1
  <1>3. (CHOOSE x \in Equities : \A f \in Equities : f <= x) \in Nat
    BY <1>2, DecisionAssumption
  <1> DEFINE most == CHOOSE x \in Equities : \A f \in Equities : f <= x
  <1>4. MostCopied = SourceMultiple * most
    BY DEF MostCopied
  <1> HIDE DEF most
  <1>5. most \in Nat /\ SourceMultiple \in Nat
    BY <1>3, DecisionAssumption DEF most
  <1> QED BY <1>4, <1>5

LEMMA MostRoundedIsNat == MostRounded \in Nat /\ MostCopied < 2 * MinOrder + MostRounded
  <1>1. MostCopied \in Nat /\ MinOrder \in Nat
    BY MostCopiedIsNat, DecisionAssumption
  <1> QED BY <1>1 DEF MostRounded

LEMMA LesserIs ==
    ASSUME NEW a \in Int, NEW b \in Int
    PROVE  /\ Lesser(a, b) \in Int /\ Lesser(a, b) <= a /\ Lesser(a, b) <= b
           /\ Lesser(a, b) = a \/ Lesser(a, b) = b
  BY DEF Lesser

LEMMA FlatIs ==
    ASSUME NEW c \in Copies
    PROVE  (c = Flat <=> c.size = 0) /\ Flat \in Copies /\ c.size \in Nat
  BY DEF Copies, Flat

LEMMA PartIs ==
    ASSUME NEW action \in Actions, NEW d \in {"long", "short"}, NEW start \in Nat, NEW size \in Nat,
           action \in {"open", "flip_open"} \/ start # 0
    PROVE  Part(action, d, start, size) \in SoundParts
  BY DEF Part, SoundParts, IsEntry

LEMMA PartsSound ==
    ASSUME NEW a \in Int, NEW b \in Int, a # b
    PROVE  Parts(a, b) \in Seq(SoundParts)
  <1>1. Abs(a) \in Nat /\ Abs(b) \in Nat /\ Abs(b - a) \in Nat /\ (a # 0 => Abs(a) # 0)
    BY DEF Abs
  <1>2. ASSUME NEW p \in SoundParts, NEW q \in SoundParts
        PROVE  <<p>> \in Seq(SoundParts) /\ <<p, q>> \in Seq(SoundParts)
    OBVIOUS
  <1>3. /\ SideOf(a) = (IF a > 0 THEN "long" ELSE IF a < 0 THEN "short" ELSE "none")
        /\ SideOf(b) = (IF b > 0 THEN "long" ELSE IF b < 0 THEN "short" ELSE "none")
    BY DEF SideOf
  <1> DEFINE grows == SideOf(a) \in {"none", SideOf(b)} /\ Abs(b) > Abs(a)
             shrinks == a # 0 /\ Abs(b) < Abs(a) /\ SideOf(b) \in {"none", SideOf(a)}
             flips == a # 0 /\ b # 0 /\ SideOf(a) # SideOf(b)
  <1>4. grows \/ shrinks \/ flips
    BY <1>3 DEF Abs
  <1>5. ~(grows /\ shrinks) /\ ~(grows /\ flips) /\ ~(shrinks /\ flips)
    BY <1>1, <1>3 DEF Abs
  <1>6. CASE grows
    <2>1. Parts(a, b) = <<Part("open", SideOf(b), Abs(a), Abs(b - a))>>
      BY <1>5, <1>6 DEF Parts
    <2>2. SideOf(b) \in {"long", "short"}
      BY <1>3, <1>6 DEF Abs
    <2> QED BY <1>1, <1>2, <2>1, <2>2, PartIs DEF Actions
  <1>7. CASE shrinks
    <2>1. Parts(a, b) = <<Part("close", SideOf(a), Abs(a), Abs(b - a))>>
      BY <1>5, <1>7 DEF Parts
    <2>2. SideOf(a) \in {"long", "short"}
      BY <1>3, <1>7
    <2> QED BY <1>1, <1>2, <1>7, <2>1, <2>2, PartIs DEF Actions
  <1>8. CASE flips
    <2>1. Parts(a, b) = <<Part("flip_close", SideOf(a), Abs(a), Abs(a)),
                          Part("flip_open", SideOf(b), 0, Abs(b))>>
      BY <1>5, <1>8 DEF Parts
    <2>2. SideOf(a) \in {"long", "short"} /\ SideOf(b) \in {"long", "short"}
      BY <1>3, <1>8
    <2> QED BY <1>1, <1>2, <1>8, <2>1, <2>2, PartIs DEF Actions
  <1> QED BY <1>4, <1>6, <1>7, <1>8
----------------------------------------------------------------------------
(* No size is larger than the room, nor smaller than nothing.              *)
LEMMA RoomIs ==
    ASSUME DecisionInv
    PROVE  /\ Room \in Int
           /\ Room <= SourceMultiple * equity - copy.size
           /\ Room <= TotalMultiple * equity - copy.size - others
  <1>1. equity \in Nat /\ others \in Nat /\ copy.size \in Nat
    BY FlatIs, DecisionAssumption DEF DecisionInv
  <1>2. SourceMultiple * equity \in Nat /\ TotalMultiple * equity \in Nat
    BY <1>1, DecisionAssumption
  <1> DEFINE a == SourceMultiple * equity
             b == TotalMultiple * equity
  <1>3. Room = Lesser(a - copy.size, b - copy.size - others)
    BY DEF Room
  <1> SUFFICES Room \in Int /\ Room <= a - copy.size /\ Room <= b - copy.size - others
    OBVIOUS
  <1>4. a \in Nat /\ b \in Nat
    BY <1>2
  <1> HIDE DEF a, b
  <1>5. a - copy.size \in Int /\ b - copy.size - others \in Int
    BY <1>1, <1>4
  <1> QED BY <1>3, <1>5, LesserIs

LEMMA EntryFits ==
    ASSUME DecisionInv, NEW part \in SoundParts
    PROVE  EntrySize(part) \in Nat /\ (EntrySize(part) # 0 => EntrySize(part) <= Room)
  <1>1. equity \in Nat /\ others \in Nat /\ copy.size \in Nat /\ MinOrder \in Nat /\ Ratio \in Nat
    BY FlatIs, DecisionAssumption DEF DecisionInv
  <1>2. part.start \in Nat /\ part.size \in Nat
    BY DEF SoundParts
  <1>3. Ratio * equity * (part.start + part.size) \in Nat /\ Ratio * equity * part.size \in Nat
    BY <1>1, <1>2
  <1>4. Room \in Int
    BY RoomIs
  <1> DEFINE d == Ratio * equity * (part.start + part.size)
             own == Ratio * equity * part.size
             room == Room
  <1>5. OpeningSize(part, room) =
          (CASE d < MinOrder -> IF MinOrder <= room THEN MinOrder ELSE 0
             [] d >= MinOrder /\ d <= room -> d
             [] d >= MinOrder /\ d > room -> IF room >= MinOrder THEN room ELSE 0)
    BY DEF OpeningSize
  <1> DEFINE allowed == Lesser(Lesser(d - copy.size, own + MinOrder), IF room > 0 THEN room ELSE 0)
  <1>6. AddSize(part, room) =
          (CASE allowed <= 0 -> 0
             [] allowed >= MinOrder -> allowed
             [] allowed > 0 /\ allowed < MinOrder ->
                  IF 2 * allowed >= MinOrder /\ MinOrder <= room THEN MinOrder ELSE 0)
    BY DEF AddSize
  <1>7. EntrySize(part) = IF copy = Flat THEN OpeningSize(part, room) ELSE AddSize(part, room)
    BY DEF EntrySize
  <1> SUFFICES EntrySize(part) \in Nat /\ (EntrySize(part) # 0 => EntrySize(part) <= room)
    OBVIOUS
  <1>8. d \in Nat /\ own \in Nat /\ room \in Int
    BY <1>3, <1>4
  <1> HIDE DEF d, own, room
  <1>9. OpeningSize(part, room) \in Nat /\ (OpeningSize(part, room) # 0 => OpeningSize(part, room) <= room)
    BY <1>1, <1>5, <1>8
  <1>10. allowed \in Int /\ (allowed > 0 => allowed <= room)
    BY <1>1, <1>8 DEF Lesser
  <1> HIDE DEF allowed
  <1>11. AddSize(part, room) \in Nat /\ (AddSize(part, room) # 0 => AddSize(part, room) <= room)
    BY <1>1, <1>6, <1>8, <1>10
  <1> QED BY <1>7, <1>9, <1>11


LEMMA QuotientIsNat ==
    ASSUME NEW n \in Nat, NEW d \in Nat \ {0}
    PROVE  n \div d \in Nat
  OBVIOUS

LEMMA CloseFits ==
    ASSUME DecisionInv, NEW part \in Exits, NEW known \in BOOLEAN
    PROVE  /\ Share(part, known) \in 0..copy.size
           /\ CloseSize(part, known) \in 0..copy.size
  <1>1. copy.size \in Nat /\ MinOrder \in Nat /\ tiny \in Nat
    BY FlatIs, DecisionAssumption, MostCopiedIsNat DEF DecisionInv
  <1>2. part.start \in Nat \ {0} /\ part.size \in Nat
    BY DEF Exits, SoundParts
  <1> DEFINE product == copy.size * part.size
  <1>3. product \in Nat
    BY <1>1, <1>2
  <1>4. Share(part, known) =
          IF SourceLeft(known) THEN copy.size ELSE Lesser(copy.size, product \div part.start)
    BY DEF Share
  <1> HIDE DEF product
  <1>5. product \div part.start \in Nat
    BY <1>2, <1>3, QuotientIsNat
  <1>6. Share(part, known) \in 0..copy.size
    BY <1>1, <1>4, <1>5 DEF Lesser
  <1> DEFINE share == Share(part, known)
             joined == Lesser(share + tiny, copy.size)
  <1>7. CloseSize(part, known) =
          (CASE SourceLeft(known) \/ share >= MinOrder -> share
             [] ~SourceLeft(known) /\ share < MinOrder -> IF joined >= MinOrder THEN joined ELSE 0)
    BY DEF CloseSize
  <1> SUFFICES CloseSize(part, known) \in 0..copy.size
    BY <1>6
  <1>8. share \in 0..copy.size
    BY <1>6
  <1> HIDE DEF share
  <1>9. joined \in 0..copy.size
    BY <1>1, <1>8 DEF Lesser
  <1> HIDE DEF joined
  <1> QED BY <1>1, <1>7, <1>8, <1>9

LEMMA ClosesShrink ==
    ASSUME DecisionInv, NEW part \in Exits, NEW known \in BOOLEAN, NEW waiting,
           ClosePart(part, known, waiting)
    PROVE  /\ copy' \in Copies /\ copy'.size <= copy.size /\ tiny' \in 0..MostCopied
           /\ rounded' \in 0..MostRounded
  <1>1. copy \in Copies /\ copy.size \in Nat /\ tiny \in 0..MostCopied /\ MostCopied \in Nat
        /\ rounded \in 0..MostRounded /\ MostRounded \in Nat
    BY FlatIs, MostCopiedIsNat, MostRoundedIsNat DEF DecisionInv
  <1>0. rounded' \in 0..MostRounded
    <2>1. rounded' = IF copy' = Flat THEN 0
                     ELSE IF Rounds(part, waiting) THEN Lesser(rounded + 1, MostRounded) ELSE rounded
      BY DEF ClosePart
    <2> QED BY <1>1, <2>1 DEF Lesser
  <1> DEFINE share == Share(part, known)
             size == CloseSize(part, known)
  <1>2. share \in 0..copy.size /\ size \in 0..copy.size
    BY CloseFits
  <1>3. CASE UNCHANGED <<copy, tiny>>
    BY <1>0, <1>1, <1>3
  <1>4. CASE ~UNCHANGED <<copy, tiny>>
    <2>1. /\ copy' = IF size = copy.size THEN Flat ELSE [copy EXCEPT !.size = @ - size]
          /\ tiny' = IF size = 0 THEN Lesser(tiny + share, MostCopied)
                     ELSE IF size > share \/ size = copy.size THEN 0 ELSE tiny
      BY <1>4 DEF ClosePart
    <2> HIDE DEF share, size
    <2>2. tiny' \in 0..MostCopied
      BY <1>1, <1>2, <2>1 DEF Lesser
    <2>3. CASE size = copy.size
      BY <1>0, <1>1, <2>1, <2>2, <2>3 DEF Flat, Copies
    <2>4. CASE size # copy.size
      <3>1. copy.size - size \in Nat /\ copy.size - size # 0 /\ copy.size # 0
        BY <1>1, <1>2, <2>4
      <3>2. copy' = [copy EXCEPT !.size = copy.size - size]
        BY <2>1, <2>4
      <3>3. copy' \in [side : {"none", "long", "short"}, size : Nat]
            /\ copy'.side = copy.side /\ copy'.size = copy.size - size
        BY <1>1, <3>1, <3>2 DEF Copies
      <3> QED BY <1>0, <1>1, <1>2, <2>2, <3>1, <3>3 DEF Copies
    <2> QED BY <2>3, <2>4
  <1> QED BY <1>3, <1>4
----------------------------------------------------------------------------
LEMMA HeadOfParts ==
    ASSUME DecisionInv, queue # <<>>
    PROVE  /\ Head(queue) \in SoundParts
           /\ Tail(queue) \in Seq(SoundParts) /\ Len(Tail(queue)) <= MaxQueue
  <1>1. queue \in Seq(SoundParts) /\ Len(queue) <= MaxQueue
    BY DEF DecisionInv
  <1> QED BY <1>1, DecisionAssumption

LEMMA DecisionStarts == CopyInit => DecisionInv
  <1> SUFFICES ASSUME CopyInit PROVE DecisionInv
    OBVIOUS
  <1>1. Flat \in Copies
    BY DEF Flat, Copies
  <1>2. Len(queue) <= MaxQueue /\ queue \in Seq(SoundParts) /\ late \in Seq(Exits)
    BY DecisionAssumption DEF CopyInit
  <1> QED BY <1>1, <1>2, MostCopiedIsNat, MostRoundedIsNat DEF CopyInit, DecisionInv

LEMMA MovesKeep ==
    ASSUME DecisionInv, NEW to \in Positions, SourceMoves(to)
    PROVE  DecisionInv'
  <1>1. lots \in Int /\ to \in Int /\ to # lots
    BY DecisionAssumption DEF DecisionInv, SourceMoves, Abs
  <1>2. Parts(lots, to) \in Seq(SoundParts)
    BY <1>1, PartsSound
  <1> DEFINE new == Parts(lots, to)
  <1>3. queue' = queue \o new /\ Len(queue) + Len(new) <= MaxQueue
        /\ lots' = to /\ UNCHANGED <<late, copy, tiny, rounded, equity, others>>
    BY DEF SourceMoves
  <1>4. new \in Seq(SoundParts)
    BY <1>2
  <1> HIDE DEF new
  <1>5. queue' \in Seq(SoundParts) /\ Len(queue') <= MaxQueue
    BY <1>3, <1>4 DEF DecisionInv
  <1> QED BY <1>3, <1>5 DEF DecisionInv

LEMMA EntryKeeps ==
    ASSUME DecisionInv, ApplyEntry
    PROVE  DecisionInv' /\ GrowsWithinCaps
  <1> DEFINE part == Head(queue)
  <1>1. part \in SoundParts /\ IsEntry(part)
        /\ queue' \in Seq(SoundParts) /\ Len(queue') <= MaxQueue
    BY HeadOfParts DEF DecisionInv, ApplyEntry
  <1>2. PICK decided, allocated \in BOOLEAN :
          LET size == IF decided /\ Prechecked(part, allocated) THEN EntrySize(part) ELSE 0
          IN /\ copy' = IF size = 0 THEN copy ELSE [side |-> part.side, size |-> copy.size + size]
             /\ tiny' = IF copy = Flat THEN 0 ELSE tiny
    BY DEF ApplyEntry
  <1>3. UNCHANGED <<lots, late, rounded, equity, others>>
    BY DEF ApplyEntry
  <1> DEFINE size == IF decided /\ Prechecked(part, allocated) THEN EntrySize(part) ELSE 0
  <1>4. size \in Nat /\ (size # 0 => size <= Room)
    BY <1>1, EntryFits
  <1>5. copy' = IF size = 0 THEN copy ELSE [side |-> part.side, size |-> copy.size + size]
    BY <1>2
  <1>6. tiny' \in 0..MostCopied
    BY <1>2, MostCopiedIsNat DEF DecisionInv
  <1>7. part.side \in {"long", "short"}
    BY <1>1 DEF SoundParts
  <1>8. copy \in Copies /\ copy.size \in Nat
    BY FlatIs DEF DecisionInv
  <1> HIDE DEF part, size
  <1>9. copy' \in Copies
    BY <1>4, <1>5, <1>7, <1>8 DEF Copies
  <1>10. DecisionInv'
    BY <1>1, <1>3, <1>6, <1>9 DEF DecisionInv
  <1>11. ASSUME copy'.size > copy.size
         PROVE  copy.size + size <= SourceMultiple * equity
                /\ copy.size + size + others <= TotalMultiple * equity
                /\ copy'.size = copy.size + size
    <2>1. size # 0 /\ copy'.size = copy.size + size
      BY <1>5, <1>8, <1>11
    <2>2. equity \in Nat /\ others \in Nat
      BY DecisionAssumption DEF DecisionInv
    <2>3. SourceMultiple * equity \in Nat /\ TotalMultiple * equity \in Nat
      BY <2>2, DecisionAssumption
    <2> DEFINE a == SourceMultiple * equity
               b == TotalMultiple * equity
    <2>4. Room \in Int /\ Room <= a - copy.size /\ Room <= b - copy.size - others
      BY RoomIs
    <2>5. a \in Nat /\ b \in Nat
      BY <2>3
    <2> SUFFICES copy.size + size <= a /\ copy.size + size + others <= b
      BY <2>1
    <2> HIDE DEF a, b
    <2> QED BY <1>4, <1>8, <2>1, <2>2, <2>4, <2>5
  <1> QED BY <1>10, <1>11 DEF GrowsWithinCaps

LEMMA ExitKeeps ==
    ASSUME DecisionInv, ApplyExit \/ RetryExit
    PROVE  DecisionInv' /\ ~(copy'.size > copy.size)
  <1>0. copy \in Copies /\ copy.size \in Nat
    BY FlatIs DEF DecisionInv
  <1>1. CASE ApplyExit
    <2>1. Head(queue) \in Exits /\ queue' \in Seq(SoundParts) /\ Len(queue') <= MaxQueue
          /\ UNCHANGED <<lots, equity, others>>
      BY <1>1, HeadOfParts DEF DecisionInv, ApplyExit, Exits
    <2>2. CASE UNCHANGED late /\ \E known \in BOOLEAN : ClosePart(Head(queue), known, late)
      <3>1. PICK known \in BOOLEAN : ClosePart(Head(queue), known, late)
        BY <2>2
      <3>2. copy' \in Copies /\ copy'.size <= copy.size /\ tiny' \in 0..MostCopied
            /\ rounded' \in 0..MostRounded
        BY <2>1, <3>1, ClosesShrink
      <3>3. copy'.size \in Nat /\ late' \in Seq(Exits)
        BY <2>2, <3>2, FlatIs DEF DecisionInv
      <3>4. lots' \in Positions /\ equity' \in Equities /\ others' \in OtherExposures
        BY <2>1 DEF DecisionInv
      <3> QED BY <1>0, <2>1, <3>2, <3>3, <3>4 DEF DecisionInv
    <2>3. CASE late' = Append(late, Head(queue)) /\ UNCHANGED <<copy, tiny, rounded>>
      <3>1. late' \in Seq(Exits)
        BY <2>1, <2>3 DEF DecisionInv
      <3> QED BY <1>0, <2>1, <2>3, <3>1 DEF DecisionInv
    <2> QED BY <1>1, <2>2, <2>3 DEF ApplyExit
  <1>2. CASE RetryExit
    <2>1. Head(late) \in Exits /\ late' \in Seq(Exits)
          /\ UNCHANGED <<lots, queue, equity, others>>
      BY <1>2 DEF DecisionInv, RetryExit
    <2>2. PICK known \in BOOLEAN : ClosePart(Head(late), known, Tail(late))
      BY <1>2 DEF RetryExit
    <2>3. copy' \in Copies /\ copy'.size <= copy.size /\ tiny' \in 0..MostCopied
          /\ rounded' \in 0..MostRounded
      BY <2>1, <2>2, ClosesShrink
    <2> QED BY <1>0, <2>1, <2>3, FlatIs DEF DecisionInv
  <1> QED BY <1>1, <1>2

LEMMA DecisionStep ==
    DecisionInv /\ [CopyNext]_copyVars => DecisionInv' /\ [GrowsWithinCaps]_copyVars
  <1> SUFFICES ASSUME DecisionInv, [CopyNext]_copyVars
               PROVE  DecisionInv' /\ [GrowsWithinCaps]_copyVars
    OBVIOUS
  <1>1. CASE \E to \in Positions : SourceMoves(to)
    <2>1. UNCHANGED copy /\ copy.size \in Nat
      BY <1>1, FlatIs DEF SourceMoves, DecisionInv
    <2> QED BY <1>1, <2>1, MovesKeep DEF GrowsWithinCaps
  <1>2. CASE \E e \in Equities, o \in OtherExposures : AccountChanges(e, o)
    <2>1. UNCHANGED copy /\ copy.size \in Nat
      BY <1>2, FlatIs DEF AccountChanges, DecisionInv
    <2> QED BY <1>2, <2>1 DEF AccountChanges, DecisionInv, GrowsWithinCaps
  <1>3. CASE ApplyEntry
    BY <1>3, EntryKeeps
  <1>4. CASE ApplyExit \/ RetryExit
    BY <1>4, ExitKeeps DEF GrowsWithinCaps
  <1>5. CASE UNCHANGED copyVars
    BY <1>5 DEF copyVars, DecisionInv
  <1> QED BY <1>1, <1>2, <1>3, <1>4, <1>5 DEF CopyNext
----------------------------------------------------------------------------
(* trading_copy_decision_service: an entry takes the copy of a source to   *)
(* no more than the equity multiples allow, whatever was rounded up to the *)
(* minimum order.                                                          *)
THEOREM CapsKept == CopySpec => CapsHeld
  <1> QED BY DecisionStarts, DecisionStep, PTL DEF CopySpec, CapsHeld

(* The copy, the parts and what was skipped of them keep their types.      *)
THEOREM DecisionTyped == CopySpec => []CopyTypeOK
  <1>1. DecisionInv => CopyTypeOK
    BY FlatIs DEF DecisionInv, CopyTypeOK
  <1> QED BY <1>1, DecisionStarts, DecisionStep, PTL DEF CopySpec
----------------------------------------------------------------------------
(***************************************************************************)
(* The copy stays near its source's proportion.                            *)
(*                                                                         *)
(* The parts not applied yet form a chain: each starts where the one       *)
(* before it ends, and the last ends where the source is.  Each exit that  *)
(* paper has put aside will leave a fraction of the copy, and all of them  *)
(* the product of these.  What they are to leave is compared with the      *)
(* source as it was before the first part of the queue: either the copy is *)
(* less than a minimum order, or that is nothing, or the copy is on the    *)
(* source's side and what they leave of it exceeds the proportion by no    *)
(* more than one minimum order, a dollar for each share rounded while      *)
(* exits waited, and what they leave of the closes that were skipped,      *)
(* which is less than another minimum order.  An entry goes no further     *)
(* than the proportion after it, or is the minimum order it is rounded up  *)
(* to.  An exit that is put aside multiplies what is left by what the      *)
(* source keeps.  A close, now or late, takes its share, rounded down:     *)
(* while none waits the bound is a whole number and so nothing is lost, or *)
(* else it is a dollar at most.  With no part left and no exit waiting all *)
(* of the copy is compared with the source where it is.                    *)
(***************************************************************************)
(* The position of the source before a part and after it.                  *)
Signed(side, n) == IF side = "long" THEN n ELSE 0 - n
StartOf(p) == Signed(p.side, p.start)
EndSize(p) == IF IsEntry(p) THEN p.start + p.size ELSE p.start - p.size
EndOf(p) == Signed(p.side, EndSize(p))

TradedParts == {p \in SoundParts : IF IsEntry(p) THEN p.size # 0 ELSE p.size <= p.start}
LateParts == {p \in TradedParts : ~IsEntry(p)}

(* The parts that are not applied yet lead to where the source is, from    *)
(* where it was when all before them were.                                 *)
Chained ==
    \A i \in 1..Len(queue) :
        EndOf(queue[i]) = IF i = Len(queue) THEN lots ELSE StartOf(queue[i + 1])
SourceAt == IF queue = <<>> THEN lots ELSE StartOf(queue[1])

(* What exits leave of a copy on a side: those from i on leave n[i] of     *)
(* d[i], and all of them num of den.                                       *)
LeavesFrom(n, d, exits, side) ==
    /\ n \in [1..Len(exits) + 1 -> Nat] /\ d \in [1..Len(exits) + 1 -> Nat \ {0}]
    /\ n[Len(exits) + 1] = 1 /\ d[Len(exits) + 1] = 1
    /\ \A i \in 1..Len(exits) + 1 : n[i] <= d[i]
    /\ \A i \in 1..Len(exits) :
         IF exits[i].side = side
         THEN n[i] = EndSize(exits[i]) * n[i + 1] /\ d[i] = exits[i].start * d[i + 1]
         ELSE n[i] = n[i + 1] /\ d[i] = d[i + 1]
Leaves(exits, side, num, den) ==
    \E n, d : LeavesFrom(n, d, exits, side) /\ n[1] = num /\ d[1] = den

(* What skipped closes can add to the copy: they are combined before they  *)
(* reach a minimum order.                                                  *)
Skipped == Lesser(tiny, MinOrder - 1)

Near(num, den) ==
    /\ num = 0 \/ copy.side = SideOf(SourceAt)
    /\ \/ rounded = MostRounded
       \/ copy.size * num <= (LargestRatio * Abs(SourceAt) + MinOrder + rounded) * den + Skipped * num
Follows ==
    \/ copy.size < MinOrder
    \/ \E num, den : Leaves(late, copy.side, num, den) /\ Near(num, den)

TracksInv ==
    /\ DecisionInv /\ copy.size <= MostCopied
    /\ queue \in Seq(TradedParts) /\ Chained
    /\ late \in Seq(LateParts)
    /\ \A side \in {"long", "short"} : \E num, den : Leaves(late, side, num, den)
    /\ Follows

LEMMA EndsAre ==
    ASSUME NEW p \in TradedParts
    PROVE  /\ p.side \in {"long", "short"} /\ p.start \in Nat /\ p.size \in Nat
           /\ StartOf(p) \in Int /\ EndOf(p) \in Int /\ EndSize(p) \in Nat
           /\ Abs(StartOf(p)) = p.start /\ Abs(EndOf(p)) = EndSize(p)
           /\ SideOf(StartOf(p)) = IF p.start = 0 THEN "none" ELSE p.side
           /\ SideOf(EndOf(p)) = IF EndSize(p) = 0 THEN "none" ELSE p.side
           /\ (IsEntry(p) => EndSize(p) # 0)
           /\ (~IsEntry(p) => p.start # 0 /\ p.size <= p.start)
<1>1. p.side \in {"long", "short"} /\ p.start \in Nat /\ p.size \in Nat
      /\ (IsEntry(p) => p.size # 0) /\ (~IsEntry(p) => p.start # 0 /\ p.size <= p.start)
  BY DEF TradedParts, SoundParts
<1>2. EndSize(p) \in Nat /\ (IsEntry(p) => EndSize(p) # 0)
  BY <1>1 DEF EndSize
<1>3. ASSUME NEW n \in Nat
      PROVE  /\ Signed(p.side, n) \in Int /\ Abs(Signed(p.side, n)) = n
             /\ SideOf(Signed(p.side, n)) = IF n = 0 THEN "none" ELSE p.side
  <2>1. CASE p.side = "long"
    BY <1>3, <2>1 DEF Signed, Abs, SideOf
  <2>2. CASE p.side = "short"
    BY <1>3, <2>2 DEF Signed, Abs, SideOf
  <2>. QED  BY <1>1, <2>1, <2>2
<1>. QED  BY <1>1, <1>2, <1>3 DEF StartOf, EndOf

LEMMA PartEnds ==
    ASSUME NEW d \in {"long", "short"}, NEW start \in Nat, NEW size \in Nat
    PROVE  /\ \A action \in {"open", "flip_open"} : size # 0 =>
                /\ Part(action, d, start, size) \in TradedParts
                /\ StartOf(Part(action, d, start, size)) = Signed(d, start)
                /\ EndOf(Part(action, d, start, size)) = Signed(d, start + size)
           /\ \A action \in {"close", "flip_close"} : start # 0 /\ size <= start =>
                /\ Part(action, d, start, size) \in TradedParts
                /\ StartOf(Part(action, d, start, size)) = Signed(d, start)
                /\ EndOf(Part(action, d, start, size)) = Signed(d, start - size)
<1>1. ASSUME NEW action \in {"open", "flip_open"}, size # 0
      PROVE  /\ Part(action, d, start, size) \in TradedParts
             /\ StartOf(Part(action, d, start, size)) = Signed(d, start)
             /\ EndOf(Part(action, d, start, size)) = Signed(d, start + size)
  <2>1. Part(action, d, start, size) \in SoundParts
    BY <1>1, PartIs DEF Actions
  <2>. QED  BY <1>1, <2>1 DEF Part, TradedParts, IsEntry, StartOf, EndOf, EndSize
<1>2. ASSUME NEW action \in {"close", "flip_close"}, start # 0, size <= start
      PROVE  /\ Part(action, d, start, size) \in TradedParts
             /\ StartOf(Part(action, d, start, size)) = Signed(d, start)
             /\ EndOf(Part(action, d, start, size)) = Signed(d, start - size)
  <2>1. Part(action, d, start, size) \in SoundParts
    BY <1>2, PartIs DEF Actions
  <2>. QED  BY <1>2, <2>1 DEF Part, TradedParts, IsEntry, StartOf, EndOf, EndSize
<1>. QED  BY <1>1, <1>2

LEMMA PartsChain ==
    ASSUME NEW a \in Int, NEW b \in Int, a # b
    PROVE  /\ Parts(a, b) \in Seq(TradedParts) /\ Len(Parts(a, b)) \in {1, 2}
           /\ StartOf(Parts(a, b)[1]) = a
           /\ EndOf(Parts(a, b)[Len(Parts(a, b))]) = b
           /\ (Len(Parts(a, b)) = 2 => EndOf(Parts(a, b)[1]) = StartOf(Parts(a, b)[2]))
<1>1. Abs(a) \in Nat /\ Abs(b) \in Nat /\ Abs(b - a) \in Nat
  BY DEF Abs
<1>3. /\ SideOf(a) = (IF a > 0 THEN "long" ELSE IF a < 0 THEN "short" ELSE "none")
      /\ SideOf(b) = (IF b > 0 THEN "long" ELSE IF b < 0 THEN "short" ELSE "none")
  BY DEF SideOf
<1>. DEFINE grows == SideOf(a) \in {"none", SideOf(b)} /\ Abs(b) > Abs(a)
            shrinks == a # 0 /\ Abs(b) < Abs(a) /\ SideOf(b) \in {"none", SideOf(a)}
            flips == a # 0 /\ b # 0 /\ SideOf(a) # SideOf(b)
<1>4. grows \/ shrinks \/ flips
  BY <1>3 DEF Abs
<1>5. ~(grows /\ shrinks) /\ ~(grows /\ flips) /\ ~(shrinks /\ flips)
  BY <1>1, <1>3 DEF Abs
<1>2. ASSUME NEW p \in TradedParts, NEW q \in TradedParts
      PROVE  /\ <<p>> \in Seq(TradedParts) /\ <<p, q>> \in Seq(TradedParts)
             /\ Len(<<p>>) = 1 /\ Len(<<p, q>>) = 2 /\ <<p>>[1] = p
             /\ <<p, q>>[1] = p /\ <<p, q>>[2] = q
  OBVIOUS
<1>7. CASE grows
  <2>1. Parts(a, b) = <<Part("open", SideOf(b), Abs(a), Abs(b - a))>>
    BY <1>5, <1>7 DEF Parts
  <2>2. SideOf(b) \in {"long", "short"} /\ Abs(b - a) # 0
        /\ Signed(SideOf(b), Abs(a)) = a /\ Signed(SideOf(b), Abs(a) + Abs(b - a)) = b
    BY <1>3, <1>7 DEF Abs, Signed
  <2>. DEFINE p == Part("open", SideOf(b), Abs(a), Abs(b - a))
  <2>3. p \in TradedParts /\ StartOf(p) = Signed(SideOf(b), Abs(a))
        /\ EndOf(p) = Signed(SideOf(b), Abs(a) + Abs(b - a))
    <3>. DEFINE d == SideOf(b)
                n == Abs(a)
                m == Abs(b - a)
    <3>1. d \in {"long", "short"} /\ n \in Nat /\ m \in Nat /\ m # 0
      BY <1>1, <2>2
    <3>. HIDE DEF d, n, m
    <3>2. /\ Part("open", d, n, m) \in TradedParts
          /\ StartOf(Part("open", d, n, m)) = Signed(d, n)
          /\ EndOf(Part("open", d, n, m)) = Signed(d, n + m)
      BY <3>1, PartEnds
    <3>. QED  BY <3>2 DEF d, n, m
  <2>4. Parts(a, b) = <<p>>
    BY <2>1
  <2>5. StartOf(p) = a /\ EndOf(p) = b
    BY <2>2, <2>3
  <2>. HIDE DEF p
  <2>6. <<p>> \in Seq(TradedParts) /\ Len(<<p>>) = 1 /\ <<p>>[1] = p
    BY <1>2, <2>3
  <2>. QED  BY <2>4, <2>5, <2>6
<1>8. CASE shrinks
  <2>1. Parts(a, b) = <<Part("close", SideOf(a), Abs(a), Abs(b - a))>>
    BY <1>5, <1>8 DEF Parts
  <2>2. SideOf(a) \in {"long", "short"} /\ Abs(a) # 0 /\ Abs(b - a) <= Abs(a)
        /\ Signed(SideOf(a), Abs(a)) = a /\ Signed(SideOf(a), Abs(a) - Abs(b - a)) = b
    BY <1>3, <1>8 DEF Abs, Signed
  <2>. DEFINE p == Part("close", SideOf(a), Abs(a), Abs(b - a))
  <2>3. p \in TradedParts /\ StartOf(p) = Signed(SideOf(a), Abs(a))
        /\ EndOf(p) = Signed(SideOf(a), Abs(a) - Abs(b - a))
    <3>. DEFINE d == SideOf(a)
                n == Abs(a)
                m == Abs(b - a)
    <3>1. d \in {"long", "short"} /\ n \in Nat /\ m \in Nat /\ n # 0 /\ m <= n
      BY <1>1, <2>2
    <3>. HIDE DEF d, n, m
    <3>2. /\ Part("close", d, n, m) \in TradedParts
          /\ StartOf(Part("close", d, n, m)) = Signed(d, n)
          /\ EndOf(Part("close", d, n, m)) = Signed(d, n - m)
      BY <3>1, PartEnds
    <3>. QED  BY <3>2 DEF d, n, m
  <2>4. Parts(a, b) = <<p>>
    BY <2>1
  <2>5. StartOf(p) = a /\ EndOf(p) = b
    BY <2>2, <2>3
  <2>. HIDE DEF p
  <2>6. <<p>> \in Seq(TradedParts) /\ Len(<<p>>) = 1 /\ <<p>>[1] = p
    BY <1>2, <2>3
  <2>. QED  BY <2>4, <2>5, <2>6
<1>9. CASE flips
  <2>1. Parts(a, b) = <<Part("flip_close", SideOf(a), Abs(a), Abs(a)),
                        Part("flip_open", SideOf(b), 0, Abs(b))>>
    BY <1>5, <1>9 DEF Parts
  <2>2. /\ SideOf(a) \in {"long", "short"} /\ Abs(a) # 0 /\ Signed(SideOf(a), Abs(a)) = a
        /\ Signed(SideOf(a), Abs(a) - Abs(a)) = 0
        /\ SideOf(b) \in {"long", "short"} /\ Abs(b) # 0 /\ Signed(SideOf(b), 0) = 0
        /\ Signed(SideOf(b), 0 + Abs(b)) = b
    BY <1>3, <1>9 DEF Abs, Signed
  <2>. DEFINE p == Part("flip_close", SideOf(a), Abs(a), Abs(a))
              q == Part("flip_open", SideOf(b), 0, Abs(b))
  <2>3. p \in TradedParts
    <3>1. p \in SoundParts
      BY <1>1, <2>2, PartIs DEF Actions
    <3>2. ~IsEntry(p) /\ p.size = Abs(a) /\ p.start = Abs(a) /\ Abs(a) <= Abs(a)
      BY <1>1 DEF IsEntry, Part
    <3>. HIDE DEF p
    <3>. QED  BY <3>1, <3>2 DEF TradedParts
  <2>4. StartOf(p) = a /\ EndOf(p) = 0
    BY <2>2 DEF StartOf, EndOf, EndSize, IsEntry, Part
  <2>5. q \in TradedParts
    <3>1. q \in SoundParts
      BY <1>1, <2>2, PartIs DEF Actions
    <3>2. IsEntry(q) /\ q.size # 0
      BY <2>2 DEF IsEntry, Part
    <3>. HIDE DEF q
    <3>. QED  BY <3>1, <3>2 DEF TradedParts
  <2>6. StartOf(q) = 0 /\ EndOf(q) = b
    BY <2>2 DEF StartOf, EndOf, EndSize, IsEntry, Part
  <2>. HIDE DEF p, q
  <2>. QED  BY <1>2, <2>1, <2>3, <2>4, <2>5, <2>6 DEF p, q
<1>. QED  BY <1>4, <1>7, <1>8, <1>9

(* What is left when no exit waits, when one more does, and when the first *)
(* of them goes.                                                           *)
LEMMA LeavesNat ==
    ASSUME NEW exits \in Seq(LateParts), NEW side, NEW num, NEW den, Leaves(exits, side, num, den)
    PROVE  num \in Nat /\ den \in Nat \ {0} /\ num <= den
<1>1. PICK n, d : LeavesFrom(n, d, exits, side) /\ n[1] = num /\ d[1] = den
  BY DEF Leaves
<1>2. 1 \in 1..Len(exits) + 1
  <2>1. Len(exits) \in Nat
    OBVIOUS
  <2>. QED  BY <2>1
<1>. QED  BY <1>1, <1>2 DEF LeavesFrom

LEMMA LeavesAll ==
    ASSUME NEW side
    PROVE  /\ Leaves(<<>>, side, 1, 1)
           /\ \A num, den : Leaves(<<>>, side, num, den) => num = 1 /\ den = 1
<1>1. Len(<<>>) = 0 /\ 0 + 1 = 1 /\ 1..0 = {}
  OBVIOUS
<1>2. Leaves(<<>>, side, 1, 1)
  <2>. DEFINE one == [i \in 1..1 |-> 1]
  <2>1. one \in [1..1 -> Nat] /\ one \in [1..1 -> Nat \ {0}] /\ one[1] = 1
        /\ \A i \in 1..1 : one[i] <= one[i]
    OBVIOUS
  <2>. HIDE DEF one
  <2>2. LeavesFrom(one, one, <<>>, side)
    BY <1>1, <2>1 DEF LeavesFrom
  <2>. QED  BY <2>1, <2>2 DEF Leaves
<1>3. ASSUME NEW num, NEW den, Leaves(<<>>, side, num, den) PROVE num = 1 /\ den = 1
  BY <1>1, <1>3 DEF Leaves, LeavesFrom
<1>. QED  BY <1>2, <1>3

LEMMA LateSizes ==
    ASSUME NEW p \in LateParts
    PROVE  /\ p.side \in {"long", "short"} /\ p.start \in Nat \ {0} /\ p.size \in Nat
           /\ EndSize(p) \in Nat /\ EndSize(p) <= p.start /\ p.start = EndSize(p) + p.size
           /\ ~IsEntry(p) /\ p \in TradedParts /\ p \in Exits
<1>1. p \in TradedParts /\ ~IsEntry(p) /\ p \in SoundParts
  BY DEF LateParts, TradedParts
<1>2. p.side \in {"long", "short"} /\ p.start \in Nat \ {0} /\ p.size \in Nat /\ p.size <= p.start
  BY <1>1, EndsAre
<1>. QED  BY <1>1, <1>2 DEF EndSize, Exits

LEMMA ProductsOrdered ==
    ASSUME NEW a \in Nat, NEW b \in Nat \ {0}, a <= b, NEW n \in Nat, NEW d \in Nat \ {0}, n <= d
    PROVE  a * n \in Nat /\ b * d \in Nat \ {0} /\ a * n <= b * d
<1>1. a * n <= b * n /\ b * n <= b * d /\ a * n \in Nat /\ b * n \in Nat /\ b * d \in Nat
  OBVIOUS
<1>2. b * d # 0
  OBVIOUS
<1>. QED  BY <1>1, <1>2

LEMMA LeavesMore ==
    ASSUME NEW exits \in Seq(LateParts), NEW part \in LateParts, NEW side, NEW num, NEW den,
           Leaves(exits, side, num, den)
    PROVE  IF part.side = side
           THEN Leaves(Append(exits, part), side, EndSize(part) * num, part.start * den)
           ELSE Leaves(Append(exits, part), side, num, den)
<1>1. PICK n, d : LeavesFrom(n, d, exits, side) /\ n[1] = num /\ d[1] = den
  BY DEF Leaves
<1>. DEFINE l == Len(exits)
            more == Append(exits, part)
            a == IF part.side = side THEN EndSize(part) ELSE 1
            b == IF part.side = side THEN part.start ELSE 1
            m == [i \in 1..l + 2 |-> IF i = l + 2 THEN 1 ELSE a * n[i]]
            e == [i \in 1..l + 2 |-> IF i = l + 2 THEN 1 ELSE b * d[i]]
<1>2. l \in Nat /\ more \in Seq(LateParts) /\ Len(more) = l + 1 /\ more[l + 1] = part
      /\ \A i \in 1..l : more[i] = exits[i] /\ exits[i] \in LateParts
  OBVIOUS
<1>3. a \in Nat /\ b \in Nat \ {0} /\ a <= b
  BY LateSizes
<1>4. /\ n[l + 1] = 1 /\ d[l + 1] = 1
      /\ \A i \in 1..l + 1 : n[i] \in Nat /\ d[i] \in Nat \ {0} /\ n[i] <= d[i]
      /\ \A i \in 1..l :
           IF exits[i].side = side
           THEN n[i] = EndSize(exits[i]) * n[i + 1] /\ d[i] = exits[i].start * d[i + 1]
           ELSE n[i] = n[i + 1] /\ d[i] = d[i + 1]
  BY <1>1 DEF LeavesFrom
<1>. HIDE DEF a, b, more, l
<1>5. \A i \in 1..l + 1 : m[i] = a * n[i] /\ e[i] = b * d[i]
  BY <1>2
<1>6. m[l + 2] = 1 /\ e[l + 2] = 1
  BY <1>2
<1>7. \A i \in 1..l + 2 : m[i] \in Nat /\ e[i] \in Nat \ {0} /\ m[i] <= e[i]
  <2>. SUFFICES ASSUME NEW i \in 1..l + 2 PROVE m[i] \in Nat /\ e[i] \in Nat \ {0} /\ m[i] <= e[i]
    OBVIOUS
  <2>1. CASE i = l + 2
    BY <1>6, <2>1
  <2>2. CASE i # l + 2
    <3>1. i \in 1..l + 1
      BY <1>2, <2>2
    <3>2. m[i] = a * n[i] /\ e[i] = b * d[i] /\ n[i] \in Nat /\ d[i] \in Nat \ {0} /\ n[i] <= d[i]
      BY <1>4, <1>5, <3>1
    <3>. HIDE DEF m, e
    <3>3. a * n[i] \in Nat /\ b * d[i] \in Nat \ {0} /\ a * n[i] <= b * d[i]
      BY <1>3, <3>2, ProductsOrdered
    <3>. QED  BY <3>2, <3>3
  <2>. QED  BY <2>1, <2>2
<1>8. m \in [1..l + 2 -> Nat] /\ e \in [1..l + 2 -> Nat \ {0}]
  <2>1. DOMAIN m = 1..l + 2 /\ DOMAIN e = 1..l + 2
        /\ m = [i \in 1..l + 2 |-> m[i]] /\ e = [i \in 1..l + 2 |-> e[i]]
    OBVIOUS
  <2>. HIDE DEF m, e
  <2>. QED  BY <1>7, <2>1
<1>. HIDE DEF m, e
<1>9. ASSUME NEW i \in 1..l + 1
      PROVE  IF more[i].side = side
             THEN m[i] = EndSize(more[i]) * m[i + 1] /\ e[i] = more[i].start * e[i + 1]
             ELSE m[i] = m[i + 1] /\ e[i] = e[i + 1]
  <2>1. CASE i = l + 1
    <3>1. i + 1 = l + 2 /\ m[i] = a * 1 /\ e[i] = b * 1 /\ more[i] = part
      BY <1>2, <1>4, <1>5, <2>1
    <3>. QED  BY <1>3, <1>6, <3>1 DEF a, b
  <2>2. CASE i # l + 1
    <3>1. i \in 1..l /\ i \in 1..l + 1 /\ i + 1 \in 1..l + 1
      BY <1>2, <2>2
    <3>. DEFINE g == n[i + 1]
                h == d[i + 1]
                x == EndSize(exits[i])
                y == exits[i].start
    <3>2. more[i] = exits[i] /\ exits[i] \in LateParts /\ m[i] = a * n[i] /\ e[i] = b * d[i]
          /\ m[i + 1] = a * g /\ e[i + 1] = b * h
      BY <1>2, <1>5, <3>1
    <3>3. g \in Nat /\ h \in Nat /\ x \in Nat /\ y \in Nat
      BY <1>4, <3>1, <3>2, LateSizes
    <3>4. IF exits[i].side = side THEN n[i] = x * g /\ d[i] = y * h ELSE n[i] = g /\ d[i] = h
      BY <1>4, <3>1
    <3>. HIDE DEF g, h, x, y
    <3>5. a * (x * g) = x * (a * g) /\ b * (y * h) = y * (b * h)
      BY <1>3, <3>3
    <3>. QED  BY <3>2, <3>4, <3>5 DEF x, y
  <2>. QED  BY <2>1, <2>2
<1>10. LeavesFrom(m, e, more, side)
  <2>1. Len(more) + 1 = l + 2
    BY <1>2
  <2>. QED  BY <1>2, <1>6, <1>7, <1>8, <1>9, <2>1 DEF LeavesFrom
<1>11. m[1] = a * num /\ e[1] = b * den /\ num \in Nat /\ den \in Nat
  <2>1. 1 \in 1..l + 1
    BY <1>2
  <2>. QED  BY <1>1, <1>4, <1>5, <2>1
<1>12. Leaves(more, side, a * num, b * den)
  BY <1>10, <1>11 DEF Leaves
<1>13. 1 * num = num /\ 1 * den = den
  BY <1>11
<1>. QED  BY <1>12, <1>13 DEF a, b, more

LEMMA LeavesRest ==
    ASSUME NEW exits \in Seq(LateParts), exits # <<>>, NEW side, NEW num, NEW den,
           Leaves(exits, side, num, den)
    PROVE  \E n, d : /\ Leaves(Tail(exits), side, n, d)
                     /\ IF Head(exits).side = side
                        THEN num = EndSize(Head(exits)) * n /\ den = Head(exits).start * d
                        ELSE num = n /\ den = d
<1>1. PICK n, d : LeavesFrom(n, d, exits, side) /\ n[1] = num /\ d[1] = den
  BY DEF Leaves
<1>. DEFINE l == Len(exits)
            rest == Tail(exits)
            m == [i \in 1..l |-> n[i + 1]]
            e == [i \in 1..l |-> d[i + 1]]
<1>2. l \in Nat \ {0} /\ rest \in Seq(LateParts) /\ Len(rest) = l - 1 /\ Head(exits) = exits[1]
      /\ \A i \in 1..l - 1 : rest[i] = exits[i + 1]
  OBVIOUS
<1>3. /\ n[l + 1] = 1 /\ d[l + 1] = 1
      /\ \A i \in 1..l + 1 : n[i] \in Nat /\ d[i] \in Nat \ {0} /\ n[i] <= d[i]
      /\ \A i \in 1..l :
           IF exits[i].side = side
           THEN n[i] = EndSize(exits[i]) * n[i + 1] /\ d[i] = exits[i].start * d[i + 1]
           ELSE n[i] = n[i + 1] /\ d[i] = d[i + 1]
  BY <1>1 DEF LeavesFrom
<1>. HIDE DEF rest, l
<1>4. \A i \in 1..l : i + 1 \in 1..l + 1 /\ m[i] = n[i + 1] /\ e[i] = d[i + 1]
  BY <1>2
<1>5. m \in [1..l -> Nat] /\ e \in [1..l -> Nat \ {0}]
      /\ \A i \in 1..l : m[i] <= e[i]
  BY <1>3, <1>4
<1>6. m[l] = 1 /\ e[l] = 1 /\ m[1] = n[2] /\ e[1] = d[2]
  <2>1. l \in 1..l /\ 1 \in 1..l /\ 1 + 1 = 2
    BY <1>2
  <2>. QED  BY <1>3, <1>4, <2>1
<1>. HIDE DEF m, e
<1>7. ASSUME NEW i \in 1..l - 1
      PROVE  IF rest[i].side = side
             THEN m[i] = EndSize(rest[i]) * m[i + 1] /\ e[i] = rest[i].start * e[i + 1]
             ELSE m[i] = m[i + 1] /\ e[i] = e[i + 1]
  <2>1. i \in 1..l /\ i + 1 \in 1..l
    BY <1>2
  <2>2. m[i] = n[i + 1] /\ e[i] = d[i + 1] /\ m[i + 1] = n[i + 1 + 1] /\ e[i + 1] = d[i + 1 + 1]
        /\ rest[i] = exits[i + 1]
    BY <1>2, <1>4, <2>1
  <2>. QED  BY <1>3, <2>1, <2>2
<1>8. LeavesFrom(m, e, rest, side)
  <2>1. Len(rest) + 1 = l
    BY <1>2
  <2>. QED  BY <1>2, <1>5, <1>6, <1>7, <2>1 DEF LeavesFrom
<1>9. Leaves(rest, side, m[1], e[1])
  BY <1>8 DEF Leaves
<1>10. IF exits[1].side = side
       THEN num = EndSize(exits[1]) * m[1] /\ den = exits[1].start * e[1]
       ELSE num = m[1] /\ den = e[1]
  <2>1. 1 \in 1..l /\ 1 + 1 = 2
    BY <1>2
  <2>. QED  BY <1>1, <1>3, <1>6, <2>1
<1>. QED  BY <1>2, <1>9, <1>10 DEF rest

(* An exit that waits leaves its part of the proportion.                   *)
LEMMA WaitScales ==
    ASSUME NEW s \in Nat \ {0}, NEW r \in Nat, r <= s, NEW x \in Nat, NEW m \in Nat, NEW k \in Nat,
           NEW j \in Nat, NEW n \in Nat, NEW d \in Nat \ {0},
           x * n <= (m * s + k) * d + j * n
    PROVE  x * (r * n) <= (m * r + k) * (s * d) + j * (r * n)
<1>. DEFINE w == (m * s + k) * d
            v == (m * r + k) * (s * d)
<1>1. x * n \in Nat /\ j * n \in Nat /\ m * s + k \in Nat /\ m * r + k \in Nat /\ s * d \in Nat
  OBVIOUS
<1>2. w \in Nat /\ v \in Nat
  BY <1>1
<1>3. r * (x * n) <= r * (w + j * n)
  <2>. DEFINE xn == x * n
              b == w + j * n
  <2>1. xn \in Nat /\ b \in Nat /\ xn <= b
    BY <1>1, <1>2
  <2>. HIDE DEF xn, b
  <2>. QED  BY <2>1
<1>4. r * (w + j * n) = r * w + r * (j * n)
  <2>. DEFINE jn == j * n
  <2>1. jn \in Nat
    BY <1>1
  <2>. HIDE DEF w, jn
  <2>. QED  BY <1>2, <2>1
<1>5. r * (x * n) = x * (r * n) /\ r * (j * n) = j * (r * n)
  OBVIOUS
<1>6. r * w <= v
  <2>1. r * (m * s + k) <= s * (m * r + k)
    <3>1. r * (m * s + k) = s * (m * r) + r * k /\ s * (m * r + k) = s * (m * r) + s * k
      OBVIOUS
    <3>2. r * k <= s * k /\ r * k \in Nat /\ s * k \in Nat /\ s * (m * r) \in Nat
      OBVIOUS
    <3>. DEFINE a == s * (m * r)
                b == r * k
                c == s * k
    <3>3. r * (m * s + k) = a + b /\ s * (m * r + k) = a + c /\ b <= c
          /\ a \in Nat /\ b \in Nat /\ c \in Nat
      BY <3>1, <3>2
    <3>. HIDE DEF a, b, c
    <3>. QED  BY <3>3
  <2>. DEFINE f == m * s + k
              g == m * r + k
  <2>2. f \in Nat /\ g \in Nat /\ r * f <= s * g /\ w = f * d /\ v = g * (s * d)
    BY <1>1, <2>1
  <2>. HIDE DEF f, g, w, v
  <2>3. r * w = (r * f) * d /\ v = (s * g) * d
    BY <2>2
  <2>4. r * f \in Nat /\ s * g \in Nat
    BY <2>2
  <2>. DEFINE rf == r * f
              sg == s * g
  <2>5. rf \in Nat /\ sg \in Nat /\ rf <= sg /\ r * w = rf * d /\ v = sg * d
    BY <2>2, <2>3, <2>4
  <2>. HIDE DEF rf, sg
  <2>6. rf * d <= sg * d
    BY <2>5
  <2>. QED  BY <2>5, <2>6
<1>7. r * w \in Nat /\ j * (r * n) \in Nat /\ x * (r * n) \in Nat
  <2>1. r * n \in Nat
    OBVIOUS
  <2>2. j * (r * n) \in Nat /\ x * (r * n) \in Nat
    BY <2>1
  <2>. HIDE DEF w
  <2>. QED  BY <1>2, <2>2
<1>. DEFINE p == x * (r * n)
            q == j * (r * n)
            u == r * w
<1>8. p <= u + q /\ u <= v /\ p \in Nat /\ q \in Nat /\ u \in Nat
  BY <1>3, <1>4, <1>5, <1>6, <1>7
<1>. HIDE DEF p, q, u, v
<1>9. p <= v + q
  BY <1>2, <1>8
<1>. QED  BY <1>9 DEF p, q, v

(* What a close leaves, with its share rounded down.                       *)
LEMMA CloseRounds ==
    ASSUME NEW s \in Nat \ {0}, NEW r \in Nat, NEW z \in Nat, s = r + z, NEW x \in Nat,
           NEW t \in Nat, NEW j \in Nat, NEW n \in Nat, NEW d \in Nat \ {0}, n <= d,
           x * (r * n) <= t * (s * d) + j * (r * n)
    PROVE  /\ (x * z) \div s \in Nat /\ (x * z) \div s <= x
           /\ (r = 0 => (x * z) \div s = x)
           /\ (x - (x * z) \div s) * n <= (t + 1) * d + j * n
           /\ (x * z) % s = 0 \/ (n = 1 /\ d = 1) =>
                (x - (x * z) \div s) * n <= t * d + j * n
<1>. DEFINE g == x * z
            q == g \div s
            e == g % s
            y == x - q
<1>1. g \in Nat
  OBVIOUS
<1>2. q \in Nat /\ e \in 0..(s - 1) /\ g = s * q + e
  <2>. HIDE DEF g
  <2>. QED  BY <1>1
<1>. HIDE DEF q, e
<1>3. g = x * s - x * r /\ x * r \in Nat /\ x * s \in Nat /\ s * q \in Nat /\ x * s = s * x
  BY <1>2
<1>. HIDE DEF g
<1>4. q <= x
  <2>. SUFFICES ASSUME q >= x + 1 PROVE FALSE
    BY <1>2
  <2>1. s * q >= s * (x + 1) /\ s * (x + 1) = x * s + s
    BY <1>2
  <2>. QED  BY <1>2, <1>3, <2>1
<1>5. ASSUME r = 0 PROVE q = x
  <2>1. g = x * s
    BY <1>3, <1>5
  <2>. SUFFICES ASSUME q <= x - 1 PROVE FALSE
    BY <1>2, <1>4
  <2>2. s * q <= s * (x - 1) /\ s * (x - 1) = x * s - s
    BY <1>2
  <2>. QED  BY <1>2, <1>3, <2>1, <2>2
<1>6. y \in Nat /\ s * y = x * r + e
  <2>1. s * (x - q) = s * x - s * q
    BY <1>2
  <2>. QED  BY <1>2, <1>3, <1>4, <2>1
<1>. HIDE DEF y
<1>. DEFINE a == y * n
            b == t * d + j * n
<1>7. a \in Nat /\ b \in Nat
  BY <1>6
<1>8. e * n \in Nat /\ s * a <= s * b + e * n
  <2>1. s * a = (s * y) * n
    BY <1>6
  <2>2. (x * r + e) * n = (x * r) * n + e * n /\ (x * r) * n = x * (r * n)
    <3>. DEFINE xr == x * r
    <3>1. xr \in Nat
      BY <1>3
    <3>2. (x * r) * n = x * (r * n)
      OBVIOUS
    <3>. HIDE DEF xr
    <3>3. (xr + e) * n = xr * n + e * n
      BY <1>2, <3>1
    <3>. QED  BY <3>2, <3>3 DEF xr
  <2>3. s * b = t * (s * d) + s * (j * n)
    <3>1. t * d \in Nat /\ j * n \in Nat
      OBVIOUS
    <3>. DEFINE td == t * d
                jn == j * n
    <3>2. s * (td + jn) = s * td + s * jn
      <4>1. td \in Nat /\ jn \in Nat
        BY <3>1
      <4>. HIDE DEF td, jn
      <4>. QED  BY <4>1
    <3>3. s * (t * d) = t * (s * d)
      OBVIOUS
    <3>. QED  BY <3>2, <3>3
  <2>4. j * (r * n) <= s * (j * n)
    <3>1. j * (r * n) = r * (j * n) /\ j * n \in Nat /\ r <= s
      OBVIOUS
    <3>. DEFINE jn == j * n
    <3>2. jn \in Nat
      BY <3>1
    <3>. HIDE DEF jn
    <3>3. r * jn <= s * jn
      BY <3>1, <3>2
    <3>. QED  BY <3>1, <3>3 DEF jn
  <2>5. e * n \in Nat /\ t * (s * d) \in Nat /\ s * (j * n) \in Nat /\ j * (r * n) \in Nat
        /\ x * (r * n) \in Nat
    <3>1. s * d \in Nat /\ j * n \in Nat /\ r * n \in Nat
      OBVIOUS
    <3>2. t * (s * d) \in Nat /\ s * (j * n) \in Nat /\ j * (r * n) \in Nat /\ x * (r * n) \in Nat
      BY <3>1
    <3>. QED  BY <1>2, <3>2
  <2>. DEFINE en == e * n
              p == x * (r * n)
              u == t * (s * d)
              v == s * (j * n)
              w == j * (r * n)
              sa == s * a
              sb == s * b
  <2>6. sa = p + en /\ sb = u + v /\ p <= u + w /\ w <= v
        /\ en \in Nat /\ p \in Nat /\ u \in Nat /\ v \in Nat /\ w \in Nat
    BY <1>6, <2>1, <2>2, <2>3, <2>4, <2>5
  <2>. HIDE DEF en, p, u, v, w, sa, sb
  <2>7. en \in Nat /\ sa <= sb + en
    BY <2>6
  <2>. QED  BY <2>7 DEF en, sa, sb
<1>9. a <= b + d
  <2>1. e * n <= s * d
    <3>1. e * n <= s * n /\ s * n <= s * d /\ e * n \in Nat /\ s * n \in Nat /\ s * d \in Nat
      BY <1>2
    <3>. QED  BY <3>1
  <2>2. s * (b + d) = s * b + s * d
    <3>. HIDE DEF b
    <3>. QED  BY <1>7
  <2>3. s * a <= s * (b + d)
    <3>. DEFINE sa == s * a
                sb == s * b
                en == e * n
                sd == s * d
    <3>1. sa \in Nat /\ sb \in Nat /\ en \in Nat /\ sd \in Nat
      <4>. HIDE DEF a, b
      <4>. QED  BY <1>7, <1>8
    <3>2. sa <= sb + en /\ en <= sd /\ s * (b + d) = sb + sd
      BY <1>8, <2>1, <2>2
    <3>. HIDE DEF sa, sb, en, sd
    <3>3. sa <= s * (b + d)
      BY <3>1, <3>2
    <3>. QED  BY <3>3 DEF sa
  <2>4. b + d \in Nat
    BY <1>7
  <2>. DEFINE c == b + d
  <2>5. c \in Nat /\ s * a <= s * c
    BY <2>3, <2>4
  <2>. HIDE DEF a, c
  <2>6. a <= c
    BY <1>7, <2>5
  <2>. QED  BY <2>6 DEF c
<1>10. ASSUME e = 0 \/ (n = 1 /\ d = 1) PROVE a <= b
  <2>1. e * n < s
    <3>1. CASE e = 0
      BY <3>1
    <3>2. CASE n = 1
      BY <1>2, <3>2
    <3>. QED  BY <1>10, <3>1, <3>2
  <2>. DEFINE en == e * n
  <2>2. en \in Nat /\ en < s /\ s * a <= s * b + en
    BY <1>8, <2>1
  <2>. HIDE DEF a, b, en
  <2>. SUFFICES ASSUME a >= b + 1 PROVE FALSE
    BY <1>7
  <2>3. s * a >= s * (b + 1) /\ s * (b + 1) = s * b + s
    BY <1>7
  <2>4. s * a \in Nat /\ s * b \in Nat
    BY <1>7
  <2>. QED  BY <2>2, <2>3, <2>4
<1>11. (t + 1) * d + j * n = b + d
  <2>1. (t + 1) * d = t * d + d /\ t * d \in Nat /\ j * n \in Nat
    OBVIOUS
  <2>. QED  BY <2>1
<1>. QED  BY <1>2, <1>4, <1>5, <1>9, <1>10, <1>11 DEF q, e, g, y

(* The first part goes.                                                    *)
LEMMA NextPart ==
    ASSUME queue \in Seq(TradedParts), queue # <<>>, queue' = Tail(queue), lots' = lots, Chained
    PROVE  /\ queue' \in Seq(TradedParts) /\ Chained'
           /\ Head(queue) \in TradedParts
           /\ SourceAt = StartOf(Head(queue)) /\ SourceAt' = EndOf(Head(queue))
<1>. DEFINE rest == Tail(queue)
<1>1. /\ Len(queue) \in Nat \ {0} /\ Head(queue) = queue[1] /\ Head(queue) \in TradedParts
      /\ queue' \in Seq(TradedParts) /\ Len(queue') = Len(queue) - 1
      /\ (queue' = <<>> <=> Len(queue) = 1)
      /\ \A i \in 1..Len(queue') : queue'[i] = queue[i + 1]
  <2>1. Len(queue) \in Nat \ {0} /\ Head(queue) = queue[1] /\ Head(queue) \in TradedParts
    OBVIOUS
  <2>2. rest \in Seq(TradedParts) /\ Len(rest) = Len(queue) - 1
    OBVIOUS
  <2>3. rest = <<>> <=> Len(rest) = 0
    <3>. HIDE DEF rest
    <3>. QED  BY <2>2
  <2>4. ASSUME NEW i \in 1..Len(rest) PROVE rest[i] = queue[i + 1]
    OBVIOUS
  <2>5. queue' = rest
    OBVIOUS
  <2>. HIDE DEF rest
  <2>. QED  BY <2>1, <2>2, <2>3, <2>4, <2>5
<1>2. EndOf(queue[1]) = IF 1 = Len(queue) THEN lots ELSE StartOf(queue[2])
  <2>1. 1 \in 1..Len(queue) /\ 1 + 1 = 2
    BY <1>1
  <2>. QED  BY <2>1 DEF Chained
<1>3. SourceAt' = EndOf(queue[1])
  <2>1. CASE Len(queue) = 1
    BY <1>1, <1>2, <2>1 DEF SourceAt
  <2>2. CASE Len(queue) # 1
    <3>1. queue'[1] = queue[2]
      BY <1>1, <2>2
    <3>. QED  BY <1>1, <1>2, <2>2, <3>1 DEF SourceAt
  <2>. QED  BY <2>1, <2>2
<1>4. Chained'
  <2>. SUFFICES ASSUME NEW i \in 1..Len(queue')
                PROVE  EndOf(queue'[i]) = IF i = Len(queue') THEN lots' ELSE StartOf(queue'[i + 1])
    BY DEF Chained
  <2>1. i + 1 \in 1..Len(queue) /\ queue'[i] = queue[i + 1] /\ i \in Int
    BY <1>1
  <2>2. EndOf(queue[i + 1]) = IF i + 1 = Len(queue) THEN lots ELSE StartOf(queue[i + 1 + 1])
    BY <2>1 DEF Chained
  <2>3. CASE i = Len(queue')
    BY <1>1, <2>1, <2>2, <2>3
  <2>4. CASE i # Len(queue')
    <3>1. i + 1 \in 1..Len(queue') /\ i + 1 # Len(queue)
      <4>. DEFINE k == Len(queue')
                  n == Len(queue)
      <4>1. n \in Nat /\ k = n - 1 /\ i \in 1..k /\ i # k
        BY <1>1, <2>4
      <4>. HIDE DEF k, n
      <4>2. i + 1 \in 1..k /\ i + 1 # n
        BY <4>1
      <4>. QED  BY <4>2 DEF k, n
    <3>2. queue'[i + 1] = queue[i + 1 + 1]
      <4>. DEFINE j == i + 1
      <4>1. j \in 1..Len(queue')
        BY <3>1
      <4>. HIDE DEF j
      <4>2. queue'[j] = queue[j + 1]
        BY <1>1, <4>1
      <4>. QED  BY <4>2 DEF j
    <3>. QED  BY <2>1, <2>2, <2>4, <3>1, <3>2
  <2>. QED  BY <2>3, <2>4
<1>. QED  BY <1>1, <1>3, <1>4 DEF SourceAt

LEMMA RatioIsNat == LargestRatio \in Nat /\ \A e \in Equities : e \in Nat /\ Ratio * e <= LargestRatio
<1>. DEFINE most == CHOOSE x \in Equities : \A f \in Equities : f <= x
<1>1. most \in Equities /\ \A f \in Equities : f <= most
  BY DecisionAssumption
<1>2. LargestRatio = Ratio * most
  BY DEF LargestRatio
<1>. HIDE DEF most
<1>3. ASSUME NEW e \in Equities PROVE e \in Nat /\ Ratio * e <= Ratio * most
  <2>1. e \in Nat /\ most \in Nat /\ Ratio \in Nat /\ e <= most
    BY <1>1, DecisionAssumption
  <2>. QED  BY <2>1
<1>. QED  BY <1>1, <1>2, <1>3, DecisionAssumption

(* The first order reaches the proportion or the minimum; a later one does *)
(* not pass the proportion, but for being rounded up to a minimum order.   *)
LEMMA EntryTracks ==
    ASSUME DecisionInv, NEW part \in SoundParts, EntrySize(part) # 0
    PROVE  copy.size + EntrySize(part) <= LargestRatio * (part.start + part.size) + MinOrder
<1>1. equity \in Nat /\ copy.size \in Nat /\ MinOrder \in Nat /\ Ratio \in Nat /\ LargestRatio \in Nat
      /\ Ratio * equity <= LargestRatio
  BY FlatIs, RatioIsNat, DecisionAssumption DEF DecisionInv
<1>2. part.start \in Nat /\ part.size \in Nat
  BY DEF SoundParts
<1>. DEFINE e == Ratio * equity
            t == part.start + part.size
            d == e * t
            own == e * part.size
            room == Room
<1>3. t \in Nat /\ e \in Nat /\ d \in Nat /\ own \in Nat /\ room \in Int
  BY <1>1, <1>2, RoomIs
<1>4. d <= LargestRatio * t /\ LargestRatio * t \in Nat
  <2>1. e \in Nat /\ t \in Nat /\ LargestRatio \in Nat /\ e <= LargestRatio
    BY <1>1, <1>3
  <2>. HIDE DEF e, t
  <2>. QED  BY <2>1
<1>5. OpeningSize(part, room) =
        (CASE d < MinOrder -> IF MinOrder <= room THEN MinOrder ELSE 0
           [] d >= MinOrder /\ d <= room -> d
           [] d >= MinOrder /\ d > room -> IF room >= MinOrder THEN room ELSE 0)
  BY DEF OpeningSize
<1>. DEFINE allowed == Lesser(Lesser(d - copy.size, own + MinOrder), IF room > 0 THEN room ELSE 0)
<1>6. AddSize(part, room) =
        (CASE allowed <= 0 -> 0
           [] allowed >= MinOrder -> allowed
           [] allowed > 0 /\ allowed < MinOrder ->
                IF 2 * allowed >= MinOrder /\ MinOrder <= room THEN MinOrder ELSE 0)
  BY DEF AddSize
<1>7. EntrySize(part) = IF copy = Flat THEN OpeningSize(part, room) ELSE AddSize(part, room)
  BY DEF EntrySize
<1>8. copy = Flat => copy.size = 0
  BY DEF Flat
<1>. DEFINE most == LargestRatio * t
<1>. SUFFICES copy.size + EntrySize(part) <= most + MinOrder
  OBVIOUS
<1>9. d <= most /\ most \in Nat
  BY <1>4
<1>. HIDE DEF d, own, room, e, most
<1>10. CASE copy = Flat
  BY <1>1, <1>3, <1>5, <1>7, <1>8, <1>9, <1>10
<1>11. CASE copy # Flat
  <2>1. allowed \in Int /\ (allowed > 0 => allowed <= d - copy.size)
    BY <1>1, <1>3 DEF Lesser
  <2>. HIDE DEF allowed
  <2>. QED  BY <1>1, <1>3, <1>6, <1>7, <1>9, <1>11, <2>1
<1>. QED  BY <1>10, <1>11

LEMMA MostIs ==
    ASSUME NEW e \in Equities
    PROVE  SourceMultiple * e <= MostCopied /\ SourceMultiple * e \in Nat
<1>. DEFINE most == CHOOSE x \in Equities : \A f \in Equities : f <= x
<1>1. most \in Equities /\ \A f \in Equities : f <= most
  BY DecisionAssumption
<1>2. MostCopied = SourceMultiple * most
  BY DEF MostCopied
<1>. HIDE DEF most
<1>3. e \in Nat /\ most \in Nat /\ SourceMultiple \in Nat /\ e <= most
  BY <1>1, DecisionAssumption
<1>. QED  BY <1>2, <1>3

LEMMA SkippedIs ==
    ASSUME MinOrder # 0, tiny \in Nat
    PROVE  MinOrder \in Nat \ {0} /\ Skipped \in Nat /\ Skipped <= tiny /\ Skipped < MinOrder
           /\ (tiny < MinOrder => Skipped = tiny)
BY DecisionAssumption DEF Skipped, Lesser

LEMMA EntryFollows ==
    ASSUME TracksInv, MinOrder # 0, ApplyEntry
    PROVE  TracksInv'
<1>. DEFINE part == Head(queue)
<1>1. DecisionInv' /\ GrowsWithinCaps
  BY EntryKeeps DEF TracksInv
<1>2. queue # <<>> /\ IsEntry(part) /\ queue' = Tail(queue) /\ UNCHANGED <<lots, late, rounded, equity, others>>
  BY DEF ApplyEntry
<1>3. /\ queue' \in Seq(TradedParts) /\ Chained' /\ part \in TradedParts
      /\ SourceAt = StartOf(part) /\ SourceAt' = EndOf(part)
  BY <1>2, NextPart DEF TracksInv
<1>4. PICK decided, allocated \in BOOLEAN :
        LET size == IF decided /\ Prechecked(part, allocated) THEN EntrySize(part) ELSE 0
        IN /\ copy' = IF size = 0 THEN copy ELSE [side |-> part.side, size |-> copy.size + size]
           /\ tiny' = IF copy = Flat THEN 0 ELSE tiny
  BY DEF ApplyEntry
<1>. DEFINE size == IF decided /\ Prechecked(part, allocated) THEN EntrySize(part) ELSE 0
<1>5. copy' = IF size = 0 THEN copy ELSE [side |-> part.side, size |-> copy.size + size]
  BY <1>4
<1>6. /\ part.side \in {"long", "short"} /\ part.start \in Nat /\ part.size \in Nat
      /\ EndSize(part) = part.start + part.size /\ EndSize(part) # 0
      /\ Abs(SourceAt) = part.start /\ Abs(SourceAt') = part.start + part.size
      /\ SideOf(SourceAt) = (IF part.start = 0 THEN "none" ELSE part.side)
      /\ SideOf(SourceAt') = part.side
  BY <1>2, <1>3, EndsAre DEF EndSize
<1>7. copy \in Copies /\ copy.size \in Nat /\ tiny \in Nat /\ tiny' \in Nat
      /\ (copy.side = "none" <=> copy.size = 0) /\ (copy = Flat <=> copy.size = 0)
  BY <1>1, FlatIs, MostCopiedIsNat DEF TracksInv, DecisionInv, Copies
<1>8. part \in SoundParts
  BY <1>3 DEF TradedParts
<1>9. size # 0 => size = EntrySize(part)
  OBVIOUS
<1>10. size \in Nat
  BY <1>8, EntryFits DEF TracksInv
<1>11. LargestRatio \in Nat /\ MinOrder \in Nat \ {0} /\ Skipped \in Nat /\ (Skipped)' \in Nat
  <2>1. (Skipped)' \in Nat
    BY <1>7, DecisionAssumption DEF Skipped, Lesser
  <2>. QED  BY <1>7, <2>1, RatioIsNat, SkippedIs
<1>. DEFINE m == LargestRatio
            s == part.start
            z == part.size
<1>12. m * s \in Nat /\ m * (s + z) \in Nat /\ m * s <= m * (s + z)
  <2>1. m \in Nat /\ s \in Nat /\ z \in Nat
    BY <1>6, <1>11
  <2>. HIDE DEF m, s, z
  <2>. QED  BY <2>1
<1>15. rounded \in Nat /\ rounded' = rounded /\ late' = late
  BY <1>2, MostRoundedIsNat DEF TracksInv, DecisionInv
<1>13. Follows'
  <2>1. CASE size = 0
    <3>1. copy' = copy
      BY <1>5, <2>1
    <3>2. CASE copy.size < MinOrder
      BY <3>1, <3>2 DEF Follows
    <3>3. CASE ~(copy.size < MinOrder)
      <4>1. PICK num, den : Leaves(late, copy.side, num, den) /\ Near(num, den)
        BY <3>3 DEF Follows, TracksInv
      <4>2. copy # Flat /\ tiny' = tiny
        BY <1>4, <1>7, <1>11, <3>3
      <4>3. (Skipped)' = Skipped
        BY <4>2 DEF Skipped
      <4>4. num = 0 \/ copy.side = SideOf(SourceAt')
        BY <1>6, <1>7, <4>1, <4>2 DEF Near
      <4>5. num \in Nat /\ den \in Nat \ {0}
        BY <4>1, LeavesNat DEF TracksInv
      <4>6. \/ rounded = MostRounded
            \/ copy.size * num <= (m * (s + z) + MinOrder + rounded) * den + Skipped * num
        <5>. DEFINE a == m * s
                    b == m * (s + z)
                    p == copy.size * num
                    q == Skipped * num
        <5>1. a \in Nat /\ b \in Nat /\ a <= b /\ p \in Nat /\ q \in Nat
          BY <1>7, <1>11, <1>12, <4>5
        <5>2. rounded = MostRounded \/ p <= (a + MinOrder + rounded) * den + q
          BY <1>6, <4>1 DEF Near
        <5>. HIDE DEF a, b, p, q
        <5>3. (a + MinOrder + rounded) * den <= (b + MinOrder + rounded) * den
              /\ (a + MinOrder + rounded) * den \in Nat /\ (b + MinOrder + rounded) * den \in Nat
          <6>. DEFINE f == a + MinOrder + rounded
                      g == b + MinOrder + rounded
          <6>1. f \in Nat /\ g \in Nat /\ f <= g
            BY <1>11, <1>15, <5>1
          <6>. HIDE DEF f, g
          <6>2. f * den <= g * den /\ f * den \in Nat /\ g * den \in Nat
            BY <4>5, <6>1
          <6>. QED  BY <6>2 DEF f, g
        <5>. DEFINE f == (a + MinOrder + rounded) * den
                    g == (b + MinOrder + rounded) * den
        <5>4. rounded = MostRounded \/ p <= g + q
          <6>1. f \in Nat /\ g \in Nat /\ f <= g
            BY <5>3
          <6>2. rounded = MostRounded \/ p <= f + q
            BY <5>2
          <6>. HIDE DEF f, g
          <6>. QED  BY <5>1, <6>1, <6>2
        <5>. QED  BY <5>4 DEF b, p, q
      <4>7. Near(num, den)'
        BY <1>2, <1>6, <3>1, <4>3, <4>4, <4>6 DEF Near
      <4>. QED  BY <1>2, <3>1, <4>1, <4>7 DEF Follows
    <3>. QED  BY <3>2, <3>3
  <2>2. CASE size # 0
    <3>1. copy'.side = part.side /\ copy'.size = copy.size + size
      BY <1>5, <2>2
    <3>2. copy.size + size <= m * (s + z) + MinOrder
      BY <1>8, <1>9, <2>2, EntryTracks DEF TracksInv
    <3>3. PICK num, den : Leaves(late, part.side, num, den)
      BY <1>6 DEF TracksInv
    <3>4. num \in Nat /\ den \in Nat \ {0} /\ num <= den
      BY <3>3, LeavesNat DEF TracksInv
    <3>5. copy'.size * num <= (m * (s + z) + MinOrder + rounded) * den + (Skipped)' * num
      <4>. DEFINE b == m * (s + z)
                  j == (Skipped)'
                  c == copy'.size
                  g == b + MinOrder + rounded
      <4>1. b \in Nat /\ j \in Nat /\ c <= b + MinOrder /\ c \in Nat
        BY <1>7, <1>10, <1>11, <1>12, <3>1, <3>2
      <4>2. g \in Nat /\ c <= g
        <5>. HIDE DEF b, c
        <5>. QED  BY <1>11, <1>15, <4>1
      <4>. HIDE DEF b, j, c, g
      <4>3. c * num <= c * den /\ c * den <= g * den /\ j * num \in Nat
            /\ c * num \in Nat /\ c * den \in Nat /\ g * den \in Nat
        BY <3>4, <4>1, <4>2
      <4>4. c * num <= g * den + j * num
        BY <4>3
      <4>. QED  BY <4>4 DEF b, j, c, g
    <3>6. Near(num, den)'
      BY <1>2, <1>6, <3>1, <3>5 DEF Near
    <3>. QED  BY <1>2, <3>1, <3>3, <3>6 DEF Follows
  <2>. QED  BY <2>1, <2>2
<1>14. copy'.size <= MostCopied
  <2>1. CASE copy'.size > copy.size
    <3>1. copy'.size <= SourceMultiple * equity
      BY <1>1, <2>1 DEF GrowsWithinCaps
    <3>2. SourceMultiple * equity <= MostCopied /\ SourceMultiple * equity \in Nat /\ copy'.size \in Nat
      BY <1>1, MostIs, FlatIs DEF TracksInv, DecisionInv
    <3>. QED  BY <3>1, <3>2, MostCopiedIsNat
  <2>2. CASE ~(copy'.size > copy.size)
    <3>1. copy'.size \in Nat
      BY <1>1, FlatIs DEF DecisionInv
    <3>. QED  BY <1>7, <2>2, <3>1, MostCopiedIsNat DEF TracksInv
  <2>. QED  BY <2>1, <2>2
<1>. QED  BY <1>1, <1>2, <1>3, <1>13, <1>14 DEF TracksInv

(* A close of a part that is due: of the copy that exits leave n of d once *)
(* it is done, it takes its share, and what it rounds or skips is counted. *)
LEMMA CloseNear ==
    ASSUME DecisionInv, copy.size <= MostCopied, MinOrder # 0, NEW part \in LateParts,
           NEW known \in BOOLEAN, NEW waiting, ClosePart(part, known, waiting), ~Opposite(part),
           NEW n \in Nat, NEW d \in Nat \ {0}, n <= d, waiting = <<>> => n = 1 /\ d = 1,
           NEW t \in Nat,
           \/ rounded = MostRounded
           \/ copy.size * (EndSize(part) * n)
                 <= (t + rounded) * (part.start * d) + Skipped * (EndSize(part) * n),
           ~(copy'.size < MinOrder)
    PROVE  /\ copy'.side = copy.side /\ EndSize(part) # 0
           /\ \/ rounded' = MostRounded
              \/ copy'.size * n <= (t + rounded') * d + (Skipped)' * n
<1>. DEFINE s == part.start
            z == part.size
            r == EndSize(part)
            x == copy.size
            j == Skipped
            q == (x * z) \div s
            share == Share(part, known)
            size == CloseSize(part, known)
<1>1. s \in Nat \ {0} /\ z \in Nat /\ r \in Nat /\ s = r + z /\ r <= s /\ part \in Exits
  BY LateSizes
<1>3. copy' \in Copies /\ x' <= x /\ tiny' \in 0..MostCopied
  BY <1>1, ClosesShrink
<1>4. x \in Nat /\ x' \in Nat /\ tiny \in Nat /\ tiny' \in Nat /\ MostCopied \in Nat /\ x <= MostCopied
      /\ (copy = Flat <=> x = 0) /\ copy \in Copies /\ rounded \in 0..MostRounded /\ MostRounded \in Nat
  BY <1>3, FlatIs, MostCopiedIsNat, MostRoundedIsNat DEF DecisionInv
<1>5. /\ MinOrder \in Nat \ {0} /\ j \in Nat /\ j <= tiny
      /\ (tiny < MinOrder => j = tiny)
  BY <1>4, SkippedIs
<1>6. /\ j' \in Nat /\ (tiny' = tiny => j' = j)
      /\ (tiny' < MinOrder => j' = tiny')
  BY <1>4, <1>5 DEF Skipped, Lesser
<1>7. share \in 0..x /\ size \in 0..x
  BY <1>1, CloseFits
<1>8. ~(x < MinOrder) /\ copy # Flat /\ x # 0
  BY <1>3, <1>4, <1>5
<1>9. q \in Nat /\ q <= x /\ (r = 0 => q = x)
  <2>1. x * (r * 0) <= 0 * (s * 1) + 0 * (r * 0)
    <3>1. r * 0 = 0 /\ s * 1 = s /\ 0 * s = 0 /\ x * 0 = 0 /\ 0 * 0 = 0
      BY <1>1, <1>4
    <3>. QED  BY <3>1
  <2>. HIDE DEF s, z, r, x
  <2>. QED  BY <1>1, <1>4, <2>1, CloseRounds
<1>10. share = (IF SourceLeft(known) THEN x ELSE Lesser(x, q))
  BY DEF Share
<1>11. size = (CASE SourceLeft(known) \/ share >= MinOrder -> share
                 [] ~SourceLeft(known) /\ share < MinOrder ->
                      IF Lesser(share + tiny, x) >= MinOrder THEN Lesser(share + tiny, x) ELSE 0)
  BY DEF CloseSize
<1>12. copy' # Flat
  BY <1>5 DEF Flat
(* What it takes, and what it skips, is its share.                         *)
<1>13. copy'.side = copy.side /\ r # 0 /\ x' - j' <= x - q - j
  <2>2. ASSUME ~SourceLeft(known)
        PROVE  share = q
    <3>. HIDE DEF share, q, x
    <3>. QED  BY <1>4, <1>9, <1>10, <2>2 DEF Lesser
  <2>. HIDE DEF q, r, share, size, j
  <2>3. CASE share = 0
    <3>1. UNCHANGED <<copy, tiny>>
      BY <2>3 DEF ClosePart, share
    <3>2. ~SourceLeft(known)
      BY <1>4, <1>8, <1>10, <2>3
    <3>3. q = 0
      BY <2>2, <2>3, <3>2
    <3>4. r # 0
      BY <1>4, <1>8, <1>9, <3>3
    <3>. QED  BY <1>4, <1>5, <1>6, <3>1, <3>3, <3>4
  <2>4. CASE share # 0
    <3>1. /\ copy' = IF size = copy.size THEN Flat ELSE [copy EXCEPT !.size = @ - size]
          /\ tiny' = IF size = 0 THEN Lesser(tiny + share, MostCopied)
                     ELSE IF size > share \/ size = copy.size THEN 0 ELSE tiny
      BY <1>8, <2>4 DEF ClosePart, share, size
    <3>2. size # x
      BY <1>12, <3>1
    <3>3. copy'.side = copy.side /\ x' = x - size
      <4>1. copy' = [copy EXCEPT !.size = x - size]
        BY <3>1, <3>2
      <4>. QED  BY <1>4, <4>1 DEF Copies
    <3>4. ~SourceLeft(known)
      BY <1>10, <1>11, <3>2
    <3>5. share = q
      BY <2>2, <3>4
    <3>6. size = (IF share >= MinOrder THEN share
                  ELSE IF Lesser(share + tiny, x) >= MinOrder THEN Lesser(share + tiny, x) ELSE 0)
      BY <1>5, <1>7, <1>11, <3>4
    <3>. HIDE DEF x
    <3>7. CASE share >= MinOrder
      <4>1. size = share /\ size # 0
        BY <2>4, <3>6, <3>7
      <4>2. tiny' = tiny
        BY <1>7, <3>1, <3>2, <4>1 DEF x
      <4>3. r # 0
        BY <1>9, <3>2, <3>5, <4>1
      <4>. QED  BY <1>4, <1>5, <1>6, <1>7, <3>3, <3>5, <4>1, <4>2, <4>3
    <3>8. CASE share < MinOrder
      <4>0. share \in Nat /\ share # x
        BY <1>4, <1>5, <1>7, <1>8, <3>8
      <4>1. r # 0
        BY <1>9, <3>5, <4>0
      <4>2. CASE Lesser(share + tiny, x) >= MinOrder
        <5>1. size = share + tiny
          BY <1>4, <1>5, <3>2, <3>6, <3>8, <4>0, <4>2 DEF Lesser
        <5>2. x' = x - (q + tiny) /\ q \in Nat
          BY <3>3, <3>5, <4>0, <5>1
        <5>3. x' - j' <= x - q - j
          <6>. DEFINE y == x'
                      i == j'
          <6>1. y = x - (q + tiny) /\ q \in Nat /\ x \in Nat /\ tiny \in Nat /\ j \in Nat
                /\ j <= tiny /\ i \in Nat
            BY <1>4, <1>5, <1>6, <5>2
          <6>. HIDE DEF y, i
          <6>2. y - i <= x - q - j
            BY <6>1
          <6>. QED  BY <6>2 DEF y, i
        <5>. QED  BY <3>3, <4>1, <5>3
      <4>3. CASE ~(Lesser(share + tiny, x) >= MinOrder)
        <5>1. size = 0 /\ share + tiny < MinOrder
          BY <1>4, <1>5, <1>8, <3>6, <3>8, <4>0, <4>3 DEF Lesser
        <5>2. tiny' = Lesser(tiny + share, MostCopied)
          BY <3>1, <5>1
        <5>3. tiny' = tiny + share
          BY <1>4, <1>5, <1>8, <4>0, <5>1, <5>2 DEF Lesser
        <5>4. j = tiny /\ j' = tiny + share
          BY <1>4, <1>5, <1>6, <4>0, <5>1, <5>3
        <5>. QED  BY <1>4, <1>5, <3>3, <3>5, <4>0, <4>1, <5>1, <5>4
      <4>. QED  BY <4>2, <4>3
    <3>. QED  BY <1>5, <1>7, <3>7, <3>8
  <2>. QED  BY <2>3, <2>4
(* And what it rounds is counted while others wait.                        *)
<1>14. ASSUME rounded' # MostRounded
       PROVE  x' * n <= (t + rounded') * d + j' * n
  <2>1. rounded' = IF Rounds(part, waiting) THEN Lesser(rounded + 1, MostRounded) ELSE rounded
    BY <1>12 DEF ClosePart
  <2>2. rounded # MostRounded
    BY <1>4, <1>14, <2>1 DEF Lesser
  <2>3. x * (r * n) <= (t + rounded) * (s * d) + j * (r * n)
    BY <2>2
  <2>. DEFINE k == t + rounded
  <2>4. k \in Nat
    BY <1>4
  <2>5. /\ (x - q) * n <= (k + 1) * d + j * n
        /\ (x * z) % s = 0 \/ (n = 1 /\ d = 1) => (x - q) * n <= k * d + j * n
    <3>1. x * (r * n) <= k * (s * d) + j * (r * n)
      BY <2>3
    <3>. HIDE DEF k, s, z, r, x, j
    <3>. QED  BY <1>1, <1>4, <1>5, <2>4, <3>1, CloseRounds
  <2>6. (x - q) * n <= (t + rounded') * d + j * n
    <3>1. CASE Rounds(part, waiting)
      <4>1. rounded' = rounded + 1
        BY <1>4, <1>14, <2>1, <3>1 DEF Lesser
      <4>2. t + rounded' = k + 1
        BY <1>4, <4>1
      <4>. QED  BY <2>5, <4>2
    <3>2. CASE ~Rounds(part, waiting)
      <4>1. rounded' = rounded
        BY <2>1, <3>2
      <4>2. (x * z) % s = 0 \/ (n = 1 /\ d = 1)
        BY <3>2 DEF Rounds
      <4>. QED  BY <2>5, <4>1, <4>2
    <3>. QED  BY <3>1, <3>2
  <2>. DEFINE g == (t + rounded') * d
              y == x - q
              c == x'
              i == j'
  <2>7. y \in Nat /\ c \in Nat /\ i \in Nat /\ c + j <= y + i /\ y * n <= g + j * n
    <3>. HIDE DEF q, x, j, g
    <3>1. x - q \in Nat /\ c \in Nat /\ i \in Nat
      BY <1>4, <1>6, <1>9
    <3>2. c + j <= y + i
      <4>1. c - i <= y - j /\ y \in Nat
        BY <1>13, <3>1
      <4>. HIDE DEF c, i, y
      <4>. QED  BY <1>5, <3>1, <4>1
    <3>. QED  BY <2>6, <3>1, <3>2 DEF g
  <2>8. g \in Nat
    <3>1. t + rounded' \in Nat
      BY <1>4, <2>1 DEF Lesser
    <3>. DEFINE f == t + rounded'
    <3>2. f \in Nat
      BY <3>1
    <3>. HIDE DEF f
    <3>3. f * d \in Nat
      BY <3>2
    <3>. QED  BY <3>3 DEF f
  <2>9. c * n <= g + i * n
    <3>. HIDE DEF g, y, c, i, j
    <3>1. (c + j) * n <= (y + i) * n /\ (c + j) * n = c * n + j * n /\ (y + i) * n = y * n + i * n
      BY <1>5, <2>7
    <3>2. c * n \in Nat /\ j * n \in Nat /\ y * n \in Nat /\ i * n \in Nat
      BY <1>5, <2>7
    <3>. DEFINE cn == c * n
                jn == j * n
                yn == y * n
                in == i * n
    <3>3. cn + jn <= yn + in /\ yn <= g + jn /\ cn \in Nat /\ jn \in Nat /\ yn \in Nat /\ in \in Nat
      BY <2>7, <3>1, <3>2
    <3>. HIDE DEF cn, jn, yn, in
    <3>4. cn <= g + in
      BY <2>8, <3>3
    <3>. QED  BY <3>4 DEF cn, in
  <2>. QED  BY <2>9
<1>. QED  BY <1>13, <1>14

(* The exit of a fill, done at once or put aside.                          *)
LEMMA ExitFollows ==
    ASSUME TracksInv, MinOrder # 0, ApplyExit
    PROVE  TracksInv'
<1>. DEFINE part == Head(queue)
            m == LargestRatio
            s == part.start
            r == EndSize(part)
<1>1. DecisionInv' /\ ~(copy'.size > copy.size)
  BY ExitKeeps DEF TracksInv
<1>2. queue # <<>> /\ ~IsEntry(part) /\ queue' = Tail(queue) /\ UNCHANGED <<lots, equity, others>>
  BY DEF ApplyExit
<1>3. /\ queue' \in Seq(TradedParts) /\ Chained' /\ part \in TradedParts
      /\ SourceAt = StartOf(part) /\ SourceAt' = EndOf(part)
  BY <1>2, NextPart DEF TracksInv
<1>4. part \in LateParts
  BY <1>2, <1>3 DEF LateParts
<1>5. /\ part.side \in {"long", "short"} /\ s \in Nat \ {0} /\ r \in Nat /\ r <= s
      /\ Abs(SourceAt) = s /\ Abs(SourceAt') = r
      /\ SideOf(SourceAt) = part.side /\ SideOf(SourceAt') = (IF r = 0 THEN "none" ELSE part.side)
  BY <1>3, <1>4, LateSizes, EndsAre
<1>6. /\ copy.size \in Nat /\ copy'.size \in Nat /\ m \in Nat /\ MinOrder \in Nat \ {0}
      /\ Skipped \in Nat /\ rounded \in Nat /\ tiny \in Nat /\ (copy = Flat <=> copy.size = 0)
  <2>1. tiny \in Nat
    BY MostCopiedIsNat DEF TracksInv, DecisionInv
  <2>. QED  BY <1>1, <2>1, FlatIs, RatioIsNat, SkippedIs, MostRoundedIsNat DEF TracksInv, DecisionInv
<1>7. copy'.size <= MostCopied
  BY <1>1, <1>6, MostCopiedIsNat DEF TracksInv
<1>8. ASSUME ~(copy'.size < MinOrder)
      PROVE  \E num, den : Leaves(late, copy.side, num, den) /\ Near(num, den)
  BY <1>1, <1>6, <1>8 DEF Follows, TracksInv
(* The proportion of the source after it, of what then is to be left.      *)
<1>9. ASSUME NEW num \in Nat, NEW den \in Nat \ {0}, Near(num, den)
      PROVE  \/ rounded = MostRounded
             \/ copy.size * (r * num) <= (m * r + MinOrder + rounded) * (s * den) + Skipped * (r * num)
  <2>. DEFINE k == MinOrder + rounded
              x == copy.size
  <2>1. k \in Nat /\ x \in Nat /\ m * s \in Nat /\ m * r \in Nat
    <3>1. m * s \in Nat /\ m * r \in Nat
      <4>. HIDE DEF m, s, r
      <4>. QED  BY <1>5, <1>6
    <3>. QED  BY <1>6, <3>1
  <2>2. m * s + MinOrder + rounded = m * s + k /\ m * r + MinOrder + rounded = m * r + k
    <3>. DEFINE a == m * s
                b == m * r
    <3>1. a \in Nat /\ b \in Nat
      BY <2>1
    <3>. HIDE DEF a, b
    <3>2. a + MinOrder + rounded = a + k /\ b + MinOrder + rounded = b + k
      BY <1>6, <3>1
    <3>. QED  BY <3>2 DEF a, b
  <2>3. rounded = MostRounded \/ x * num <= (m * s + k) * den + Skipped * num
    BY <1>5, <1>9, <2>2 DEF Near
  <2>4. rounded = MostRounded \/ x * (r * num) <= (m * r + k) * (s * den) + Skipped * (r * num)
    <3>. HIDE DEF m, s, r, k, x
    <3>. QED  BY <1>5, <1>6, <2>1, <2>3, WaitScales
  <2>. QED  BY <2>2, <2>4
<1>10. CASE late' = late /\ \E known \in BOOLEAN : ClosePart(part, known, late)
  <2>1. PICK known \in BOOLEAN : ClosePart(part, known, late)
    BY <1>10
  <2>. SUFFICES Follows'
    BY <1>1, <1>3, <1>7, <1>10 DEF TracksInv
  <2>. SUFFICES ASSUME ~(copy'.size < MinOrder) PROVE Follows'
    BY DEF Follows
  <2>2. PICK num, den : Leaves(late, copy.side, num, den) /\ Near(num, den)
    BY <1>8
  <2>3. num \in Nat /\ den \in Nat \ {0} /\ num <= den
        /\ (late = <<>> => num = 1 /\ den = 1)
    BY <2>2, LeavesNat, LeavesAll DEF TracksInv
  <2>4. copy # Flat
    BY <1>1, <1>6
  <2>5. CASE Opposite(part)
    <3>1. num = 0
      BY <1>5, <2>2, <2>5 DEF Near, Opposite
    <3>2. UNCHANGED <<copy, tiny>> /\ rounded' = rounded
      BY <2>1, <2>4, <2>5 DEF ClosePart, Rounds
    <3>3. Near(num, den)'
      <4>1. m * r \in Nat
        <5>. HIDE DEF m, r
        <5>. QED  BY <1>5, <1>6
      <4>. DEFINE f == m * r + MinOrder + rounded
      <4>2. f \in Nat
        <5>. DEFINE b == m * r
        <5>1. b \in Nat
          BY <4>1
        <5>. HIDE DEF b
        <5>2. b + MinOrder + rounded \in Nat
          BY <1>6, <5>1
        <5>. QED  BY <5>2 DEF b
      <4>. HIDE DEF f
      <4>3. f * den \in Nat /\ copy.size * num = 0 /\ Skipped * num = 0
        BY <1>6, <2>3, <3>1, <4>2
      <4>4. copy.size * num <= f * den + Skipped * num
        BY <4>3
      <4>5. (Skipped)' = Skipped
        BY <3>2 DEF Skipped
      <4>. QED  BY <1>5, <3>1, <3>2, <4>4, <4>5 DEF Near, f
    <3>. QED  BY <1>10, <2>2, <3>2, <3>3 DEF Follows
  <2>6. CASE ~Opposite(part)
    <3>. DEFINE t == m * r + MinOrder
    <3>1. t \in Nat /\ m * r + MinOrder + rounded = t + rounded
      <4>1. m * r \in Nat
        <5>. HIDE DEF m, r
        <5>. QED  BY <1>5, <1>6
      <4>. QED  BY <1>6, <4>1
    <3>2. \/ rounded = MostRounded
          \/ copy.size * (r * num) <= (t + rounded) * (s * den) + Skipped * (r * num)
      BY <1>9, <2>2, <2>3, <3>1
    <3>. HIDE DEF t
    <3>3. /\ copy'.side = copy.side /\ r # 0
          /\ \/ rounded' = MostRounded
             \/ copy'.size * num <= (t + rounded') * den + (Skipped)' * num
      BY <1>4, <2>1, <2>3, <2>6, <3>1, <3>2, CloseNear DEF TracksInv
    <3>4. copy.side = part.side
      BY <2>4, <2>6 DEF Opposite
    <3>5. m * r + MinOrder + rounded' = t + rounded'
      BY DEF t
    <3>6. Near(num, den)'
      BY <1>5, <3>3, <3>4, <3>5 DEF Near
    <3>. QED  BY <1>10, <2>2, <3>3, <3>6 DEF Follows
  <2>. QED  BY <2>5, <2>6
<1>11. CASE /\ copy # Flat /\ ~Opposite(part)
            /\ late' = Append(late, part) /\ UNCHANGED <<copy, tiny, rounded>>
  <2>1. late' \in Seq(LateParts)
    BY <1>4, <1>11 DEF TracksInv
  <2>2. \A side \in {"long", "short"} : \E num, den : Leaves(late', side, num, den)
    <3>. SUFFICES ASSUME NEW side \in {"long", "short"}
                  PROVE  \E num, den : Leaves(late', side, num, den)
      OBVIOUS
    <3>1. PICK num, den : Leaves(late, side, num, den)
      BY DEF TracksInv
    <3>. QED  BY <1>4, <1>11, <3>1, LeavesMore DEF TracksInv
  <2>3. Follows'
    <3>. SUFFICES ASSUME ~(copy'.size < MinOrder) PROVE Follows'
      BY DEF Follows
    <3>1. PICK num, den : Leaves(late, copy.side, num, den) /\ Near(num, den)
      BY <1>8
    <3>2. num \in Nat /\ den \in Nat \ {0} /\ copy.side = part.side
      BY <1>11, <3>1, LeavesNat DEF TracksInv, Opposite
    <3>3. PICK n, d : n = r * num /\ d = s * den
      OBVIOUS
    <3>4. Leaves(late', copy.side, n, d)
      BY <1>4, <1>11, <3>1, <3>2, <3>3, LeavesMore DEF TracksInv
    <3>5. n = 0 \/ copy.side = SideOf(SourceAt')
      <4>1. r = 0 => r * num = 0
        BY <3>2
      <4>. QED  BY <1>5, <3>2, <3>3, <4>1
    <3>6. (Skipped)' = Skipped
      BY <1>11 DEF Skipped
    <3>7. Near(n, d)'
      BY <1>5, <1>9, <1>11, <3>1, <3>2, <3>3, <3>5, <3>6 DEF Near
    <3>. QED  BY <1>11, <3>4, <3>7 DEF Follows
  <2>. QED  BY <1>1, <1>3, <1>7, <2>1, <2>2, <2>3 DEF TracksInv
<1>. QED  BY <1>10, <1>11 DEF ApplyExit

(* An exit that was put aside, done now.                                   *)
LEMMA RetryFollows ==
    ASSUME TracksInv, MinOrder # 0, RetryExit
    PROVE  TracksInv'
<1>. DEFINE part == Head(late)
            rest == Tail(late)
            r == EndSize(part)
            s == part.start
<1>1. DecisionInv' /\ ~(copy'.size > copy.size)
  BY ExitKeeps DEF TracksInv
<1>2. late # <<>> /\ late' = rest /\ UNCHANGED <<lots, queue, equity, others>>
  BY DEF RetryExit
<1>3. part \in LateParts /\ rest \in Seq(LateParts)
  BY <1>2 DEF TracksInv
<1>4. PICK known \in BOOLEAN : ClosePart(part, known, rest)
  BY DEF RetryExit
<1>5. Chained' /\ SourceAt' = SourceAt /\ queue' \in Seq(TradedParts)
  BY <1>2 DEF TracksInv, Chained, SourceAt
<1>6. /\ copy.size \in Nat /\ copy'.size \in Nat /\ MinOrder \in Nat \ {0}
      /\ Skipped \in Nat /\ rounded \in Nat /\ (copy = Flat <=> copy.size = 0)
  <2>1. tiny \in Nat
    BY MostCopiedIsNat DEF TracksInv, DecisionInv
  <2>. QED  BY <1>1, <2>1, FlatIs, SkippedIs, MostRoundedIsNat DEF TracksInv, DecisionInv
<1>7. copy'.size <= MostCopied
  BY <1>1, <1>6, MostCopiedIsNat DEF TracksInv
<1>8. \A side \in {"long", "short"} : \E num, den : Leaves(rest, side, num, den)
  BY <1>2, LeavesRest DEF TracksInv
<1>. SUFFICES Follows'
  BY <1>1, <1>2, <1>3, <1>5, <1>7, <1>8 DEF TracksInv
<1>. SUFFICES ASSUME ~(copy'.size < MinOrder) PROVE Follows'
  BY DEF Follows
<1>9. PICK num, den : Leaves(late, copy.side, num, den) /\ Near(num, den)
  BY <1>1, <1>6 DEF Follows, TracksInv
<1>10. PICK n, d : /\ Leaves(rest, copy.side, n, d)
                   /\ IF part.side = copy.side THEN num = r * n /\ den = s * d
                      ELSE num = n /\ den = d
  BY <1>2, <1>9, LeavesRest DEF TracksInv
<1>11. n \in Nat /\ d \in Nat \ {0} /\ n <= d /\ (rest = <<>> => n = 1 /\ d = 1)
  BY <1>3, <1>10, LeavesNat, LeavesAll
<1>12. copy # Flat
  BY <1>1, <1>6
<1>13. CASE Opposite(part)
  <2>1. UNCHANGED <<copy, tiny>> /\ rounded' = rounded
    BY <1>4, <1>12, <1>13 DEF ClosePart, Rounds
  <2>2. num = n /\ den = d
    BY <1>10, <1>13 DEF Opposite
  <2>3. Near(n, d)'
    BY <1>5, <1>9, <2>1, <2>2 DEF Near, Skipped
  <2>. QED  BY <1>2, <1>10, <2>1, <2>3 DEF Follows
<1>14. CASE ~Opposite(part)
  <2>1. copy.side = part.side
    BY <1>12, <1>14 DEF Opposite
  <2>2. num = r * n /\ den = s * d
    BY <1>10, <2>1
  <2>. DEFINE t == LargestRatio * Abs(SourceAt) + MinOrder
  <2>3. t \in Nat
    <3>1. SourceAt \in Int
      <4>1. CASE queue = <<>>
        BY <4>1, DecisionAssumption DEF SourceAt, TracksInv, DecisionInv
      <4>2. CASE queue # <<>>
        <5>1. queue[1] \in TradedParts
          BY <4>2 DEF TracksInv
        <5>. QED  BY <4>2, <5>1, EndsAre DEF SourceAt
      <4>. QED  BY <4>1, <4>2
    <3>. DEFINE l == LargestRatio
                a == Abs(SourceAt)
    <3>2. l \in Nat /\ a \in Nat
      BY <3>1, RatioIsNat DEF Abs
    <3>. HIDE DEF l, a
    <3>3. l * a + MinOrder \in Nat
      BY <1>6, <3>2
    <3>. QED  BY <3>3 DEF l, a
  <2>4. \/ rounded = MostRounded
        \/ copy.size * (r * n) <= (t + rounded) * (s * d) + Skipped * (r * n)
    BY <1>9, <2>2 DEF Near
  <2>5. t' = t
    BY <1>5
  <2>. HIDE DEF t
  <2>6. /\ copy'.side = copy.side /\ r # 0
        /\ \/ rounded' = MostRounded
           \/ copy'.size * n <= (t + rounded') * d + (Skipped)' * n
    BY <1>3, <1>4, <1>11, <1>14, <2>3, <2>4, CloseNear DEF TracksInv
  <2>7. num = 0 => n = 0
    <3>1. r \in Nat
      BY <1>3, LateSizes
    <3>. HIDE DEF r
    <3>2. n # 0 => r * n # 0
      BY <1>11, <2>6, <3>1
    <3>. QED  BY <2>2, <3>2
  <2>8. n = 0 \/ copy'.side = SideOf(SourceAt')
    BY <1>5, <1>9, <2>6, <2>7 DEF Near
  <2>9. Near(n, d)'
    BY <1>5, <2>6, <2>8 DEF Near, t
  <2>. QED  BY <1>2, <1>10, <2>6, <2>9 DEF Follows
<1>. QED  BY <1>13, <1>14

(* The parts of a fill go on from where the parts before lead to.          *)
LEMMA PartsJoin ==
    ASSUME queue \in Seq(TradedParts), Chained, lots \in Int, NEW to \in Int, to # lots,
           queue' = queue \o Parts(lots, to), lots' = to
    PROVE  queue' \in Seq(TradedParts) /\ Chained' /\ SourceAt' = SourceAt
<1>. DEFINE new == Parts(lots, to)
            n == Len(queue)
            k == Len(new)
<1>1. /\ new \in Seq(TradedParts) /\ k \in {1, 2} /\ StartOf(new[1]) = lots /\ EndOf(new[k]) = to
      /\ (k = 2 => EndOf(new[1]) = StartOf(new[2]))
  BY PartsChain
<1>2. queue' = queue \o new
  OBVIOUS
<1>. HIDE DEF new
<1>3. /\ n \in Nat /\ queue' \in Seq(TradedParts) /\ Len(queue') = n + k /\ queue' # <<>>
      /\ \A i \in 1..n : queue'[i] = queue[i]
      /\ \A j \in 1..k : queue'[n + j] = new[j]
  <2>1. n \in Nat /\ queue' \in Seq(TradedParts) /\ Len(queue') = n + k
    BY <1>1, <1>2
  <2>2. ASSUME NEW i \in 1..n PROVE queue'[i] = queue[i]
    BY <1>1, <1>2
  <2>3. ASSUME NEW j \in 1..k PROVE queue'[n + j] = new[j]
    BY <1>1, <1>2
  <2>4. Len(queue') # 0
    BY <1>1, <2>1
  <2>. QED  BY <2>1, <2>2, <2>3, <2>4
<1>4. queue'[n + 1] = new[1] /\ (k = 2 => queue'[n + 2] = new[2])
  BY <1>1, <1>3
<1>5. SourceAt' = SourceAt
  <2>1. SourceAt' = StartOf(queue'[1])
    BY <1>3 DEF SourceAt
  <2>2. CASE queue = <<>>
    <3>1. n = 0 /\ n + 1 = 1
      BY <2>2
    <3>2. queue'[1] = new[1]
      BY <1>4, <3>1
    <3>. QED  BY <1>1, <2>1, <2>2, <3>2 DEF SourceAt
  <2>3. CASE queue # <<>>
    <3>1. 1 \in 1..n
      BY <2>3
    <3>2. queue'[1] = queue[1]
      BY <1>3, <3>1
    <3>. QED  BY <2>1, <2>3, <3>2 DEF SourceAt
  <2>. QED  BY <2>2, <2>3
<1>6. ASSUME NEW i \in 1..Len(queue')
      PROVE  EndOf(queue'[i]) = IF i = Len(queue') THEN lots' ELSE StartOf(queue'[i + 1])
  <2>0. i \in 1..n + k /\ i \in Int
    BY <1>3
  <2>1. CASE i < n
    <3>1. i \in 1..n /\ i + 1 \in 1..n /\ i # n /\ i # n + k
      BY <1>1, <1>3, <2>0, <2>1
    <3>2. queue'[i] = queue[i] /\ queue'[i + 1] = queue[i + 1]
      BY <1>3, <3>1
    <3>. QED  BY <1>3, <3>1, <3>2 DEF Chained
  <2>2. CASE i = n
    <3>1. n \in 1..n /\ n # n + k
      BY <1>1, <1>3, <2>0, <2>2
    <3>2. EndOf(queue[n]) = lots
      BY <3>1 DEF Chained
    <3>. QED  BY <1>1, <1>3, <1>4, <2>2, <3>1, <3>2
  <2>3. CASE i = n + 1
    <3>1. CASE k = 1
      BY <1>1, <1>3, <1>4, <2>3, <3>1
    <3>2. CASE k = 2
      <4>1. n + 1 # n + 2 /\ n + 1 + 1 = n + 2
        BY <1>3
      <4>. QED  BY <1>1, <1>3, <1>4, <2>3, <3>2, <4>1
    <3>. QED  BY <1>1, <3>1, <3>2
  <2>4. CASE i = n + 2
    <3>1. k = 2
      BY <1>1, <1>3, <2>0, <2>4
    <3>. QED  BY <1>1, <1>3, <1>4, <2>4, <3>1
  <2>5. i < n \/ i = n \/ i = n + 1 \/ i = n + 2
    <3>1. n \in Nat /\ k \in {1, 2}
      BY <1>1, <1>3
    <3>. HIDE DEF n, k
    <3>. QED  BY <2>0, <3>1
  <2>. QED  BY <2>1, <2>2, <2>3, <2>4, <2>5
<1>. QED  BY <1>3, <1>5, <1>6 DEF Chained

LEMMA TracksStarts == ASSUME CopyInit, MinOrder # 0 PROVE TracksInv
<1>1. DecisionInv
  BY DecisionStarts
<1>2. queue = <<>> /\ Len(queue) = 0 /\ late = <<>> /\ copy = Flat /\ copy.size = 0 /\ copy.side = "none"
  BY DEF CopyInit, Flat
<1>3. Follows
  BY <1>2, DecisionAssumption DEF Follows
<1>4. \A side \in {"long", "short"} : \E num, den : Leaves(late, side, num, den)
  BY <1>2, LeavesAll
<1>5. queue \in Seq(TradedParts) /\ late \in Seq(LateParts)
  BY <1>2
<1>6. Chained
  BY <1>2 DEF Chained
<1>. QED  BY <1>1, <1>2, <1>3, <1>4, <1>5, <1>6, MostCopiedIsNat DEF TracksInv

LEMMA TracksKeeps ==
    ASSUME TracksInv, MinOrder # 0, [CopyNext]_copyVars
    PROVE  TracksInv'
<1>0. /\ DecisionInv /\ copy.size <= MostCopied /\ late \in Seq(LateParts)
      /\ queue \in Seq(TradedParts) /\ Chained /\ Follows
      /\ \A side \in {"long", "short"} : \E num, den : Leaves(late, side, num, den)
  BY DEF TracksInv
<1>1. ASSUME NEW to \in Positions, SourceMoves(to)
      PROVE  TracksInv'
  <2>1. Abs(to - lots) \in FillLots /\ queue' = queue \o Parts(lots, to) /\ lots' = to
        /\ UNCHANGED <<late, copy, tiny, rounded, equity, others>>
    BY <1>1 DEF SourceMoves
  <2>2. lots \in Int /\ to \in Int /\ to # lots
    <3>1. lots \in Int /\ to \in Int /\ Abs(to - lots) # 0
      BY <1>0, <2>1, DecisionAssumption DEF DecisionInv
    <3>. QED  BY <3>1 DEF Abs
  <2>3. queue' \in Seq(TradedParts) /\ Chained' /\ SourceAt' = SourceAt
    BY <1>0, <2>1, <2>2, PartsJoin
  <2>4. DecisionInv'
    BY <1>0, <1>1, MovesKeep
  <2>5. Follows'
    BY <1>0, <2>1, <2>3 DEF Follows, Near, Skipped
  <2>. QED  BY <1>0, <2>1, <2>3, <2>4, <2>5 DEF TracksInv
<1>2. ASSUME NEW e \in Equities, NEW o \in OtherExposures, AccountChanges(e, o)
      PROVE  TracksInv'
  <2>1. DecisionInv'
    BY <1>0, <1>2, DecisionStep DEF CopyNext
  <2>2. UNCHANGED <<lots, queue, late, copy, tiny, rounded>>
    BY <1>2 DEF AccountChanges
  <2>. QED  BY <1>0, <2>1, <2>2 DEF TracksInv, Chained, Follows, Near, SourceAt, Skipped
<1>3. CASE ApplyEntry
  BY <1>3, EntryFollows
<1>4. CASE ApplyExit
  BY <1>4, ExitFollows
<1>5. CASE RetryExit
  BY <1>5, RetryFollows
<1>6. CASE UNCHANGED copyVars
  BY <1>0, <1>6 DEF copyVars, TracksInv, DecisionInv, Chained, Follows, Near, SourceAt, Skipped
<1>. QED  BY <1>1, <1>2, <1>3, <1>4, <1>5, <1>6 DEF CopyNext

LEMMA TracksSays ==
    ASSUME TracksInv, MinOrder # 0
    PROVE  CopyTracksSource
<1>. SUFFICES ASSUME queue = <<>>, late = <<>>
              PROVE  IF copy.side = SideOf(lots)
                     THEN copy.size < LargestRatio * Abs(lots) + 2 * MinOrder + rounded \/ copy = Flat
                     ELSE copy.size < MinOrder
  BY DEF CopyTracksSource
<1>1. SourceAt = lots /\ lots \in Int /\ tiny \in Nat
  BY DecisionAssumption, MostCopiedIsNat DEF SourceAt, TracksInv, DecisionInv
<1>2. /\ LargestRatio \in Nat /\ Abs(lots) \in Nat /\ copy.size \in Nat
      /\ MinOrder \in Nat \ {0} /\ Skipped \in Nat /\ Skipped < MinOrder /\ rounded \in Nat
      /\ copy.size <= MostCopied /\ MostCopied \in Nat /\ MostRounded \in Nat
      /\ MostCopied < 2 * MinOrder + MostRounded
  BY <1>1, RatioIsNat, SkippedIs, FlatIs, MostCopiedIsNat, MostRoundedIsNat DEF Abs, TracksInv, DecisionInv
<1>. DEFINE b == LargestRatio * Abs(lots)
<1>3. b \in Nat
  <2>. DEFINE l == LargestRatio
              a == Abs(lots)
  <2>1. l \in Nat /\ a \in Nat
    BY <1>2
  <2>. HIDE DEF l, a
  <2>2. l * a \in Nat
    BY <2>1
  <2>. QED  BY <2>2 DEF l, a
<1>4. \/ copy.size < MinOrder
      \/ /\ copy.side = SideOf(lots)
         /\ rounded = MostRounded \/ copy.size <= b + MinOrder + rounded + Skipped
  <2>. SUFFICES ASSUME ~(copy.size < MinOrder)
                PROVE  /\ copy.side = SideOf(lots)
                       /\ rounded = MostRounded \/ copy.size <= b + MinOrder + rounded + Skipped
    OBVIOUS
  <2>1. PICK num, den : Leaves(late, copy.side, num, den) /\ Near(num, den)
    BY DEF TracksInv, Follows
  <2>2. num = 1 /\ den = 1
    BY <2>1, LeavesAll
  <2>3. /\ copy.side = SideOf(lots)
        /\ rounded = MostRounded \/ copy.size * 1 <= (b + MinOrder + rounded) * 1 + Skipped * 1
    BY <1>1, <2>1, <2>2 DEF Near
  <2>. HIDE DEF b
  <2>. QED  BY <1>2, <1>3, <2>3
<1>. SUFFICES IF copy.side = SideOf(lots)
              THEN copy.size < b + 2 * MinOrder + rounded \/ copy = Flat ELSE copy.size < MinOrder
  OBVIOUS
<1>. HIDE DEF b
<1>. QED  BY <1>2, <1>3, <1>4

(* trading_copy_decision_service, as paper and live copying use it: once   *)
(* every fill of a source is applied and every exit that was put aside is  *)
(* done, the copy exceeds the source's proportion by less than two minimum *)
(* orders and a dollar for each share that was rounded while exits waited  *)
(* (none do in live copying), and less than one minimum order stays on a   *)
(* side that the source has left, for any fills, equities, ratio,          *)
(* multiples and other exposure, and whatever was skipped or put aside on  *)
(* the way.                                                                *)
THEOREM CopyFollowsSource ==
    ASSUME MinOrder # 0
    PROVE  CopySpec => []CopyTracksSource
<1>1. CopyInit => TracksInv
  BY TracksStarts
<1>2. TracksInv /\ [CopyNext]_copyVars => TracksInv'
  BY TracksKeeps
<1>3. TracksInv => CopyTracksSource
  BY TracksSays
<1>. QED  BY <1>1, <1>2, <1>3, PTL DEF CopySpec

(* Live keeps an exit without a price first in its lane: none is put       *)
(* aside, no share is rounded while another waits, and the bound is the    *)
(* one of two minimum orders.                                              *)
LEMMA NoneWaits ==
    ASSUME MaxLate = 0, late = <<>> /\ rounded = 0, [CopyNext]_copyVars
    PROVE  late' = <<>> /\ rounded' = 0
<1>1. ASSUME NEW part, NEW known, ClosePart(part, known, <<>>)
      PROVE  rounded' = 0
  BY <1>1 DEF ClosePart, Rounds
<1>2. CASE ApplyExit
  BY <1>1, <1>2 DEF ApplyExit
<1>. QED  BY <1>2 DEF CopyNext, SourceMoves, AccountChanges, ApplyEntry, RetryExit, copyVars

THEOREM LiveFollowsSource ==
    ASSUME MaxLate = 0, MinOrder # 0
    PROVE  CopySpec => [](CopyTracksSource /\ rounded = 0)
<1>1. CopyInit => late = <<>> /\ rounded = 0
  BY DEF CopyInit
<1>2. (late = <<>> /\ rounded = 0) /\ [CopyNext]_copyVars => (late = <<>> /\ rounded = 0)'
  BY NoneWaits
<1>3. CopySpec => []CopyTracksSource
  BY CopyFollowsSource
<1>. QED  BY <1>1, <1>2, <1>3, PTL DEF CopySpec
-----------------------------------------------------------------------------
(***************************************************************************)
(* A source that copies are held from keeps its place, for any wallets,    *)
(* scores and number of places.                                            *)
(*                                                                         *)
(* First what sorting gives: every member of a finite set once, in any     *)
(* order that ranks all of them.                                           *)
(***************************************************************************)
Increasing(s, R) == \A i, j \in DOMAIN s : i < j => <<s[i], s[j]>> \in R
Enumerates(s, n, S) == s \in [1..n -> S] /\ \A x \in S : \E i \in 1..n : s[i] = x

LEMMA SortedExists ==
    ASSUME NEW S, IsFiniteSet(S), NEW R, Ranks(R, S)
    PROVE  \E s : Enumerates(s, Cardinality(S), S) /\ Increasing(s, R)
<1>. DEFINE Has(T) == \E s : Enumerates(s, Cardinality(T), T) /\ Increasing(s, R)
            B == {T \in SUBSET S : ~Has(T)}
<1>. SUFFICES ASSUME S \in B PROVE FALSE
  OBVIOUS
<1>1. \E T \in B : \A U \in B : ~(U \subseteq T /\ U # T)
  <2>1. B \subseteq SUBSET S /\ B # {}
    OBVIOUS
  <2>. HIDE DEF B
  <2>. QED  BY <2>1, SmallestSubset
<1>2. PICK T \in B : \A U \in B : ~(U \subseteq T /\ U # T)
  BY <1>1
<1>3. IsFiniteSet(T) /\ Cardinality(T) \in Nat
  BY FS_Subset, FS_CardinalityType
<1>4. CASE T = {}
  <2>1. Enumerates(<<>>, 0, T) /\ Increasing(<<>>, R)
    BY <1>4 DEF Enumerates, Increasing
  <2>2. Cardinality(T) = 0
    BY <1>4, FS_EmptySet
  <2>. QED  BY <2>1, <2>2
<1>5. CASE T # {}
  <2>1. Ranks(R, T)
    BY DEF Ranks
  <2>2. PICK m : IsLast(m, T, R)
    BY <1>3, <1>5, <2>1, HasLast
  <2>. DEFINE U == T \ {m}
              n == Cardinality(U)
  <2>3. m \in T /\ \A x \in U : <<x, m>> \in R
    BY <2>2 DEF IsLast
  <2>4. Has(U)
    <3>1. U \in SUBSET S /\ U \subseteq T /\ U # T
      BY <2>3
    <3>. QED  BY <1>2, <3>1
  <2>5. PICK s : Enumerates(s, n, U) /\ Increasing(s, R)
    BY <2>4
  <2>6. n \in Nat /\ Cardinality(T) = n + 1
    <3>1. IsFiniteSet(U) /\ n = Cardinality(T) - 1
      BY <1>3, <2>3, FS_RemoveElement
    <3>2. n \in Nat
      BY <3>1, FS_CardinalityType
    <3>. QED  BY <1>3, <3>1, <3>2
  <2>. DEFINE t == [i \in 1..n + 1 |-> IF i = n + 1 THEN m ELSE s[i]]
  <2>. HIDE DEF n
  <2>7. s \in [1..n -> U]
    BY <2>5 DEF Enumerates
  <2>8. \A i \in 1..n + 1 : i = n + 1 \/ i \in 1..n
    BY <2>6
  <2>9. t \in [1..n + 1 -> T]
    BY <2>3, <2>7, <2>8
  <2>10. ASSUME NEW x \in T PROVE \E i \in 1..n + 1 : t[i] = x
    <3>1. CASE x = m
      BY <2>6, <3>1
    <3>2. CASE x # m
      <4>1. PICK i \in 1..n : s[i] = x
        BY <2>5, <3>2 DEF Enumerates
      <4>2. i \in 1..n + 1 /\ i # n + 1
        BY <2>6
      <4>. QED  BY <4>1, <4>2
    <3>. QED  BY <3>1, <3>2
  <2>11. ASSUME NEW i \in 1..n + 1, NEW j \in 1..n + 1, i < j
         PROVE  <<t[i], t[j]>> \in R
    <3>1. i \in 1..n /\ i # n + 1
      BY <2>6, <2>11
    <3>2. t[i] = s[i] /\ s[i] \in U
      BY <2>7, <3>1
    <3>3. CASE j = n + 1
      BY <2>3, <3>2, <3>3
    <3>4. CASE j # n + 1
      <4>1. j \in 1..n
        BY <2>8, <3>4
      <4>2. DOMAIN s = 1..n
        BY <2>7
      <4>. QED  BY <2>5, <2>11, <3>1, <3>2, <3>4, <4>1, <4>2 DEF Increasing
    <3>. QED  BY <3>3, <3>4
  <2>12. DOMAIN t = 1..n + 1
    OBVIOUS
  <2>13. Enumerates(t, n + 1, T) /\ Increasing(t, R)
    <3>. HIDE DEF t
    <3>. QED  BY <2>9, <2>10, <2>11, <2>12 DEF Enumerates, Increasing
  <2>. QED  BY <2>6, <2>13
<1>. QED  BY <1>4, <1>5
LEMMA SortedIs ==
    ASSUME NEW S, IsFiniteSet(S), NEW R, Ranks(R, S)
    PROVE  /\ Sorted(S, R) \in Seq(S) /\ Len(Sorted(S, R)) = Cardinality(S)
           /\ Enumerates(Sorted(S, R), Cardinality(S), S) /\ Increasing(Sorted(S, R), R)
<1>. DEFINE n == Cardinality(S)
            D == 1..n
            Right(s) == s \in SetToSeqs(S) /\ Increasing(s, R)
            f == Sorted(S, R)
<1>1. n \in Nat
  BY FS_CardinalityType
<1>2. PICK s : Enumerates(s, n, S) /\ Increasing(s, R)
  BY SortedExists
<1>3. Right(s)
  <2>1. s \in [D -> S]
    BY <1>2 DEF Enumerates
  <2>2. ASSUME NEW i \in D, NEW k \in D, i # k PROVE s[i] # s[k]
    <3>1. i < k \/ k < i
      BY <1>1, <2>2
    <3>2. <<s[i], s[k]>> \in R \/ <<s[k], s[i]>> \in R
      BY <1>2, <2>1, <3>1 DEF Increasing
    <3>. QED  BY <2>1, <3>2 DEF Ranks
  <2>. QED  BY <1>2, <2>1, <2>2 DEF SetToSeqs
<1>4. f = CHOOSE q \in SetToSeqs(S) : Increasing(q, R)
  BY DEF Sorted, Increasing
<1>5. Right(f)
  <2>. HIDE DEF f
  <2>. QED  BY <1>3, <1>4
<1>. HIDE DEF f
<1>6. f \in [D -> S] /\ \A i, k \in D : i # k => f[i] # f[k]
  BY <1>5 DEF SetToSeqs
<1>7. f \in Injection(D, S)
  BY <1>6 DEF Injection, IsInjective
<1>8. Cardinality(D) = n
  <2>. HIDE DEF n
  <2>1. Cardinality(1..n) = IF 1 > n THEN 0 ELSE n - 1 + 1
    BY <1>1, FS_Interval
  <2>. QED  BY <1>1, <2>1
<1>9. f \in Surjection(D, S)
  BY <1>7, <1>8, FS_Injection
<1>10. \A x \in S : \E i \in D : f[i] = x
  BY <1>9 DEF Surjection
<1>11. f \in Seq(S) /\ Len(f) = n
  <2>. HIDE DEF n
  <2>. QED  BY <1>1, <1>6
<1>. QED  BY <1>5, <1>6, <1>10, <1>11 DEF f, Enumerates

(* What is not behind n others.                                            *)
LEMMA FirstAtMost ==
    ASSUME NEW S, S \subseteq Wallets, Ranks(ByRank, S), NEW n \in Nat
    PROVE  First(S, n) \subseteq S /\ IsFiniteSet(First(S, n)) /\ Cardinality(First(S, n)) <= n
<1>1. IsFiniteSet(S) /\ First(S, n) \subseteq S /\ IsFiniteSet(First(S, n))
  BY SlotsAssumption, FS_Subset DEF First
<1>. DEFINE c == Cardinality(S)
<1>2. PICK s : Enumerates(s, c, S) /\ Increasing(s, ByRank)
  BY <1>1, SortedExists
<1>3. c \in Nat /\ s \in [1..c -> S] /\ DOMAIN s = 1..c
  BY <1>1, <1>2, FS_CardinalityType DEF Enumerates
<1>. HIDE DEF c
<1>4. ASSUME NEW i \in 1..c, s[i] \in First(S, n)
      PROVE  i <= n
  <2>. DEFINE before == {v \in S : RanksBefore(v, s[i])}
              m == i - 1
              g == [k \in 1..m |-> s[k]]
  <2>1. Cardinality(before) < n
    BY <1>4 DEF First
  <2>2. m \in Nat /\ 1..m \subseteq 1..c /\ \A k \in 1..m : k < i
    BY <1>3
  <2>3. \A k \in 1..m : <<s[k], s[i]>> \in ByRank
    BY <1>2, <1>3, <2>2 DEF Increasing
  <2>4. g \in [1..m -> before]
    BY <1>3, <2>2, <2>3 DEF ByRank
  <2>5. ASSUME NEW k \in 1..m, NEW l \in 1..m, k # l PROVE g[k] # g[l]
    <3>1. k \in 1..c /\ l \in 1..c /\ (k < l \/ l < k)
      BY <1>3, <2>2, <2>5
    <3>2. <<s[k], s[l]>> \in ByRank \/ <<s[l], s[k]>> \in ByRank
      BY <1>2, <1>3, <3>1 DEF Increasing
    <3>3. s[k] # s[l]
      BY <1>3, <3>1, <3>2 DEF Ranks
    <3>. QED  BY <3>3
  <2>6. IsFiniteSet(before)
    BY <1>1, FS_Subset
  <2>. HIDE DEF g, before
  <2>7. g \in Injection(1..m, before)
    BY <2>4, <2>5 DEF Injection, IsInjective
  <2>8. Cardinality(1..m) <= Cardinality(before) /\ Cardinality(before) \in Nat
    BY <2>6, <2>7, FS_Injection, FS_CardinalityType
  <2>9. Cardinality(1..m) = m
    <3>. HIDE DEF m
    <3>1. Cardinality(1..m) = IF 1 > m THEN 0 ELSE m - 1 + 1
      BY <2>2, FS_Interval
    <3>. QED  BY <2>2, <3>1
  <2>. QED  BY <1>3, <2>1, <2>8, <2>9
<1>. DEFINE at(x) == CHOOSE i \in 1..c : s[i] = x
            h == [x \in First(S, n) |-> at(x)]
<1>5. ASSUME NEW x \in First(S, n) PROVE at(x) \in 1..c /\ s[at(x)] = x
  BY <1>1, <1>2 DEF Enumerates, c
<1>6. h \in [First(S, n) -> 1..n]
  <2>1. ASSUME NEW x \in First(S, n) PROVE at(x) \in 1..n
    <3>. HIDE DEF at
    <3>. QED  BY <1>3, <1>4, <1>5
  <2>. HIDE DEF at
  <2>. QED  BY <2>1
<1>7. ASSUME NEW x \in First(S, n), NEW y \in First(S, n), x # y PROVE h[x] # h[y]
  <2>. HIDE DEF at
  <2>. QED  BY <1>5, <1>7
<1>8. h \in Injection(First(S, n), 1..n)
  <2>. HIDE DEF h
  <2>. QED  BY <1>6, <1>7 DEF Injection, IsInjective
<1>9. IsFiniteSet(1..n) /\ Cardinality(1..n) = IF 1 > n THEN 0 ELSE n - 1 + 1
  BY FS_Interval
<1>10. Cardinality(First(S, n)) <= Cardinality(1..n)
  BY <1>8, <1>9, FS_Injection
<1>. QED  BY <1>1, <1>9, <1>10

ProfilesKnown ==
    /\ profile \in [Wallets -> Profiles \cup {Unscored}]
    /\ exposure \in [Wallets -> {"none", "paper", "live"}]

LEMMA RankOrders ==
    ASSUME ProfilesKnown, NEW S, S \subseteq Wallets
    PROVE  Ranks(ByRank, S) /\ Ranks(ByAddress, S)
<1>. DEFINE pool(w) == IF Pooled(w) THEN 1 ELSE 0
            score(w) == profile[w].score
            Ahead(a, b) == \/ pool(a) > pool(b)
                           \/ pool(a) = pool(b) /\ score(a) > score(b)
                           \/ pool(a) = pool(b) /\ score(a) = score(b) /\ a < b
<1>1. ASSUME NEW w \in S PROVE w \in Int /\ w \in Wallets /\ pool(w) \in Int /\ score(w) \in Int
  <2>1. w \in Wallets /\ pool(w) \in Int
    OBVIOUS
  <2>2. w \in Int
    BY <2>1, SlotsAssumption
  <2>3. profile[w] \in Profiles \cup {Unscored}
    BY <2>1 DEF ProfilesKnown
  <2>4. score(w) \in Int
    <3>1. CASE profile[w] \in Profiles
      BY <3>1, SlotsAssumption
    <3>2. CASE profile[w] = Unscored
      BY <3>2 DEF Unscored
    <3>. QED  BY <2>3, <3>1, <3>2
  <2>. QED  BY <2>1, <2>2, <2>4
<1>2. ASSUME NEW a \in S, NEW b \in S PROVE <<a, b>> \in ByRank <=> Ahead(a, b)
  <2>1. pool(a) = pool(b) <=> (Pooled(a) <=> Pooled(b))
    OBVIOUS
  <2>2. pool(a) > pool(b) <=> (Pooled(a) /\ ~Pooled(b))
    OBVIOUS
  <2>3. RanksBefore(a, b) <=>
          \/ Pooled(a) /\ ~Pooled(b)
          \/ (Pooled(a) <=> Pooled(b)) /\ score(a) # score(b) /\ score(a) > score(b)
          \/ (Pooled(a) <=> Pooled(b)) /\ score(a) = score(b) /\ a < b
    BY DEF RanksBefore, Pooled
  <2>4. RanksBefore(a, b) <=> Ahead(a, b)
    <3>. HIDE DEF pool
    <3>. QED  BY <1>1, <2>1, <2>2, <2>3
  <2>5. <<a, b>> \in ByRank <=> RanksBefore(a, b)
    BY <1>1 DEF ByRank
  <2>. QED  BY <2>4, <2>5
<1>3. Ranks(ByRank, S)
  <2>. HIDE DEF pool, score
  <2>. QED  BY <1>1, <1>2 DEF Ranks
<1>4. Ranks(ByAddress, S)
  <2>1. ASSUME NEW a \in S, NEW b \in S PROVE <<a, b>> \in ByAddress <=> a < b
    BY <1>1 DEF ByAddress
  <2>. QED  BY <1>1, <2>1 DEF Ranks
<1>. QED  BY <1>3, <1>4

(* A sequence without repetitions ranks its members.                       *)
Distinct(s) == \A i, k \in DOMAIN s : i # k => s[i] # s[k]

LEMMA ListRanks ==
    ASSUME NEW s \in Seq(Wallets), Distinct(s), NEW S, S \subseteq ToSet(s)
    PROVE  Ranks(As(s), S)
<1>1. DOMAIN s \subseteq Int
  OBVIOUS
<1>2. ASSUME NEW i \in DOMAIN s, NEW k \in DOMAIN s
      PROVE  <<s[i], s[k]>> \in As(s) <=> i < k
  <2>1. s[i] \in Wallets /\ s[k] \in Wallets
    OBVIOUS
  <2>2. <<s[i], s[k]>> \in As(s) <=> \E m, n \in DOMAIN s : m < n /\ s[m] = s[i] /\ s[n] = s[k]
    BY <2>1 DEF As
  <2>. QED  BY <2>2 DEF Distinct
<1>3. ASSUME NEW a \in S PROVE \E i \in DOMAIN s : s[i] = a
  BY DEF ToSet
<1>4. ASSUME NEW a \in S PROVE <<a, a>> \notin As(s)
  <2>1. PICK i \in DOMAIN s : s[i] = a
    BY <1>3
  <2>2. <<s[i], s[i]>> \in As(s) <=> i < i
    BY <1>2
  <2>3. ~(i < i)
    BY <1>1
  <2>. QED  BY <2>1, <2>2, <2>3
<1>5. ASSUME NEW a \in S, NEW b \in S, a # b
      PROVE  <<a, b>> \in As(s) \/ <<b, a>> \in As(s)
  <2>1. PICK i \in DOMAIN s : s[i] = a
    BY <1>3
  <2>2. PICK k \in DOMAIN s : s[k] = b
    BY <1>3
  <2>3. i < k \/ k < i
    BY <1>1, <1>5, <2>1, <2>2
  <2>. QED  BY <1>2, <2>1, <2>2, <2>3
<1>6. ASSUME NEW a \in S, NEW b \in S, NEW c \in S, <<a, b>> \in As(s), <<b, c>> \in As(s)
      PROVE  <<a, c>> \in As(s)
  <2>1. PICK i \in DOMAIN s : s[i] = a
    BY <1>3
  <2>2. PICK k \in DOMAIN s : s[k] = b
    BY <1>3
  <2>3. PICK l \in DOMAIN s : s[l] = c
    BY <1>3
  <2>4. i < k /\ k < l
    BY <1>2, <1>6, <2>1, <2>2, <2>3
  <2>5. i < l
    BY <1>1, <2>4
  <2>. QED  BY <1>2, <2>1, <2>3, <2>5
<1>. QED  BY <1>4, <1>5, <1>6 DEF Ranks

(* What a sorted list is made of, in the words of the lists.               *)
LEMMA SortedList ==
    ASSUME NEW S, S \subseteq Wallets, NEW R, Ranks(R, S)
    PROVE  /\ Sorted(S, R) \in Seq(Wallets) /\ Distinct(Sorted(S, R))
           /\ Len(Sorted(S, R)) = Cardinality(S) /\ ToSet(Sorted(S, R)) = S
<1>1. IsFiniteSet(S)
  BY SlotsAssumption, FS_Subset
<1>. DEFINE f == Sorted(S, R)
            n == Cardinality(S)
<1>2. f \in Seq(S) /\ Len(f) = n /\ Enumerates(f, n, S) /\ Increasing(f, R)
  BY <1>1, SortedIs
<1>3. n \in Nat
  BY <1>1, FS_CardinalityType
<1>. HIDE DEF f, n
<1>4. f \in Seq(Wallets) /\ DOMAIN f = 1..n /\ f \in [1..n -> S]
  BY <1>2, <1>3 DEF Enumerates
<1>5. ToSet(f) = S
  BY <1>2, <1>4 DEF Enumerates, ToSet
<1>6. ASSUME NEW i \in DOMAIN f, NEW k \in DOMAIN f, i # k PROVE f[i] # f[k]
  <2>1. i < k \/ k < i
    BY <1>4, <1>6
  <2>2. <<f[i], f[k]>> \in R \/ <<f[k], f[i]>> \in R
    BY <1>2, <2>1 DEF Increasing
  <2>. QED  BY <1>4, <2>2 DEF Ranks
<1>. QED  BY <1>2, <1>4, <1>5, <1>6 DEF f, n, Distinct

LEMMA JoinedLists ==
    ASSUME NEW s \in Seq(Wallets), NEW t \in Seq(Wallets)
    PROVE  /\ s \o t \in Seq(Wallets) /\ Len(s \o t) = Len(s) + Len(t)
           /\ ToSet(s \o t) = ToSet(s) \cup ToSet(t)
           /\ Distinct(s) /\ Distinct(t) /\ ToSet(s) \cap ToSet(t) = {} => Distinct(s \o t)
<1>. DEFINE u == s \o t
            m == Len(s)
            n == Len(t)
<1>1. u \in Seq(Wallets) /\ Len(u) = m + n /\ m \in Nat /\ n \in Nat
  OBVIOUS
<1>2. /\ \A i \in 1..m : u[i] = s[i]
      /\ \A i \in m + 1 .. m + n : u[i] = t[i - m]
  OBVIOUS
<1>3. DOMAIN u = 1..m + n /\ DOMAIN s = 1..m /\ DOMAIN t = 1..n
  BY <1>1
<1>. HIDE DEF u, m, n
<1>4. \A i \in 1..m + n : i \in 1..m \/ (i \in m + 1 .. m + n /\ i - m \in 1..n)
  BY <1>1
<1>5. ToSet(u) \subseteq ToSet(s) \cup ToSet(t)
  BY <1>2, <1>3, <1>4 DEF ToSet
<1>6. ToSet(s) \subseteq ToSet(u)
  <2>1. 1..m \subseteq 1..m + n
    BY <1>1
  <2>. QED  BY <1>2, <1>3, <2>1 DEF ToSet
<1>7. ToSet(t) \subseteq ToSet(u)
  <2>1. ASSUME NEW i \in 1..n PROVE i + m \in 1..m + n /\ u[i + m] = t[i]
    <3>1. i + m \in m + 1 .. m + n /\ i + m - m = i
      BY <1>1
    <3>. QED  BY <1>1, <1>2, <3>1
  <2>. QED  BY <1>3, <2>1 DEF ToSet
<1>8. ASSUME Distinct(s), Distinct(t), ToSet(s) \cap ToSet(t) = {},
             NEW i \in 1..m + n, NEW k \in 1..m + n, i # k
      PROVE  u[i] # u[k]
  <2>1. CASE i \in 1..m /\ k \in 1..m
    BY <1>2, <1>3, <1>8, <2>1 DEF Distinct
  <2>2. CASE i \in m + 1 .. m + n /\ k \in m + 1 .. m + n
    <3>1. i - m \in 1..n /\ k - m \in 1..n /\ i - m # k - m
      BY <1>1, <1>8, <2>2
    <3>. QED  BY <1>2, <1>3, <1>8, <2>2, <3>1 DEF Distinct
  <2>3. CASE i \in 1..m /\ k \in m + 1 .. m + n
    <3>1. k - m \in 1..n
      BY <1>1, <2>3
    <3>. QED  BY <1>2, <1>3, <1>8, <2>3, <3>1 DEF ToSet
  <2>4. CASE k \in 1..m /\ i \in m + 1 .. m + n
    <3>1. i - m \in 1..n
      BY <1>1, <2>4
    <3>. QED  BY <1>2, <1>3, <1>8, <2>4, <3>1 DEF ToSet
  <2>. QED  BY <1>4, <2>1, <2>2, <2>3, <2>4
<1>9. Distinct(s) /\ Distinct(t) /\ ToSet(s) \cap ToSet(t) = {} => Distinct(u)
  BY <1>3, <1>8 DEF Distinct
<1>. QED  BY <1>1, <1>5, <1>6, <1>7, <1>9 DEF u, m, n

LEMMA CutTyped ==
    ASSUME NEW s \in Seq(Wallets), NEW n \in Nat
    PROVE  UpTo(s, n) \in Seq(Wallets) /\ Len(UpTo(s, n)) <= n
<1>1. CASE Len(s) <= n
  BY <1>1 DEF UpTo
<1>2. CASE ~(Len(s) <= n)
  <2>1. n <= Len(s) /\ Len(s) \in Nat
    BY <1>2
  <2>2. SubSeq(s, 1, n) \in Seq(Wallets) /\ Len(SubSeq(s, 1, n)) <= n
    BY <2>1
  <2>. QED  BY <1>2, <2>2 DEF UpTo
<1>. QED  BY <1>1, <1>2

(* The head of a list survives its cut, and all of it if it is short.      *)
LEMMA Cut ==
    ASSUME NEW s \in Seq(Wallets), NEW t \in Seq(Wallets), NEW n \in Nat
    PROVE  /\ Len(s) <= n => ToSet(s) \subseteq ToSet(UpTo(s \o t, n))
           /\ Len(s) + Len(t) <= n => ToSet(t) \subseteq ToSet(UpTo(s \o t, n))
<1>. DEFINE u == s \o t
<1>1. u \in Seq(Wallets) /\ Len(u) = Len(s) + Len(t) /\ ToSet(u) = ToSet(s) \cup ToSet(t)
  BY JoinedLists
<1>2. CASE Len(u) <= n
  <2>. HIDE DEF u
  <2>1. UpTo(u, n) = u
    BY <1>2 DEF UpTo
  <2>. QED  BY <1>1, <2>1 DEF u
<1>3. CASE ~(Len(u) <= n)
  <2>1. ~(Len(s) + Len(t) <= n)
    BY <1>1, <1>3
  <2>2. UpTo(u, n) = SubSeq(u, 1, n)
    BY <1>3 DEF UpTo
  <2>3. ASSUME Len(s) <= n, NEW i \in 1..Len(s)
        PROVE  i \in 1..n /\ u[i] = s[i]
    BY <2>3
  <2>4. DOMAIN SubSeq(u, 1, n) = 1..n /\ \A i \in 1..n : SubSeq(u, 1, n)[i] = u[i]
    <3>1. n \in Nat /\ n <= Len(u) /\ Len(u) \in Nat
      BY <1>1, <1>3
    <3>. HIDE DEF u
    <3>. QED  BY <1>1, <3>1
  <2>5. DOMAIN s = 1..Len(s)
    OBVIOUS
  <2>6. Len(s) <= n => ToSet(s) \subseteq ToSet(SubSeq(u, 1, n))
    BY <2>3, <2>4, <2>5 DEF ToSet
  <2>. QED  BY <2>1, <2>2, <2>6
<1>. QED  BY <1>2, <1>3
----------------------------------------------------------------------------
(* A refresh that has read where copies are held has a place for each of   *)
(* them, or there are more than places.                                    *)
Refreshes ==
    [pc : {"idle", "loaded", "owned"}, slots : SUBSET Wallets, active : SUBSET Wallets,
     open : SUBSET Wallets, owned : SUBSET Wallets, read : SUBSET Wallets, order : Seq(Wallets)]
Streams ==
    [status : {"off", "connecting", "connected"}, desired : Seq(Wallets),
     acked : SUBSET Wallets, read : SUBSET Wallets]

Placed(r) ==
    /\ r.read \subseteq r.slots /\ r.slots \subseteq ToSet(r.order)
    /\ Cardinality(r.slots) <= Slots
Loaded(r) ==
    /\ Distinct(r.order)
    /\ IF live THEN r.read = {}
       ELSE LiveSources \subseteq r.read /\ (Cardinality(r.read) <= Slots => Placed(r))
Lists(r) ==
    /\ Listed(r) \in Seq(Wallets) /\ Len(Listed(r)) <= Slots
    /\ Cardinality(r.read) <= Slots => r.read \subseteq ToSet(Listed(r))

RefreshKeeps ==
    /\ refresh \in Refreshes
    /\ refresh.pc = "loaded" => Loaded(refresh)
    /\ refresh.pc = "owned" => Lists(refresh)

SlotsInv == ProfilesKnown /\ stream \in Streams /\ RefreshKeeps /\ ExposureKeepsSlot

LEMMA SlotsStart == SlotsInit => SlotsInv
<1>. SUFFICES ASSUME SlotsInit PROVE SlotsInv
  OBVIOUS
<1>1. ProfilesKnown
  BY DEF SlotsInit, ProfilesKnown
<1>2. stream \in Streams /\ refresh \in Refreshes /\ stream.status = "off" /\ refresh.pc = "idle"
  BY DEF SlotsInit, Streams, Refreshes, NoStream, NoRefresh
<1>. QED  BY <1>1, <1>2 DEF SlotsInv, RefreshKeeps, ExposureKeepsSlot

LEMMA SourcesAre ==
    ASSUME ProfilesKnown
    PROVE  /\ LiveSources \subseteq OpenSources /\ OpenSources \subseteq Wallets
           /\ Candidates \subseteq Wallets
BY DEF ProfilesKnown, LiveSources, OpenSources, Candidates, First

LEMMA FirstIsAll ==
    ASSUME ProfilesKnown, NEW S, S \subseteq Wallets, Cardinality(S) <= Slots
    PROVE  First(S, Slots) = S
<1>1. IsFiniteSet(S) /\ Cardinality(S) \in Nat
  BY SlotsAssumption, FS_Subset, FS_CardinalityType
<1>2. Ranks(ByRank, S)
  BY RankOrders
<1>3. ASSUME NEW w \in S PROVE Cardinality({v \in S : RanksBefore(v, w)}) < Slots
  <2>. DEFINE before == {v \in S : RanksBefore(v, w)}
  <2>1. w \notin before
    <3>1. <<w, w>> \notin ByRank
      BY <1>2 DEF Ranks
    <3>. QED  BY <3>1 DEF ByRank
  <2>2. before \subseteq S /\ before # S
    BY <2>1
  <2>3. IsFiniteSet(before) /\ Cardinality(before) <= Cardinality(S)
        /\ Cardinality(before) # Cardinality(S) /\ Cardinality(before) \in Nat
    <3>. HIDE DEF before
    <3>. QED  BY <1>1, <2>2, FS_Subset, FS_CardinalityType
  <2>. HIDE DEF before
  <2>. QED  BY <1>1, <2>3, SlotsAssumption DEF before
<1>. QED  BY <1>3 DEF First

LEMMA SlotsSuffice ==
    ASSUME ProfilesKnown
    PROVE  /\ Cardinality(SlotSources) <= Slots /\ SlotSources \subseteq Candidates \cup OpenSources
           /\ ~live /\ Cardinality(OpenSources) <= Slots => OpenSources \subseteq SlotSources
<1>. DEFINE held == First(PaperFirst, Slots)
            free == Slots - Cardinality(held)
            rest == First(Candidates \ held, free)
<1>1. PaperFirst \subseteq OpenSources /\ OpenSources \subseteq Wallets /\ Candidates \subseteq Wallets
      /\ (~live => PaperFirst = OpenSources)
  BY SourcesAre DEF PaperFirst
<1>2. held \subseteq PaperFirst /\ IsFiniteSet(held) /\ Cardinality(held) <= Slots
      /\ Cardinality(held) \in Nat
  BY <1>1, RankOrders, FirstAtMost, FS_CardinalityType, SlotsAssumption
<1>3. free \in Nat
  BY <1>2, SlotsAssumption
<1>4. rest \subseteq Candidates /\ IsFiniteSet(rest) /\ Cardinality(rest) <= free
      /\ Cardinality(rest) \in Nat
  <2>1. Candidates \ held \subseteq Wallets /\ Ranks(ByRank, Candidates \ held)
    BY <1>1, RankOrders
  <2>. HIDE DEF held, free
  <2>. QED  BY <1>3, <2>1, FirstAtMost, FS_CardinalityType
<1>5. SlotSources = held \cup rest
  BY DEF SlotSources
<1>6. ~live /\ Cardinality(OpenSources) <= Slots => held = OpenSources
  BY <1>1, FirstIsAll
<1>. HIDE DEF held, rest
<1>7. Cardinality(SlotSources) = Cardinality(held) + Cardinality(rest) - Cardinality(held \cap rest)
      /\ Cardinality(held \cap rest) \in Nat
  BY <1>2, <1>4, <1>5, FS_Union, FS_Intersection, FS_CardinalityType
<1>. QED  BY <1>1, <1>2, <1>3, <1>4, <1>5, <1>6, <1>7, SlotsAssumption

LEMMA LoadKeeps ==
    ASSUME SlotsInv, Load
    PROVE  refresh' \in Refreshes /\ refresh'.pc = "loaded" /\ Loaded(refresh')
<1>0. ProfilesKnown
  BY DEF SlotsInv
<1>1. Candidates \subseteq Wallets /\ OpenSources \subseteq Wallets /\ LiveSources \subseteq OpenSources
  BY <1>0, SourcesAre
<1>. DEFINE head == Sorted(Candidates, ByRank)
            tail == Sorted(OpenSources \ Candidates, ByRank)
            order == head \o tail
<1>2. Ranks(ByRank, Candidates) /\ Ranks(ByRank, OpenSources \ Candidates)
  BY <1>0, <1>1, RankOrders
<1>3. head \in Seq(Wallets) /\ Distinct(head) /\ ToSet(head) = Candidates
  BY <1>1, <1>2, SortedList
<1>4. tail \in Seq(Wallets) /\ Distinct(tail) /\ ToSet(tail) = OpenSources \ Candidates
  BY <1>1, <1>2, SortedList
<1>5. order \in Seq(Wallets) /\ Distinct(order) /\ ToSet(order) = Candidates \cup OpenSources
  <2>. HIDE DEF head, tail
  <2>1. ToSet(head) \cap ToSet(tail) = {}
    BY <1>3, <1>4
  <2>. QED  BY <1>3, <1>4, <2>1, JoinedLists
<1>6. refresh' = [pc |-> "loaded", slots |-> SlotSources, active |-> Candidates \cap SlotSources,
                  open |-> OpenSources, owned |-> {},
                  read |-> IF live THEN {} ELSE OpenSources, order |-> order]
  BY DEF Load, Allocations, OpenSources
<1>. HIDE DEF order
<1>7. SlotSources \subseteq Wallets /\ Cardinality(SlotSources) <= Slots
      /\ SlotSources \subseteq Candidates \cup OpenSources
      /\ (~live /\ Cardinality(OpenSources) <= Slots => OpenSources \subseteq SlotSources)
  BY <1>0, <1>1, SlotsSuffice
<1>8. refresh' \in Refreshes
  BY <1>1, <1>5, <1>6, <1>7 DEF Refreshes
<1>9. /\ refresh'.pc = "loaded" /\ refresh'.slots = SlotSources /\ refresh'.order = order
      /\ refresh'.read = IF live THEN {} ELSE OpenSources
  BY <1>6
<1>. QED  BY <1>1, <1>5, <1>7, <1>8, <1>9 DEF Loaded, Placed

LEMMA OwnedKeeps ==
    ASSUME SlotsInv, LoadOwned
    PROVE  refresh' \in Refreshes /\ refresh'.pc = "owned" /\ Lists(refresh')
<1>0. ProfilesKnown /\ refresh \in Refreshes /\ Loaded(refresh)
  BY DEF SlotsInv, RefreshKeeps, LoadOwned
<1>1. LiveSources \subseteq Wallets
  BY <1>0, SourcesAre
<1>2. refresh' = [refresh EXCEPT !.pc = "owned", !.owned = LiveSources,
                                 !.read = refresh.read \cup LiveSources]
  BY DEF LoadOwned, Owned, LiveSources
<1>3. /\ refresh' \in Refreshes /\ refresh'.pc = "owned" /\ refresh'.owned = LiveSources
      /\ refresh'.read = refresh.read \cup LiveSources
      /\ refresh'.slots = refresh.slots /\ refresh'.order = refresh.order
  BY <1>0, <1>1, <1>2 DEF Refreshes
<1>. DEFINE owned == LiveSources
            rest == (ToSet(refresh.order) \cap refresh.slots) \ owned
            front == Sorted(owned, ByAddress)
            back == Sorted(rest, As(refresh.order))
<1>4. Listed(refresh') = UpTo(front \o back, Slots)
  BY <1>3 DEF Listed
<1>5. front \in Seq(Wallets) /\ Len(front) = Cardinality(owned) /\ ToSet(front) = owned
  BY <1>0, <1>1, RankOrders, SortedList
<1>7. back \in Seq(Wallets) /\ Len(back) = Cardinality(rest) /\ ToSet(back) = rest
  <2>1. refresh.order \in Seq(Wallets) /\ Distinct(refresh.order) /\ rest \subseteq Wallets
    BY <1>0 DEF Refreshes, Loaded
  <2>2. Ranks(As(refresh.order), rest)
    BY <2>1, ListRanks
  <2>. HIDE DEF rest
  <2>. QED  BY <2>1, <2>2, SortedList
<1>6. ASSUME Cardinality(refresh'.read) <= Slots
      PROVE  refresh'.read \subseteq ToSet(Listed(refresh'))
  <2>1. CASE live
    <3>1. refresh'.read = owned
      BY <1>0, <1>3, <2>1 DEF Loaded
    <3>2. Len(front) <= Slots
      BY <1>5, <1>6, <3>1
    <3>. HIDE DEF front, back, owned
    <3>3. ToSet(front) \subseteq ToSet(UpTo(front \o back, Slots))
      BY <1>5, <1>7, <3>2, Cut, SlotsAssumption
    <3>. QED  BY <1>4, <1>5, <3>1, <3>3
  <2>2. CASE ~live
    <3>1. owned \subseteq refresh.read /\ refresh'.read = refresh.read
      BY <1>0, <1>3, <2>2 DEF Loaded
    <3>2. Placed(refresh)
      BY <1>0, <1>6, <2>2, <3>1 DEF Loaded
    <3>3. rest = refresh.slots \ owned /\ owned \subseteq refresh.slots
          /\ refresh.read \subseteq owned \cup rest
      BY <3>1, <3>2 DEF Placed
    <3>4. IsFiniteSet(refresh.slots)
      BY <1>0, SlotsAssumption, FS_Subset DEF Refreshes
    <3>. HIDE DEF front, back, owned, rest
    <3>5. refresh.slots \cap owned = owned
      BY <3>3
    <3>6. Cardinality(rest) = Cardinality(refresh.slots) - Cardinality(owned)
      BY <3>3, <3>4, <3>5, FS_Difference
    <3>7. Cardinality(refresh.slots) \in Nat /\ Cardinality(owned) \in Nat
      BY <3>3, <3>4, FS_Subset, FS_CardinalityType
    <3>8. Len(front) + Len(back) <= Slots /\ Len(front) <= Slots
      BY <1>5, <1>7, <3>2, <3>6, <3>7, SlotsAssumption DEF Placed
    <3>9. ToSet(front) \subseteq ToSet(UpTo(front \o back, Slots))
          /\ ToSet(back) \subseteq ToSet(UpTo(front \o back, Slots))
      BY <1>5, <1>7, <3>8, Cut, SlotsAssumption
    <3>. QED  BY <1>4, <1>5, <1>7, <3>1, <3>3, <3>9
  <2>. QED  BY <2>1, <2>2
<1>8. Listed(refresh') \in Seq(Wallets) /\ Len(Listed(refresh')) <= Slots
  <2>. HIDE DEF front, back
  <2>1. front \o back \in Seq(Wallets)
    BY <1>5, <1>7
  <2>. QED  BY <1>4, <2>1, CutTyped, SlotsAssumption
<1>. QED  BY <1>3, <1>6, <1>8 DEF Lists
----------------------------------------------------------------------------
LEMMA RefreshSame ==
    ASSUME SlotsInv, UNCHANGED <<refresh, live>>, live \/ LiveSources' \subseteq LiveSources
    PROVE  RefreshKeeps'
<1>1. RefreshKeeps
  BY DEF SlotsInv
<1>2. Loaded(refresh) => Loaded(refresh)'
  BY DEF Loaded, Placed
<1>3. Lists(refresh)' <=> Lists(refresh)
  BY DEF Lists, Listed
<1>. QED  BY <1>1, <1>2, <1>3 DEF RefreshKeeps

LEMMA LiveSame ==
    ASSUME UNCHANGED exposure
    PROVE  LiveSources' \subseteq LiveSources
BY DEF LiveSources

LEMMA StreamSame ==
    ASSUME SlotsInv, UNCHANGED stream
    PROVE  stream' \in Streams /\ ExposureKeepsSlot'
BY DEF SlotsInv, ExposureKeepsSlot

(* Scoring, cleanup and the operator, and the allocations of others.       *)
LEMMA ScoresKeep ==
    ASSUME SlotsInv, UNCHANGED <<live, exposure, refresh, stream>>,
           profile' \in [Wallets -> Profiles \cup {Unscored}]
    PROVE  SlotsInv'
<1>1. ProfilesKnown'
  BY DEF SlotsInv, ProfilesKnown
<1>. QED  BY <1>1, RefreshSame, LiveSame, StreamSame DEF SlotsInv

LEMMA QuietKeeps ==
    ASSUME SlotsInv, UNCHANGED <<live, profile, exposure, refresh, stream>>
    PROVE  SlotsInv'
BY ScoresKeep DEF SlotsInv, ProfilesKnown

LEMMA EditsKeep ==
    ASSUME SlotsInv, NEW w \in Wallets,
           (\E r \in RowStates : Edit(w, r)) \/ Admit(w) \/ DeleteWallet(w)
    PROVE  SlotsInv'
<1>1. UNCHANGED <<live, profile, exposure, refresh, stream>>
  BY DEF Edit, Admit, DeleteWallet, Change, records, copies, loops
<1>. QED  BY <1>1, QuietKeeps

LEMMA RescoreKeeps ==
    ASSUME SlotsInv, NEW w \in Wallets, NEW p \in Profiles, Rescore(w, p)
    PROVE  SlotsInv'
<1>1. UNCHANGED <<live, exposure, refresh, stream>> /\ profile' = [profile EXCEPT ![w] = p]
  BY DEF Rescore, Change, copies, loops
<1>2. profile' \in [Wallets -> Profiles \cup {Unscored}]
  BY <1>1 DEF SlotsInv, ProfilesKnown
<1>. QED  BY <1>1, <1>2, ScoresKeep

LEMMA CleanupKeeps == SlotsInv /\ (Archive \/ Delete) => SlotsInv'
<1>. SUFFICES ASSUME SlotsInv, Archive \/ Delete PROVE SlotsInv'
  OBVIOUS
<1>1. UNCHANGED <<live, exposure, refresh, stream>>
  BY DEF Archive, Delete, copies, loops
<1>2. profile' \in [Wallets -> Profiles \cup {Unscored}]
  BY DEF SlotsInv, ProfilesKnown, Archive, Delete
<1>. QED  BY <1>1, <1>2, ScoresKeep

LEMMA CopiesKeep ==
    ASSUME SlotsInv, NEW w \in Wallets,
           (\E kind \in {"paper", "live"} : Open(w, kind)) \/ Close(w)
    PROVE  SlotsInv'
<1>0. ProfilesKnown
  BY DEF SlotsInv
<1>1. UNCHANGED <<live, profile, refresh, stream>>
  BY DEF Open, Close, records, loops
<1>2. PICK kind \in {"none", "paper", "live"} :
          exposure' = [exposure EXCEPT ![w] = kind] /\ (kind = "live" => live)
  BY DEF Open, Close
<1>3. ProfilesKnown'
  BY <1>0, <1>1, <1>2 DEF ProfilesKnown
<1>4. live \/ LiveSources' \subseteq LiveSources
  BY <1>0, <1>2 DEF LiveSources, ProfilesKnown
<1>. QED  BY <1>1, <1>3, <1>4, RefreshSame, StreamSame DEF SlotsInv

LEMMA DisconnectKeeps == SlotsInv /\ Disconnect => SlotsInv'
<1>. SUFFICES ASSUME SlotsInv, Disconnect PROVE SlotsInv'
  OBVIOUS
<1>1. UNCHANGED <<live, profile, exposure, refresh>>
  BY DEF Disconnect, records, copies
<1>2. ProfilesKnown' /\ RefreshKeeps'
  BY <1>1, RefreshSame, LiveSame DEF SlotsInv, ProfilesKnown
<1>3. stream' \in Streams /\ stream'.status = "off"
  BY DEF Disconnect, NoStream, Streams
<1>. QED  BY <1>2, <1>3 DEF SlotsInv, ExposureKeepsSlot

LEMMA AcknowledgeKeeps ==
    ASSUME SlotsInv, NEW w \in Wallets, Acknowledge(w)
    PROVE  SlotsInv'
<1>0. UNCHANGED <<live, profile, exposure, refresh>> /\ stream \in Streams
  BY DEF SlotsInv, Acknowledge, records, copies
<1>1. ProfilesKnown' /\ RefreshKeeps'
  BY <1>0, RefreshSame, LiveSame DEF SlotsInv, ProfilesKnown
<1>. DEFINE acked == stream.acked \cup {w}
            status == IF acked = ToSet(stream.desired) THEN "connected" ELSE "connecting"
            known == [stream EXCEPT !.acked = acked]
<1>2. stream' = [known EXCEPT !.status = status] /\ stream.status = "connecting"
  BY DEF Acknowledge
<1>3. acked \in SUBSET Wallets /\ status \in {"connected", "connecting"}
  BY <1>0 DEF Streams
<1>. HIDE DEF acked, status
<1>4. known \in Streams /\ known.read = stream.read /\ known.desired = stream.desired
  BY <1>0, <1>3 DEF Streams
<1>. HIDE DEF known
<1>5. stream' \in Streams /\ stream'.read = known.read /\ stream'.desired = known.desired
  BY <1>2, <1>3, <1>4 DEF Streams
<1>. QED  BY <1>1, <1>2, <1>4, <1>5 DEF SlotsInv, ExposureKeepsSlot

LEMMA LoadsKeep == SlotsInv /\ (Load \/ LoadOwned) => SlotsInv'
<1>. SUFFICES ASSUME SlotsInv, Load \/ LoadOwned PROVE SlotsInv'
  OBVIOUS
<1>1. UNCHANGED <<live, profile, exposure, stream>>
  BY DEF Load, LoadOwned, records, copies
<1>2. ProfilesKnown'
  BY <1>1 DEF SlotsInv, ProfilesKnown
<1>3. Loaded(refresh') => Loaded(refresh)'
  BY <1>1 DEF Loaded, Placed, LiveSources
<1>4. Lists(refresh') => Lists(refresh)'
  BY DEF Lists, Listed
<1>5. RefreshKeeps'
  BY <1>3, <1>4, LoadKeeps, OwnedKeeps DEF RefreshKeeps
<1>. QED  BY <1>1, <1>2, <1>5, StreamSame DEF SlotsInv

LEMMA CommitKeeps == SlotsInv /\ CommitRefresh => SlotsInv'
<1>. SUFFICES ASSUME SlotsInv, CommitRefresh PROVE SlotsInv'
  OBVIOUS
<1>0. stream \in Streams /\ refresh \in Refreshes /\ Lists(refresh)
  BY DEF SlotsInv, RefreshKeeps, CommitRefresh
<1>. DEFINE list == Listed(refresh)
            same == stream.status = "connected" /\ list = stream.desired
            first == stream.status = "off" /\ list # <<>>
<1>1. UNCHANGED <<live, profile, exposure>> /\ refresh' = NoRefresh
  BY DEF CommitRefresh, Store
<1>2. ProfilesKnown' /\ RefreshKeeps'
  BY <1>1 DEF SlotsInv, ProfilesKnown, RefreshKeeps, NoRefresh, Refreshes
<1>3. stream' = IF same THEN [stream EXCEPT !.read = refresh.read]
                ELSE IF first THEN [status |-> "connecting", desired |-> list,
                                    acked |-> {}, read |-> refresh.read]
                ELSE NoStream
  BY DEF CommitRefresh
<1>4. refresh.read \in SUBSET Wallets
  BY <1>0 DEF Refreshes
<1>5. CASE same
  <2>1. stream' = [stream EXCEPT !.read = refresh.read] /\ stream.desired = list
    BY <1>3, <1>5
  <2>2. stream' \in Streams /\ stream'.read = refresh.read /\ stream'.desired = list
    BY <1>0, <1>4, <2>1 DEF Streams
  <2>. QED  BY <1>0, <1>2, <2>2 DEF SlotsInv, ExposureKeepsSlot, Lists
<1>6. CASE ~same /\ first
  <2>1. stream' = [status |-> "connecting", desired |-> list, acked |-> {}, read |-> refresh.read]
    BY <1>3, <1>6
  <2>2. list \in Seq(Wallets)
    BY <1>0 DEF Lists
  <2>. HIDE DEF list
  <2>3. stream' \in Streams /\ stream'.read = refresh.read /\ stream'.desired = list
    BY <1>4, <2>1, <2>2 DEF Streams
  <2>. QED  BY <1>0, <1>2, <2>3 DEF SlotsInv, ExposureKeepsSlot, Lists, list
<1>7. CASE ~same /\ ~first
  <2>1. stream' \in Streams /\ stream'.status = "off"
    BY <1>3, <1>7 DEF NoStream, Streams
  <2>. QED  BY <1>2, <2>1 DEF SlotsInv, ExposureKeepsSlot
<1>. QED  BY <1>5, <1>6, <1>7

LEMMA DeathKeeps == SlotsInv /\ WorkerDies => SlotsInv'
<1>. SUFFICES ASSUME SlotsInv, WorkerDies PROVE SlotsInv'
  OBVIOUS
<1>1. UNCHANGED <<profile, exposure>> /\ refresh' = NoRefresh /\ stream' = NoStream
  BY DEF WorkerDies, records
<1>2. refresh' \in Refreshes /\ refresh'.pc = "idle" /\ stream' \in Streams /\ stream'.status = "off"
  BY <1>1 DEF NoRefresh, NoStream, Refreshes, Streams
<1>. QED  BY <1>1, <1>2 DEF SlotsInv, ProfilesKnown, RefreshKeeps, ExposureKeepsSlot

LEMMA SlotsStep == SlotsInv /\ [SlotsNext]_slotVars => SlotsInv'
<1>. SUFFICES ASSUME SlotsInv, [SlotsNext]_slotVars PROVE SlotsInv'
  OBVIOUS
<1>1. CASE UNCHANGED slotVars
  <2>1. UNCHANGED <<live, profile, exposure, refresh, stream>>
    BY <1>1 DEF slotVars, records, copies, loops
  <2>. QED  BY <2>1, QuietKeeps
<1>2. ASSUME NEW w \in Wallets,
             \/ \E p \in Profiles : Rescore(w, p)
             \/ \E r \in RowStates : Edit(w, r)
             \/ Admit(w) \/ DeleteWallet(w) \/ Acknowledge(w) \/ Close(w)
             \/ \E kind \in {"paper", "live"} : Open(w, kind)
      PROVE  SlotsInv'
  BY <1>2, EditsKeep, RescoreKeeps, CopiesKeep, AcknowledgeKeeps
<1>3. CASE Prune \/ Recheck \/ LoadOther \/ TakeSnapshot
           \/ \E syncs, engine \in BOOLEAN : CommitOther(syncs, engine)
  <2>1. UNCHANGED <<live, profile, exposure, refresh, stream>>
    BY <1>3 DEF Prune, Recheck, LoadOther, CommitOther, TakeSnapshot,
                Change, Store, records, copies, chosen, loops
  <2>. QED  BY <2>1, QuietKeeps
<1>. QED  BY <1>1, <1>2, <1>3, CleanupKeeps, LoadsKeep, CommitKeeps, DisconnectKeeps,
            DeathKeeps DEF SlotsNext
----------------------------------------------------------------------------
(* The realtime loop: the sources that copies are held from stay in the    *)
(* open subscription as far as its last check could see them, whatever     *)
(* became of the wallets, if there are places for all of them.             *)
THEOREM HeldSourcesStay == SlotsSpec => []ExposureKeepsSlot
  <1>1. SlotsInv => ExposureKeepsSlot
    BY DEF SlotsInv
  <1> QED BY <1>1, SlotsStart, SlotsStep, PTL DEF SlotsSpec
----------------------------------------------------------------------------
(* The other variables of the slots have their types.                      *)
Cleanups == [pc : {"idle", "chosen", "checked"}, deletes : BOOLEAN, wallets : SUBSET Wallets]

RowsTyped == live \in BOOLEAN /\ watched \in [Wallets -> RowStates]
SetsTyped ==
    /\ active \subseteq Wallets /\ lanes \subseteq Wallets
    /\ snapshot \subseteq Wallets /\ taken \subseteq Wallets
LoopsTyped ==
    /\ other \in Refreshes /\ other.pc \in {"idle", "loaded"}
    /\ stream.acked \subseteq ToSet(stream.desired) /\ Len(stream.desired) <= Slots
WorkTyped == cleanup \in Cleanups /\ changes \in 0..MaxChanges

SlotsKept == SlotsInv /\ RowsTyped /\ SetsTyped /\ LoopsTyped /\ WorkTyped

LEMMA NothingYet ==
    /\ NoRefresh \in Refreshes /\ NoRefresh.pc = "idle"
    /\ NoStream \in Streams /\ ToSet(NoStream.desired) = {} /\ NoStream.acked = {}
    /\ Len(NoStream.desired) = 0 /\ NoCleanup \in Cleanups
  BY DEF NoRefresh, Refreshes, NoStream, Streams, NoCleanup, Cleanups, ToSet

LEMMA SlotsKeptStarts == SlotsInit => SlotsKept
  <1> SUFFICES ASSUME SlotsInit PROVE SlotsKept
    OBVIOUS
  <1>1. RowsTyped
    BY DEF SlotsInit, RowsTyped, RowStates
  <1>2. SetsTyped /\ LoopsTyped /\ WorkTyped
    BY NothingYet, SlotsAssumption DEF SlotsInit, SetsTyped, LoopsTyped, WorkTyped, SlotsAssumption
  <1> QED BY <1>1, <1>2, SlotsStart DEF SlotsKept

LEMMA RowsStayTyped == SlotsKept /\ [SlotsNext]_slotVars => RowsTyped'
  <1> SUFFICES ASSUME SlotsKept, [SlotsNext]_slotVars PROVE RowsTyped'
    OBVIOUS
  <1>0. live \in BOOLEAN /\ watched \in [Wallets -> RowStates]
    BY DEF SlotsKept, RowsTyped
  <1>1. live' \in BOOLEAN
    BY <1>0 DEF SlotsNext, slotVars, Rescore, Edit, Admit, DeleteWallet, Acknowledge, Close, Open,
           Prune, Recheck, Archive, Delete, Load, LoadOwned, CommitRefresh, LoadOther, CommitOther,
           Store, TakeSnapshot, Disconnect, WorkerDies
  <1>2. ASSUME NEW w \in Wallets, NEW r \in RowStates, watched' = [watched EXCEPT ![w] = r]
        PROVE  watched' \in [Wallets -> RowStates]
    BY <1>0, <1>2
  <1>3. {"pool", "none", "archived"} \subseteq RowStates
    BY DEF RowStates
  <1>4. CASE \E w \in Wallets : (\E r \in RowStates : Edit(w, r)) \/ Admit(w)
    BY <1>1, <1>2, <1>3, <1>4 DEF RowsTyped, Edit, Admit
  <1>5. CASE Archive \/ Delete
    BY <1>0, <1>1, <1>3, <1>5 DEF RowsTyped, Archive, Delete
  <1>6. CASE CommitRefresh \/ \E syncs, engine \in BOOLEAN : CommitOther(syncs, engine)
    BY <1>0, <1>1, <1>3, <1>6 DEF RowsTyped, CommitRefresh, CommitOther, Store
  <1>7. CASE UNCHANGED watched
    BY <1>0, <1>1, <1>7 DEF RowsTyped
  <1> QED BY <1>4, <1>5, <1>6, <1>7
          DEF SlotsNext, slotVars, records, Rescore, DeleteWallet, Acknowledge, Close, Open,
              Prune, Recheck, Load, LoadOwned, LoadOther, TakeSnapshot, Disconnect, WorkerDies

LEMMA SetsStayTyped == SlotsKept /\ [SlotsNext]_slotVars => SetsTyped'
  <1> SUFFICES ASSUME SlotsKept, [SlotsNext]_slotVars PROVE SetsTyped'
    OBVIOUS
  <1>0. SetsTyped /\ refresh.active \subseteq Wallets /\ other.active \subseteq Wallets
    BY DEF SlotsKept, LoopsTyped, SlotsInv, RefreshKeeps, Refreshes
  <1>1. CASE UNCHANGED <<taken, chosen>>
    BY <1>0, <1>1 DEF SetsTyped, chosen
  <1>2. CASE Delete \/ CommitRefresh \/ TakeSnapshot \/ WorkerDies
             \/ \E syncs, engine \in BOOLEAN : CommitOther(syncs, engine)
    BY <1>0, <1>2 DEF SetsTyped, Delete, CommitRefresh, TakeSnapshot, WorkerDies, CommitOther,
                      Store, copies, chosen
  <1>3. CASE \E w \in Wallets : Open(w, "paper") \/ Open(w, "live") \/ Close(w)
    BY <1>0, <1>3 DEF SetsTyped, Open, Close, chosen
  <1> QED BY <1>1, <1>2, <1>3
          DEF SlotsNext, slotVars, copies, chosen, Rescore, Edit, Admit, DeleteWallet, Acknowledge,
              Change, Prune, Recheck, Archive, Load, LoadOwned, LoadOther, Disconnect

LEMMA LoopsStayTyped == SlotsKept /\ [SlotsNext]_slotVars => LoopsTyped'
  <1> SUFFICES ASSUME SlotsKept, [SlotsNext]_slotVars PROVE LoopsTyped'
    OBVIOUS
  <1>0. LoopsTyped /\ ProfilesKnown /\ stream \in Streams
    BY DEF SlotsKept, SlotsInv
  <1> DEFINE OtherOK == other' \in Refreshes /\ other'.pc \in {"idle", "loaded"}
             StreamOK == /\ stream'.acked \subseteq ToSet(stream'.desired)
                         /\ Len(stream'.desired) <= Slots
  <1>1. CASE UNCHANGED <<other, stream>>
    BY <1>0, <1>1 DEF LoopsTyped
  <1>2. stream' = NoStream => StreamOK
    BY NothingYet, SlotsAssumption DEF SlotsAssumption
  <1>3. stream' = stream => StreamOK
    BY <1>0 DEF LoopsTyped
  <1>4. other' = NoRefresh \/ other' = other => OtherOK
    BY <1>0, NothingYet DEF LoopsTyped
  <1>5. CASE LoadOther
    <2>1. Candidates \cap SlotSources \subseteq Wallets /\ OpenSources \subseteq Wallets
      BY <1>0, SourcesAre
    <2>2. other' \in Refreshes /\ other'.pc = "loaded"
      BY <1>5, <2>1, NothingYet DEF LoadOther, Refreshes, NoRefresh
    <2> QED BY <1>3, <1>5, <2>2 DEF LoadOther, LoopsTyped
  <1>6. CASE \E w \in Wallets : Acknowledge(w)
    <2>1. PICK w \in ToSet(stream.desired) :
              stream' = [stream EXCEPT !.acked = stream.acked \cup {w}, !.status =
                           IF stream.acked \cup {w} = ToSet(stream.desired)
                           THEN "connected" ELSE "connecting"]
      BY <1>6 DEF Acknowledge
    <2>2. stream'.acked = stream.acked \cup {w} /\ stream'.desired = stream.desired
      BY <1>0, <2>1 DEF Streams
    <2>3. StreamOK
      BY <1>0, <2>2 DEF LoopsTyped
    <2> QED BY <1>4, <1>6, <2>3 DEF Acknowledge, LoopsTyped
  <1>7. CASE CommitRefresh
    <2> DEFINE list == Listed(refresh)
    <2>1. Len(list) <= Slots
      BY <1>7 DEF SlotsKept, SlotsInv, RefreshKeeps, CommitRefresh, Lists
    <2>2. \/ stream' = [stream EXCEPT !.read = refresh.read]
          \/ stream' = [status |-> "connecting", desired |-> list, acked |-> {},
                        read |-> refresh.read]
          \/ stream' = NoStream
      BY <1>7 DEF CommitRefresh
    <2> HIDE DEF list
    <2>3. StreamOK
      <3>1. CASE stream' = [stream EXCEPT !.read = refresh.read]
        <4>1. stream'.acked = stream.acked /\ stream'.desired = stream.desired
          BY <1>0, <3>1 DEF Streams
        <4> QED BY <1>0, <4>1 DEF LoopsTyped
      <3>2. CASE stream' = [status |-> "connecting", desired |-> list, acked |-> {},
                            read |-> refresh.read]
        BY <2>1, <3>2
      <3> QED BY <1>2, <2>2, <3>1, <3>2
    <2> QED BY <1>4, <1>7, <2>3 DEF CommitRefresh, LoopsTyped
  <1>8. CASE Disconnect \/ WorkerDies
    BY <1>2, <1>4, <1>8 DEF Disconnect, WorkerDies, LoopsTyped
  <1>9. CASE \E syncs, engine \in BOOLEAN : CommitOther(syncs, engine)
    BY <1>3, <1>4, <1>9 DEF CommitOther, LoopsTyped
  <1> QED BY <1>1, <1>5, <1>6, <1>7, <1>8, <1>9
          DEF SlotsNext, slotVars, loops, Rescore, Edit, Admit, DeleteWallet, Close, Open,
              Prune, Recheck, Archive, Delete, Load, LoadOwned, TakeSnapshot

LEMMA WorkStaysTyped == SlotsKept /\ [SlotsNext]_slotVars => WorkTyped'
  <1> SUFFICES ASSUME SlotsKept, [SlotsNext]_slotVars PROVE WorkTyped'
    OBVIOUS
  <1>0. cleanup \in Cleanups /\ changes \in 0..MaxChanges
    BY DEF SlotsKept, WorkTyped
  <1>1. changes' \in 0..MaxChanges
    <2>1. changes' = changes \/ (changes < MaxChanges /\ changes' = changes + 1)
      BY DEF SlotsNext, slotVars, Rescore, Edit, Admit, DeleteWallet, Acknowledge, Close, Open,
           Prune, Recheck, Archive, Delete, Load, LoadOwned, CommitRefresh, LoadOther, CommitOther,
           Change, Store, TakeSnapshot, Disconnect, WorkerDies
    <2> QED BY <1>0, <2>1, SlotsAssumption DEF SlotsAssumption
  <1>2. CASE cleanup' = cleanup \/ cleanup' = NoCleanup
    BY <1>0, <1>1, <1>2, NothingYet DEF WorkTyped
  <1>3. CASE Prune \/ \E w \in Wallets : DeleteWallet(w)
    <2>1. ASSUME NEW rule \in SUBSET Wallets, Select(rule)
          PROVE  cleanup' \in Cleanups
      <3>1. PICK found \in SUBSET Wallets :
                cleanup' = [pc |-> "chosen", deletes |-> FALSE, wallets |-> found]
        BY <2>1 DEF Select
      <3> QED BY <3>1 DEF Cleanups
    <2>2. CASE Prune
      <3>1. \E rule \in SUBSET Wallets : Select(rule)
        BY <2>2 DEF Prune
      <3> QED BY <1>1, <2>1, <3>1 DEF WorkTyped
    <2>3. CASE \E w \in Wallets : DeleteWallet(w)
      BY <1>1, <2>3 DEF DeleteWallet, Cleanups, WorkTyped
    <2> QED BY <1>3, <2>2, <2>3
  <1>4. CASE Recheck
    <2> DEFINE left == {w \in cleanup.wallets : ~Protected(w)}
    <2>1. left \subseteq Wallets
      BY <1>0 DEF Cleanups
    <2>2. cleanup' = NoCleanup \/ cleanup' = [cleanup EXCEPT !.pc = "checked", !.wallets = left]
      BY <1>4 DEF Recheck
    <2> HIDE DEF left
    <2>3. cleanup' \in Cleanups
      BY <1>0, <2>1, <2>2, NothingYet DEF Cleanups
    <2> QED BY <1>1, <2>3 DEF WorkTyped
  <1> QED BY <1>2, <1>3, <1>4
          DEF SlotsNext, slotVars, Rescore, Edit, Admit, Acknowledge, Close, Open, Archive, Delete,
              Load, LoadOwned, CommitRefresh, LoadOther, CommitOther, Store, TakeSnapshot,
              Disconnect, WorkerDies

LEMMA SlotsKeptStep == SlotsKept /\ [SlotsNext]_slotVars => SlotsKept'
  BY SlotsStep, RowsStayTyped, SetsStayTyped, LoopsStayTyped, WorkStaysTyped DEF SlotsKept

LEMMA SlotsTyped == SlotsKept => SlotsTypeOK
  BY DEF SlotsKept, SlotsInv, ProfilesKnown, RefreshKeeps, Refreshes, Streams, Cleanups,
         RowsTyped, SetsTyped, LoopsTyped, WorkTyped, SlotsTypeOK
----------------------------------------------------------------------------
(* The parts side by side.                                                 *)
SourcesInv ==
    /\ CacheBounded /\ BudgetInv /\ StatusKept /\ DecisionInv /\ TypedInv /\ SlotsKept
    /\ HistoryTypes

LEMMA SourcesStart == SourcesInit => SourcesInv
  BY CacheBoundsStart, BudgetStarts, StatusStarts, DecisionStarts, TypedStarts, SlotsKeptStarts,
     HistoryStart DEF SourcesInit, SourcesInv

LEMMA SourcesStep == SourcesInv /\ [SourcesNext]_sourceVars => SourcesInv'
  <1> SUFFICES ASSUME SourcesInv, [SourcesNext]_sourceVars PROVE SourcesInv'
    OBVIOUS
  <1>1. /\ [CacheNext]_cacheVars /\ [BudgetNext]_budgetVars /\ [StatusNext]_statusVars
        /\ [CopyNext]_copyVars /\ [TradesNext]_tradeVars /\ [SlotsNext]_slotVars
        /\ [HistoryNext]_historyVars
    BY DEF SourcesNext, sourceVars
  <1>2. CacheBounded' /\ BudgetInv' /\ StatusKept'
    BY <1>1, CacheBounds, BudgetStep, StatusStep DEF SourcesInv
  <1>3. DecisionInv' /\ TypedInv'
    BY <1>1, DecisionStep, TypedKeeps DEF SourcesInv
  <1>4. SlotsKept' /\ HistoryTypes'
    BY <1>1, SlotsKeptStep, TypedStep DEF SourcesInv
  <1> QED BY <1>2, <1>3, <1>4 DEF SourcesInv

(* The variables of every part keep their types, in all that the parts do  *)
(* side by side: cached states, requests, status rows, copies, trades and  *)
(* their synchronizations, slots, and the fills that are stored.           *)
THEOREM SourcesAllTyped == SourcesSpec => []SourcesTyped
  <1>1. SourcesInv => SourcesTyped
    <2> SUFFICES ASSUME SourcesInv PROVE SourcesTyped
      OBVIOUS
    <2>1. CacheTypeOK /\ BudgetTypeOK /\ StatusTypeOK
      BY CacheTyped, StatusTyped DEF SourcesInv, BudgetInv
    <2>2. CopyTypeOK
      BY FlatIs DEF SourcesInv, DecisionInv, CopyTypeOK
    <2>3. TradesTypeOK /\ SlotsTypeOK /\ HistoryTypeOK
      BY TradesTyped, SlotsTyped DEF SourcesInv, HistoryTypes
    <2> QED BY <2>1, <2>2, <2>3 DEF SourcesTyped
  <1> QED BY <1>1, SourcesStart, SourcesStep, PTL DEF SourcesSpec
=============================================================================
