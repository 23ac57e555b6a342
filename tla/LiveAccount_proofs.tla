------------------------- MODULE LiveAccount_proofs -------------------------
(***************************************************************************)
(* A live account is not enabled while a close-all is open, and nobody is  *)
(* inside a lock that is not its own, for any requests, markets and rows.  *)
(*                                                                         *)
(* Only a start enables an account, in a section of its own that holds the *)
(* lock of close-alls; a close-all keeps that lock from the step that took *)
(* the account out of trading to the one that writes its row, and a start  *)
(* after that sees the row.  So the invariant is about who holds what: it  *)
(* says of each request where it is and which locks it has there.          *)
(***************************************************************************)
EXTENDS LiveAccount, TLAPS

(* Records keep their fields; that is all the proof needs of their types.  *)
Fields == {"kind", "pc", "round", "asked", "found", "scopes", "snap", "clean", "todo",
           "at", "slot", "moved", "stopped", "late"}

Shaped(w) == DOMAIN w = Tasks /\ \A u \in Tasks : DOMAIN w[u] = Fields

(* What a start between its sections was told: a stop is also a move.      *)
Told(r) == r.stopped => r.moved
StillTold(w, v) == \A u \in Tasks : Told(v[u]) => Told(w[u])

(* w is v but for the notes of a task: where every task is has not changed. *)
Alike(w, v) ==
    /\ Shaped(w) /\ StillTold(w, v)
    /\ \A u \in Tasks : w[u].kind = v[u].kind /\ w[u].pc = v[u].pc

(* w is v but for task t, which is at pc of a request of a kind.           *)
Sent(w, v, t, kind, pc) ==
    /\ Shaped(w) /\ StillTold(w, v) /\ w[t].kind = kind /\ w[t].pc = pc
    /\ \A u \in Tasks \ {t} : w[u].kind = v[u].kind /\ w[u].pc = v[u].pc

LEMMA MovedAlike == ASSUME NEW w, Shaped(w) PROVE Alike(Moved(w), w)
  BY DEF Shaped, Moved, Alike, Fields, StillTold, Told

(* What the operator and the rules do to the status.                       *)
LEMMA NotedAlike == ASSUME NEW w, Shaped(w) PROVE Alike(Stopped(Moved(w)), w)
  <1> DEFINE m == Moved(w)
  <1>1. /\ DOMAIN m = Tasks
        /\ \A u \in Tasks : /\ DOMAIN m[u] = Fields
                           /\ m[u].kind = w[u].kind /\ m[u].pc = w[u].pc
                           /\ m[u].stopped = w[u].stopped
                           /\ m[u].moved = (w[u].moved \/ w[u].pc = "between")
    BY DEF Shaped, Moved, Fields
  <1> HIDE DEF m
  <1>2. /\ DOMAIN Stopped(m) = Tasks
        /\ \A u \in Tasks : /\ DOMAIN Stopped(m)[u] = Fields
                           /\ Stopped(m)[u].kind = m[u].kind /\ Stopped(m)[u].pc = m[u].pc
                           /\ Stopped(m)[u].moved = m[u].moved
                           /\ Stopped(m)[u].stopped = (m[u].stopped \/ m[u].pc = "between")
    BY <1>1 DEF Stopped, Fields
  <1>3. Alike(Stopped(m), w)
    BY <1>1, <1>2 DEF Alike, Shaped, StillTold, Told
  <1> QED BY <1>3 DEF m

LEMMA LaterAlike == ASSUME Shaped(work) PROVE Alike(Later, work)
  BY DEF Shaped, Later, Alike, Fields, StillTold, Told

LEMMA IdleShape == DOMAIN Idle = Fields /\ Idle.kind = "none" /\ Idle.pc = "idle" /\ Told(Idle)
  BY DEF Idle, Fields, Told

LEMMA GoneSent ==
    ASSUME Shaped(work), NEW t \in Tasks
    PROVE  Sent(Gone(t), work, t, "none", "idle")
  BY IdleShape DEF Shaped, Gone, Sent, StillTold

LEMMA GoSent ==
    ASSUME Shaped(work), NEW t \in Tasks, NEW pc
    PROVE  Sent(Go(t, pc), work, t, work[t].kind, pc)
  BY DEF Shaped, Go, Sent, Fields, StillTold, Told

LEMMA ReconcileSent ==
    ASSUME NEW w, Shaped(w), NEW t \in Tasks
    PROVE  Sent(ReconcileFrom(t, w), w, t, w[t].kind, "orders")
  BY DEF Shaped, ReconcileFrom, Sent, Fields, StillTold, Told

LEMMA KindSent ==
    ASSUME Shaped(work), NEW t \in Tasks, NEW kind
    PROVE  Sent([work EXCEPT ![t].kind = kind], work, t, kind, work[t].pc)
  BY DEF Shaped, Sent, Fields, StillTold, Told

(* Two changes in a row.                                                   *)
LEMMA SentAlike ==
    ASSUME NEW v, NEW w, NEW t \in Tasks, NEW kind, NEW pc,
           Sent(v, work, t, kind, pc), Alike(w, v)
    PROVE  Sent(w, work, t, kind, pc)
  BY DEF Sent, Alike, StillTold

LEMMA SentSent ==
    ASSUME NEW u, NEW v, NEW w, NEW t \in Tasks, NEW k, NEW p, NEW kind, NEW pc,
           Sent(v, u, t, k, p), Sent(w, v, t, kind, pc)
    PROVE  Sent(w, u, t, kind, pc)
  BY DEF Sent, StillTold

LEMMA AlikeAlike ==
    ASSUME NEW u, NEW v, NEW w, Alike(v, u), Alike(w, v)
    PROVE  Alike(w, u)
  BY DEF Alike, StillTold
----------------------------------------------------------------------------
Placed ==
    \A t \in Tasks :
        /\ work[t].pc = "open" => work[t].kind = "close"
        /\ work[t].pc = "finish" => work[t].kind \in {"disable", "delete"}

OutOfTrading ==
    closing \/ (\E t \in Tasks : work[t].pc = "open") => status # "enabled"

StopsTold == \A t \in Tasks : Told(work[t])

AccountInv == Shaped(work) /\ StopsTold /\ LocksHeld /\ Placed /\ OutOfTrading

NeedsOuter(kind, pc) == kind \in {"close", "disable", "delete"} \/ (kind = "start" /\ pc # "between")
NeedsFence(pc) == pc \in {"orders", "positions", "apply", "finish", "reply"}
MayBe(kind, pc) ==
    /\ pc = "open" => kind = "close"
    /\ pc = "finish" => kind \in {"disable", "delete"}

(* Nobody loses a lock but t.                                              *)
OnlyOf(t) ==
    \A u \in Tasks \ {t} : (outer = u => outer' = u) /\ (fence = u => fence' = u)

(* Neither does the account open nor a close-all begin.                    *)
Calm(pc) ==
    /\ status' = status \/ status' # "enabled"
    /\ closing' => closing \/ status' # "enabled"
    /\ pc = "open" => status' # "enabled"

(* A step of one task.                                                     *)
LEMMA TaskStep ==
    ASSUME AccountInv, NEW t \in Tasks, NEW kind, NEW pc,
           Sent(work', work, t, kind, pc), MayBe(kind, pc), OnlyOf(t),
           NeedsOuter(kind, pc) => outer' = t, NeedsFence(pc) => fence' = t,
           Calm(pc) \/ OutOfTrading'
    PROVE  AccountInv'
  <1>1. Shaped(work')
    BY DEF Sent
  <1>2. LocksHeld'
    BY DEF AccountInv, LocksHeld, HoldsOuter, HoldsFence, Sent, OnlyOf, NeedsOuter, NeedsFence
  <1>3. Placed'
    BY DEF AccountInv, Placed, Sent, MayBe
  <1>4. OutOfTrading'
    BY DEF AccountInv, OutOfTrading, Calm, Sent
  <1>5. StopsTold'
    BY DEF AccountInv, StopsTold, Sent, StillTold
  <1> QED BY <1>1, <1>2, <1>3, <1>4, <1>5 DEF AccountInv

(* A step that leaves every task where it is.                              *)
LEMMA RestingStep ==
    ASSUME AccountInv, Alike(work', work), UNCHANGED <<outer, fence, closing>>,
           status' = status \/ status' # "enabled"
    PROVE  AccountInv'
  BY DEF AccountInv, Alike, LocksHeld, HoldsOuter, HoldsFence, Placed, OutOfTrading,
         StopsTold, StillTold
----------------------------------------------------------------------------
LEMMA AccountStarts == Init => AccountInv
  BY IdleShape DEF Init, AccountInv, Shaped, LocksHeld, HoldsOuter, HoldsFence, Placed,
                   OutOfTrading, StopsTold

(* What the invariant says of a task that holds its locks.                 *)
LEMMA Holding ==
    ASSUME AccountInv, NEW t \in Tasks
    PROVE  /\ NeedsOuter(work[t].kind, work[t].pc) => outer = t
           /\ NeedsFence(work[t].pc) => fence = t
           /\ MayBe(work[t].kind, work[t].pc)
           /\ work[t].pc = "open" => status # "enabled"
           /\ Free \notin Tasks
  BY AccountAssumption
     DEF AccountInv, LocksHeld, HoldsOuter, HoldsFence, NeedsOuter, NeedsFence, Placed, MayBe,
         OutOfTrading, AccountAssumption

(* A request begins with a reconciliation under the fence.                 *)
LEMMA BeginSent ==
    ASSUME Shaped(work), NEW t \in Tasks, NEW kind
    PROVE  Sent(ReconcileFrom(t, [work EXCEPT ![t].kind = kind]), work, t, kind, "orders")
  <1> DEFINE w == [work EXCEPT ![t].kind = kind]
  <1>1. Sent(w, work, t, kind, work[t].pc)
    BY KindSent
  <1>2. Shaped(w)
    BY <1>1 DEF Sent
  <1>3. Sent(ReconcileFrom(t, w), w, t, w[t].kind, "orders") /\ w[t].kind = kind
    BY ZenonT(30), <1>1, <1>2, ReconcileSent DEF Sent
  <1> QED BY <1>1, <1>3, SentSent

LEMMA NotedSent ==
    ASSUME NEW w, NEW t \in Tasks, NEW kind, NEW pc, Sent(w, work, t, kind, pc)
    PROVE  Sent(Stopped(Moved(w)), work, t, kind, pc)
  <1>1. Shaped(w)
    BY DEF Sent
  <1>2. Alike(Stopped(Moved(w)), w)
    BY <1>1, NotedAlike
  <1> DEFINE n == Stopped(Moved(w))
  <1>3. Alike(n, w)
    BY <1>2
  <1> HIDE DEF n
  <1>4. Sent(n, work, t, kind, pc)
    BY <1>3, SentAlike
  <1> QED BY <1>4 DEF n
----------------------------------------------------------------------------
LEMMA ReconcileStep ==
    ASSUME AccountInv, NEW t \in Tasks, Reconcile(t)
    PROVE  AccountInv'
  <1>0. Shaped(work)
    BY DEF AccountInv
  <1>h. Free \notin Tasks
    BY Holding
  <1>1. CASE ReadOrders(t)
    <2>1. work[t].pc = "orders" /\ UNCHANGED <<status, closing, outer, fence>>
      BY <1>1 DEF ReadOrders, account, operation, locks
    <2>2. Sent(work', work, t, work[t].kind, "positions")
      BY <1>0, <1>1 DEF ReadOrders, Shaped, Sent, Fields, StillTold, Told
    <2> QED BY <2>1, <2>2, Holding, TaskStep DEF NeedsOuter, NeedsFence, MayBe, OnlyOf, Calm
  <1>2. CASE FetchPositions(t)
    <2>1. work[t].pc = "positions" /\ UNCHANGED <<status, closing, outer, fence>>
      BY <1>2 DEF FetchPositions, account, operation, locks
    <2>2. Sent(work', work, t, work[t].kind, "apply")
      BY <1>0, <1>2 DEF FetchPositions, Shaped, Sent, Fields, StillTold, Told
    <2> QED BY <2>1, <2>2, Holding, TaskStep DEF NeedsOuter, NeedsFence, MayBe, OnlyOf, Calm
  <1>3. CASE ApplyReconciliation(t)
    <2> DEFINE pc == After(t)
               kind == IF pc = "idle" THEN "none" ELSE work[t].kind
               next == IF pc = "idle" THEN Gone(t)
                       ELSE [Go(t, pc) EXCEPT ![t].clean = fresh', ![t].asked = {},
                                ![t].found = {}, ![t].scopes = {}, ![t].snap = {}]
    <2>1. /\ work[t].pc = "apply" /\ closing' = closing
          /\ fence' = IF work[t].kind \in {"disable", "delete"} THEN fence ELSE Free
          /\ outer' = IF work[t].kind = "start" THEN Free ELSE outer
          /\ status' = status \/ status' = "exit_only"
          /\ work' = next \/ work' = Moved(next)
      BY <1>3 DEF ApplyReconciliation
    <2>2. Sent(next, work, t, kind, pc)
      <3>1. CASE pc = "idle"
        BY <1>0, <3>1, GoneSent
      <3>2. CASE pc # "idle"
        <4>1. Sent(Go(t, pc), work, t, work[t].kind, pc)
          BY <1>0, GoSent
        <4>2. Alike(next, Go(t, pc))
          BY <3>2, <4>1 DEF Sent, Shaped, Alike, Fields, StillTold, Told
        <4> HIDE DEF next, pc
        <4> QED BY <3>2, <4>1, <4>2, SentAlike
      <3> QED BY <3>1, <3>2
    <2> HIDE DEF next
    <2>3. Sent(work', work, t, kind, pc)
      <3>1. Shaped(next)
        BY <2>2 DEF Sent
      <3> QED BY <2>1, <2>2, <3>1, MovedAlike, SentAlike
    <2>4. /\ pc \in {"between", "idle", "finish", "list", "closing", "recovered", "send"}
          /\ pc = "finish" <=> work[t].kind \in {"disable", "delete"}
          /\ work[t].kind = "start" => pc \in {"between", "idle"}
      BY DEF After
    <2>5. OnlyOf(t)
      BY <1>h, <2>1, Holding DEF OnlyOf, NeedsOuter, NeedsFence
    <2>6. (NeedsOuter(kind, pc) => outer' = t) /\ (NeedsFence(pc) => fence' = t) /\ MayBe(kind, pc)
      BY <2>1, <2>4, Holding DEF NeedsOuter, NeedsFence, MayBe
    <2>7. Calm(pc)
      BY <2>1, <2>4 DEF Calm
    <2> HIDE DEF pc, kind
    <2> QED BY <2>3, <2>5, <2>6, <2>7, TaskStep
  <1>4. CASE FailReconciliation(t)
    <2>1. /\ UNCHANGED <<status, closing>>
          /\ work' = Gone(t) /\ fence' = Drop(fence, t) /\ outer' = Drop(outer, t)
      BY <1>4 DEF FailReconciliation, operation
    <2> QED BY <1>0, <2>1, GoneSent, TaskStep
            DEF NeedsOuter, NeedsFence, MayBe, OnlyOf, Calm, Drop
  <1> QED BY <1>1, <1>2, <1>3, <1>4 DEF Reconcile

LEMMA BeginStep ==
    ASSUME AccountInv, NEW t \in Tasks, Begin(t)
    PROVE  AccountInv'
  <1> USE DEF NeedsOuter, NeedsFence, MayBe, OnlyOf, Calm
  <1>0. Shaped(work) /\ Free \notin Tasks
    BY Holding DEF AccountInv
  <1>1. CASE ReconcileLoop(t)
    <2>1. /\ fence = Free /\ fence' = t /\ UNCHANGED <<status, closing, outer>>
          /\ work' = ReconcileFrom(t, [work EXCEPT ![t].kind = "loop"])
      BY <1>1 DEF ReconcileLoop, account, operation
    <2> QED BY <1>0, <2>1, BeginSent, TaskStep
  <1>2. CASE StartAccount(t)
    <2>1. /\ outer = Free /\ outer' = t /\ fence = Free /\ fence' = t
          /\ UNCHANGED <<status, closing>>
          /\ work' = ReconcileFrom(t, [work EXCEPT ![t].kind = "start"])
      BY <1>2 DEF StartAccount, account, operation
    <2> QED BY <1>0, <2>1, BeginSent, TaskStep
  <1>3. CASE DisableAccount(t)
    <2> DEFINE begun == ReconcileFrom(t, [work EXCEPT ![t].kind = "disable"])
    <2>1. /\ outer = Free /\ outer' = t /\ fence = Free /\ fence' = t /\ closing' = closing
          /\ status' = status \/ status' = "exit_only"
          /\ work' = begun \/ work' = Stopped(Moved(begun))
      BY <1>3 DEF DisableAccount, operation
    <2>2. Sent(begun, work, t, "disable", "orders")
      BY <1>0, BeginSent
    <2> HIDE DEF begun
    <2>3. Sent(work', work, t, "disable", "orders")
      BY <2>1, <2>2, NotedSent
    <2> QED BY <1>0, <2>1, <2>3, TaskStep
  <1>4. CASE DeleteAccount(t)
    <2>1. /\ outer = Free /\ outer' = t /\ fence = Free /\ fence' = t
          /\ UNCHANGED <<status, closing>>
          /\ work' = ReconcileFrom(t, [work EXCEPT ![t].kind = "delete"])
      BY <1>4 DEF DeleteAccount, account, operation
    <2> QED BY <1>0, <2>1, BeginSent, TaskStep
  <1>5. CASE CloseAll(t)
    <2> DEFINE begun == [work EXCEPT ![t].kind = "close", ![t].pc = "open"]
    <2>1. /\ outer = Free /\ outer' = t /\ UNCHANGED <<fence, closing>>
          /\ status' = "exit_only"
          /\ work' = begun \/ work' = Stopped(Moved(begun))
      BY <1>5 DEF CloseAll, operation
    <2>2. Sent(begun, work, t, "close", "open")
      BY <1>0 DEF Shaped, Sent, Fields, StillTold, Told
    <2> HIDE DEF begun
    <2>3. Sent(work', work, t, "close", "open")
      BY <2>1, <2>2, NotedSent
    <2> QED BY <1>0, <2>1, <2>3, TaskStep
  <1>6. CASE ManualClose(t)
    <2>1. PICK c \in rows :
            LET begun == [work EXCEPT ![t].kind = "manual", ![t].pc = "lock", ![t].at = c]
            IN \/ status' = "exit_only" /\ work' = Stopped(Moved(begun))
               \/ status' = status /\ work' = begun
      BY <1>6 DEF ManualClose
    <2> DEFINE begun == [work EXCEPT ![t].kind = "manual", ![t].pc = "lock", ![t].at = c]
    <2>2. Sent(begun, work, t, "manual", "lock")
      BY <1>0 DEF Shaped, Sent, Fields, StillTold, Told
    <2>3. (status' = status \/ status' = "exit_only")
          /\ (work' = begun \/ work' = Stopped(Moved(begun)))
      BY <2>1
    <2> HIDE DEF begun
    <2>4. Sent(work', work, t, "manual", "lock")
      BY <2>2, <2>3, NotedSent
    <2>5. UNCHANGED <<closing, outer, fence>>
      BY <1>6 DEF ManualClose, operation, locks
    <2> QED BY <2>3, <2>4, <2>5, TaskStep
  <1>7. CASE TradeOrder(t)
    <2> DEFINE kind == IF work[t].kind = "none" THEN "trade" ELSE work[t].kind
    <2>1. /\ work[t].pc = "idle" /\ fence = Free /\ fence' = t
          /\ UNCHANGED <<status, closing, outer>>
          /\ \E s \in Slots : work' = [work EXCEPT ![t].pc = "reply", ![t].slot = s,
                                 ![t].kind = IF @ = "none" THEN "trade" ELSE @]
      BY <1>7 DEF TradeOrder, Request, account, operation
    <2>2. Sent(work', work, t, kind, "reply")
      BY <1>0, <2>1 DEF Shaped, Sent, Fields, StillTold, Told
    <2>3. NeedsOuter(kind, "reply") => outer' = t
      BY <2>1, Holding
    <2> HIDE DEF kind
    <2> QED BY <1>0, <2>1, <2>2, <2>3, TaskStep
  <1> QED BY <1>1, <1>2, <1>3, <1>4, <1>5, <1>6, <1>7 DEF Begin

LEMMA ProceedStep ==
    ASSUME AccountInv, NEW t \in Tasks, Proceed(t)
    PROVE  AccountInv'
  <1> USE DEF NeedsOuter, NeedsFence, MayBe, OnlyOf, Calm
  <1>0. Shaped(work) /\ Free \notin Tasks
    BY Holding DEF AccountInv
  <1>g. Sent(Gone(t), work, t, "none", "idle")
    BY <1>0, GoneSent
  <1>1. CASE TakeFence(t)
    <2>1. work[t].pc = "lock" /\ UNCHANGED <<status, closing>>
      BY <1>1 DEF TakeFence, account, operation
    <2>2. CASE fence = Free
      <3>1. fence' = t /\ outer' = outer /\ work' = ReconcileFrom(t, work)
        BY <1>1, <2>2 DEF TakeFence
      <3>2. Sent(work', work, t, work[t].kind, "orders")
        BY <1>0, <3>1, ReconcileSent
      <3> QED BY <1>0, <2>1, <2>2, <3>1, <3>2, Holding, TaskStep
    <2>3. CASE fence # Free
      <3>1. fence' = fence /\ outer' = Drop(outer, t) /\ work' = Gone(t)
        BY <1>1, <2>3 DEF TakeFence
      <3> QED BY <1>g, <2>1, <3>1, TaskStep DEF Drop
    <2> QED BY <2>2, <2>3
  <1>2. CASE Enable(t)
    <2>1. /\ work[t].pc = "between" /\ UNCHANGED <<closing, outer, fence>>
          /\ \/ MayStart(t) /\ status' = "enabled" /\ work' = Moved(Gone(t))
             \/ status' = status /\ work' = Gone(t)
      BY <1>2 DEF Enable, operation, locks
    <2>2. Sent(work', work, t, "none", "idle")
      <3>1. Alike(Moved(Gone(t)), Gone(t))
        BY <1>g, MovedAlike DEF Sent
      <3> QED BY <1>g, <2>1, <3>1, SentAlike
    <2>3. CASE status' = status
      BY <2>1, <2>2, <2>3, TaskStep
    <2>4. CASE MayStart(t) /\ status' = "enabled"
      <3>1. \A u \in Tasks : work[u].pc # "open"
        BY <1>0, <2>4, Holding DEF MayStart
      <3>2. ~closing
        BY <2>4 DEF MayStart, AccountInv, OutOfTrading
      <3>3. OutOfTrading'
        BY <2>1, <2>2, <3>1, <3>2 DEF OutOfTrading, Sent
      <3> QED BY <2>1, <2>2, <3>3, TaskStep
    <2> QED BY <2>1, <2>3, <2>4
  <1>3. CASE Finish(t)
    <2>1. /\ work[t].pc = "finish" /\ outer' = Free /\ fence' = Free /\ closing' = closing
          /\ status' = status \/ status' = "disabled"
          /\ work' = Gone(t) \/ work' = Stopped(Moved(Gone(t)))
      BY <1>3 DEF Finish, operation
    <2>2. Sent(work', work, t, "none", "idle")
      BY <1>g, <2>1, NotedSent
    <2>3. outer = t /\ fence = t
      BY <2>1, Holding
    <2> QED BY <1>0, <2>1, <2>2, <2>3, TaskStep
  <1>4. CASE OpenOperation(t)
    <2>1. work[t].pc = "open" /\ work' = Go(t, "lock") /\ UNCHANGED <<status, outer, fence>>
      BY <1>4 DEF OpenOperation, account, locks
    <2>2. Sent(work', work, t, work[t].kind, "lock")
      BY <1>0, <2>1, GoSent
    <2>3. status # "enabled"
      BY <2>1, Holding
    <2> QED BY <2>1, <2>2, <2>3, Holding, TaskStep
  <1>5. ASSUME EndOperation(t) PROVE AccountInv'
    <2>1. /\ outer' = Drop(outer, t) /\ fence' = fence
          /\ status' = status \/ status' = "disabled"
          /\ closing' => closing
          /\ work' = Gone(t) \/ work' = Stopped(Moved(Gone(t)))
      BY <1>5 DEF EndOperation
    <2>2. Sent(work', work, t, "none", "idle")
      BY <1>g, <2>1, NotedSent
    <2> QED BY <2>1, <2>2, TaskStep DEF Drop
  <1>6. CASE ListPositions(t)
    <2>1. CASE rows = {}
      BY <1>5, <1>6, <2>1 DEF ListPositions
    <2>2. CASE rows # {}
      <3>1. /\ work[t].pc = "list" /\ UNCHANGED <<status, closing, outer, fence>>
            /\ work' = [work EXCEPT ![t].pc = "next", ![t].todo = rows]
        BY <1>6, <2>2 DEF ListPositions, account, locks
      <3>2. Sent(work', work, t, work[t].kind, "next")
        BY <1>0, <3>1 DEF Shaped, Sent, Fields, StillTold, Told
      <3> QED BY <3>1, <3>2, Holding, TaskStep
    <2> QED BY <2>1, <2>2
  <1>7. CASE CheckFlat(t)
    BY <1>5, <1>7 DEF CheckFlat
  <1>8. CASE NextItem(t)
    <2>1. work[t].pc = "next" /\ UNCHANGED <<status, closing, outer, fence>>
      BY <1>8 DEF NextItem, account, locks
    <2>2. \E pc \in {"lock", "next", "send"} : Sent(work', work, t, work[t].kind, pc)
      <3>1. PICK c \in work[t].todo :
              LET left == [work EXCEPT ![t].todo = @ \ {c}]
              IN \/ work' = Passed(left, t)
                 \/ work' = [left EXCEPT ![t].pc = "send", ![t].at = c]
        BY <1>8 DEF NextItem
      <3> DEFINE left == [work EXCEPT ![t].todo = @ \ {c}]
      <3>2. Alike(left, work)
        BY <1>0 DEF Shaped, Alike, Fields, StillTold, Told
      <3>3. work' = Passed(left, t) \/ work' = [left EXCEPT ![t].pc = "send", ![t].at = c]
        BY <3>1
      <3> HIDE DEF left
      <3>4. CASE work' = Passed(left, t)
        BY <3>2, <3>4 DEF Passed, Alike, Shaped, Sent, Fields, StillTold, Told
      <3>5. CASE work' = [left EXCEPT ![t].pc = "send", ![t].at = c]
        BY <3>2, <3>5 DEF Alike, Shaped, Sent, Fields, StillTold, Told
      <3> QED BY <3>3, <3>4, <3>5
    <2> QED BY <2>1, <2>2, Holding, TaskStep
  <1>9. CASE BookItem(t)
    <2>1. /\ work[t].pc = "book" /\ UNCHANGED <<status, closing, outer, fence>>
          /\ work' = Passed([work EXCEPT ![t].slot = 0, ![t].at = "none"], t)
      BY <1>9 DEF BookItem, account, locks
    <2>2. \E pc \in {"lock", "next"} : Sent(work', work, t, work[t].kind, pc)
      <3> DEFINE left == [work EXCEPT ![t].slot = 0, ![t].at = "none"]
      <3>1. Alike(left, work)
        BY <1>0 DEF Shaped, Alike, Fields, StillTold, Told
      <3>2. work' = Passed(left, t)
        BY <2>1
      <3> HIDE DEF left
      <3> QED BY <3>1, <3>2 DEF Passed, Alike, Shaped, Sent, Fields, StillTold, Told
    <2> QED BY <2>1, <2>2, Holding, TaskStep
  <1>10. CASE RecoverManual(t)
    <2>1. work' = Gone(t) /\ UNCHANGED <<status, closing, outer, fence>>
      BY <1>10 DEF RecoverManual, account, operation, locks
    <2> QED BY <1>g, <2>1, TaskStep
  <1>11. CASE SendClose(t)
    <2>1. work[t].pc = "send" /\ UNCHANGED <<status, closing, outer>>
      BY <1>11 DEF SendClose, account, operation
    <2>2. CASE fence = Free /\ status # "disabled"
      <3> DEFINE kind == IF work[t].kind = "none" THEN "trade" ELSE work[t].kind
      <3>1. fence' = t /\ \E s \in Slots : work' = [work EXCEPT ![t].pc = "reply", ![t].slot = s,
                                 ![t].kind = IF @ = "none" THEN "trade" ELSE @]
        BY <1>11, <2>2 DEF SendClose, Request
      <3>2. Sent(work', work, t, kind, "reply")
        BY <1>0, <3>1 DEF Shaped, Sent, Fields, StillTold, Told
      <3>3. NeedsOuter(kind, "reply") => outer' = t
        BY <2>1, Holding
      <3> HIDE DEF kind
      <3> QED BY <1>0, <2>1, <2>2, <3>1, <3>2, <3>3, TaskStep
    <2>3. CASE ~(fence = Free /\ status # "disabled")
      <3>1. fence' = fence /\ (work' = Go(t, "book") \/ work' = Gone(t))
        BY <1>11, <2>3 DEF SendClose
      <3>2. Sent(Go(t, "book"), work, t, work[t].kind, "book")
        BY <1>0, GoSent
      <3>3. CASE work' = Go(t, "book")
        BY <2>1, <3>1, <3>2, <3>3, Holding, TaskStep
      <3>4. CASE work' = Gone(t)
        BY <1>g, <2>1, <3>1, <3>4, TaskStep
      <3> QED BY <3>1, <3>3, <3>4
    <2> QED BY <2>2, <2>3
  <1>12. CASE Reply(t)
    <2>1. /\ work[t].pc = "reply" /\ fence' = Free /\ UNCHANGED <<status, closing, outer>>
          /\ work' \in {Gone(t), Go(t, "book"), Go(t, "lock")}
      BY <1>12 DEF Reply, account, operation
    <2>2. fence = t
      BY <2>1, Holding
    <2>3. CASE work' = Gone(t)
      BY <1>0, <1>g, <2>1, <2>2, <2>3, TaskStep
    <2>4. ASSUME NEW pc \in {"book", "lock"}, work' = Go(t, pc) PROVE AccountInv'
      <3>1. Sent(work', work, t, work[t].kind, pc)
        BY <1>0, <2>4, GoSent
      <3> QED BY <1>0, <2>1, <2>2, <3>1, Holding, TaskStep
    <2> QED BY <2>1, <2>3, <2>4
  <1> QED BY <1>1, <1>2, <1>3, <1>4, <1>6, <1>7, <1>8, <1>9, <1>10, <1>11, <1>12 DEF Proceed
----------------------------------------------------------------------------
LEMMA CrashStep ==
    ASSUME AccountInv, NEW t \in Tasks, Crash(t)
    PROVE  AccountInv'
  <1>1. /\ UNCHANGED <<status, closing>>
        /\ work' = Gone(t) /\ fence' = Drop(fence, t) /\ outer' = Drop(outer, t)
    BY DEF Crash, account, operation
  <1>2. Sent(work', work, t, "none", "idle")
    BY <1>1, GoneSent DEF AccountInv
  <1> QED BY <1>1, <1>2, TaskStep DEF NeedsOuter, NeedsFence, MayBe, OnlyOf, Calm, Drop

(* The operator, the rules, recovery and the exchange.                     *)
LEMMA WorldStep ==
    ASSUME AccountInv,
           \/ Stop \/ SetExitOnly \/ RiskTrip \/ Restore \/ Age
           \/ \E s \in Slots : Recover(s) \/ Execute(s) \/ Refuse(s)
           \/ \E c \in Coins : OpenOutside(c) \/ CloseOutside(c)
    PROVE  AccountInv'
  <1>0. Shaped(work)
    BY DEF AccountInv
  <1>1. Alike(work, work) /\ Alike(Moved(work), work) /\ Alike(Later, work)
        /\ Alike(Stopped(Moved(work)), work)
    BY <1>0, MovedAlike, LaterAlike, NotedAlike DEF Alike, StillTold
  <1>2. CASE Stop \/ SetExitOnly \/ RiskTrip \/ Restore \/ Age
    <2>1. /\ work' \in {work, Moved(work), Stopped(Moved(work))}
          /\ status' = status \/ status' # "enabled"
          /\ UNCHANGED <<outer, fence, closing>>
      BY <1>2 DEF Stop, SetExitOnly, RiskTrip, Restore, Age, operation, locks
    <2> QED BY <1>1, <2>1, RestingStep
  <1>3. CASE \E s \in Slots : Recover(s) \/ Execute(s) \/ Refuse(s)
    <2>1. work' \in {work, Later} /\ UNCHANGED <<status, outer, fence, closing>>
      BY <1>3 DEF Recover, Execute, Refuse, account, operation, locks
    <2> QED BY <1>1, <2>1, RestingStep
  <1>4. CASE \E c \in Coins : OpenOutside(c) \/ CloseOutside(c)
    <2>1. work' \in {work, Later} /\ UNCHANGED <<status, outer, fence, closing>>
      BY <1>4 DEF OpenOutside, CloseOutside, account, operation, locks
    <2> QED BY <1>1, <2>1, RestingStep
  <1> QED BY <1>2, <1>3, <1>4

LEMMA AccountStep == AccountInv /\ [Next]_vars => AccountInv'
  <1> SUFFICES ASSUME AccountInv, [Next]_vars PROVE AccountInv'
    OBVIOUS
  <1>1. ASSUME NEW t \in Tasks, Begin(t) \/ Reconcile(t) \/ Proceed(t) \/ Crash(t)
        PROVE  AccountInv'
    BY <1>1, BeginStep, ReconcileStep, ProceedStep, CrashStep
  <1>2. CASE \/ Stop \/ SetExitOnly \/ RiskTrip \/ Restore \/ Age
             \/ \E s \in Slots : Recover(s) \/ Execute(s) \/ Refuse(s)
             \/ \E c \in Coins : OpenOutside(c) \/ CloseOutside(c)
    BY <1>2, WorldStep
  <1>3. CASE UNCHANGED vars
    BY <1>3 DEF vars, AccountInv, Shaped, LocksHeld, HoldsOuter, HoldsFence, Placed,
                   OutOfTrading, StopsTold
  <1> QED BY <1>1, <1>2, <1>3 DEF Next
----------------------------------------------------------------------------
(* live_trading_service: no start enables an account whose close-all is    *)
(* open, whatever requests, crashes and reconciliations overlap.           *)
THEOREM ClosingHolds == Spec => []NotEnabledWhileClosing
  <1>1. AccountInv => NotEnabledWhileClosing
    BY DEF AccountInv, OutOfTrading, NotEnabledWhileClosing
  <1> QED BY <1>1, AccountStarts, AccountStep, PTL DEF Spec

(* A request that counts on a lock of the account has it.                  *)
THEOREM LocksStay == Spec => []LocksHeld
  <1>1. AccountInv => LocksHeld
    BY DEF AccountInv
  <1> QED BY <1>1, AccountStarts, AccountStep, PTL DEF Spec

(* Only the second section of a start enables the account.                 *)
LEMMA EnabledByStart ==
    ASSUME Next, status # "enabled", status' = "enabled"
    PROVE  \E t \in Tasks : Enable(t)
  <1>1. ASSUME NEW t \in Tasks, Begin(t) PROVE FALSE
    BY <1>1 DEF Begin, ReconcileLoop, StartAccount, DisableAccount, DeleteAccount, CloseAll,
                ManualClose, TradeOrder, account
  <1>2. ASSUME NEW t \in Tasks, Reconcile(t) PROVE FALSE
    BY <1>2 DEF Reconcile, ReadOrders, FetchPositions, ApplyReconciliation, FailReconciliation,
                account
  <1>3. ASSUME NEW t \in Tasks, Proceed(t) PROVE Enable(t)
    BY <1>3 DEF Proceed, TakeFence, Finish, OpenOperation, ListPositions, CheckFlat, EndOperation,
                NextItem, BookItem, RecoverManual, SendClose, Reply, account
  <1>4. ASSUME NEW t \in Tasks, Crash(t) PROVE FALSE
    BY <1>4 DEF Crash, account
  <1>5. ~(Stop \/ SetExitOnly \/ RiskTrip \/ Restore \/ Age)
    BY DEF Stop, SetExitOnly, RiskTrip, Restore, Age
  <1>6. \A s \in Slots : ~(Recover(s) \/ Execute(s) \/ Refuse(s))
    BY DEF Recover, Execute, Refuse, account
  <1>7. \A c \in Coins : ~(OpenOutside(c) \/ CloseOutside(c))
    BY DEF OpenOutside, CloseOutside, account
  <1> QED BY <1>1, <1>2, <1>3, <1>4, <1>5, <1>6, <1>7 DEF Next

(* live_trading_service: a start does not undo a stop, a close-all or a    *)
(* risk trip that fell between its two sections.                           *)
THEOREM StopsStand == Spec => StartHonorsStop
  <1>1. AccountInv /\ [Next]_vars => [EnabledUnstopped]_vars
    <2> SUFFICES ASSUME AccountInv, Next, status # "enabled", status' = "enabled"
                 PROVE  \E t \in Tasks : /\ work[t].pc = "between" /\ work'[t] = Idle
                                        /\ ~work[t].stopped
      BY DEF vars, EnabledUnstopped
    <2>1. PICK t \in Tasks : Enable(t)
      BY EnabledByStart
    <2>2. work[t].pc = "between" /\ MayStart(t) /\ work' = Moved(Gone(t))
      BY <2>1 DEF Enable
    <2>3. ~work[t].stopped
      BY <2>2 DEF MayStart, AccountInv, StopsTold, Told
    <2>4. DOMAIN Gone(t) = Tasks /\ Gone(t)[t] = Idle
      BY DEF AccountInv, Shaped, Gone
    <2>5. work'[t] = Idle
      <3>1. work'[t] = [Idle EXCEPT !.moved = @ \/ Idle.pc = "between"]
        BY <2>2, <2>4 DEF Moved
      <3> QED BY <3>1 DEF Idle
    <2> QED BY <2>2, <2>3, <2>5
  <1> QED BY <1>1, AccountStarts, AccountStep, PTL DEF Spec, StartHonorsStop
----------------------------------------------------------------------------
(* Disabled means flat.  The reading of a task is what its reconciliation  *)
(* saw; it goes stale only by a position that turns up behind it, which    *)
(* late notes.  While a reading that was taken in full is not late, the    *)
(* rows cover the exchange: another reconciliation that is applied in the  *)
(* meantime was read under the fence, so after it, and cannot take a row   *)
(* away whose position is still there.                                     *)

Reading == {"orders", "positions"}
Listed == {"list", "closing", "finish"}

FlatTask(r) ==
    /\ r.round \in Nat
    /\ r.pc \in Reading \cup {"apply"} \cup Listed => r.round # 0
    /\ r.pc \in Reading => ~r.late
    /\ r.pc = "apply" /\ ~r.late => held \cap r.scopes \subseteq r.snap
    /\ r.pc \in Listed /\ r.clean /\ ~r.late => held \subseteq rows

FlatInv ==
    /\ \A t \in Tasks : FlatTask(work[t])
    /\ \A t, u \in Tasks :
          work[t].pc \in Listed /\ ~work[t].late /\ work[u].pc = "apply" => ~work[u].late

(* What a task works on is a market and a row of the account.              *)
TypedTask(r) ==
    /\ r.scopes \subseteq Coins /\ r.snap \subseteq Coins /\ r.todo \subseteq Coins
    /\ r.found \subseteq Slots /\ (r.pc = "send" => r.at \in Coins)

OrderFields == {"entry", "coin", "status", "wire"}

TypedOrder(o) ==
    /\ DOMAIN o = OrderFields /\ o.status \in Unsettled \cup {"settled"}
    /\ o.wire = "sent" => o.coin \in Coins

TypedItem(i) ==
    DOMAIN i = {"status", "order"} /\ i.status \in {"none", "submitting", "uncertain", "settled"}

OrdersTyped == DOMAIN order = Slots /\ \A s \in Slots : TypedOrder(order[s])
ItemsTyped == DOMAIN item = Coins /\ \A c \in Coins : TypedItem(item[c])

TypesInv ==
    /\ TypeOK
    /\ OrdersTyped /\ ItemsTyped
    /\ \A t \in Tasks : TypedTask(work[t])

(* Two records of a task that say the same of its reading and its orders.  *)
Same(r, q) ==
    /\ r.pc = q.pc /\ r.round = q.round /\ r.scopes = q.scopes /\ r.snap = q.snap
    /\ r.clean = q.clean /\ r.late = q.late
    /\ r.todo = q.todo /\ r.at = q.at /\ r.found = q.found

OthersSame(w, v, t) == \A u \in Tasks \ {t} : Same(w[u], v[u])

(* A record at none of the points where a reading counts.                  *)
QuietTask(r) ==
    /\ r.pc \notin {"apply"} \cup Listed /\ r.round \in Nat
    /\ r.pc \in Reading => r.round # 0 /\ ~r.late

(* Task t is taken to a record that is typed and quiet.                    *)
Quietly(w, t) ==
    Shaped(w) /\ OthersSame(w, work, t) /\ QuietTask(w[t]) /\ TypedTask(w[t])

LEMMA MovedSame == ASSUME NEW w, Shaped(w), NEW u \in Tasks PROVE Same(Moved(w)[u], w[u])
  BY DEF Shaped, Moved, Fields, Same

LEMMA NotedSame ==
    ASSUME NEW w, Shaped(w), NEW u \in Tasks
    PROVE  Same(Stopped(Moved(w))[u], w[u]) /\ Shaped(Stopped(Moved(w)))
  <1> DEFINE m == Moved(w)
  <1>1. Shaped(m) /\ Same(m[u], w[u])
    BY MovedAlike, MovedSame DEF Alike
  <1> HIDE DEF m
  <1>2. Same(Stopped(m)[u], m[u]) /\ Shaped(Stopped(m))
    BY <1>1 DEF Shaped, Stopped, Fields, Same
  <1>3. Same(Stopped(m)[u], w[u]) /\ Shaped(Stopped(m))
    BY <1>1, <1>2 DEF Same
  <1> QED BY <1>3 DEF m

LEMMA SameQuiet ==
    ASSUME NEW r, NEW q, Same(r, q), QuietTask(q), TypedTask(q)
    PROVE  QuietTask(r) /\ TypedTask(r)
  BY DEF Same, QuietTask, TypedTask, Reading, Listed

LEMMA NotedQuietly ==
    ASSUME NEW w, NEW t \in Tasks, Quietly(w, t)
    PROVE  Quietly(Stopped(Moved(w)), t) /\ Quietly(Moved(w), t)
  <1> DEFINE n == Stopped(Moved(w))
             m == Moved(w)
  <1>1. Shaped(m) /\ Shaped(n) /\ \A u \in Tasks : Same(n[u], w[u]) /\ Same(m[u], w[u])
    BY NotedSame, MovedSame, MovedAlike DEF Quietly, Alike
  <1> HIDE DEF m, n
  <1>2. OthersSame(n, work, t) /\ OthersSame(m, work, t)
    BY <1>1 DEF Quietly, OthersSame, Same
  <1>3. QuietTask(n[t]) /\ TypedTask(n[t]) /\ QuietTask(m[t]) /\ TypedTask(m[t])
    BY <1>1, SameQuiet DEF Quietly
  <1>4. Quietly(n, t) /\ Quietly(m, t)
    BY <1>1, <1>2, <1>3 DEF Quietly
  <1> QED BY <1>4 DEF m, n

LEMMA GoneQuietly == ASSUME Shaped(work), NEW t \in Tasks PROVE Quietly(Gone(t), t)
  <1>1. Gone(t)[t] = Idle /\ (\A u \in Tasks \ {t} : Gone(t)[u] = work[u]) /\ Shaped(Gone(t))
    BY IdleShape DEF Shaped, Gone
  <1>2. QuietTask(Idle) /\ TypedTask(Idle)
    BY DEF QuietTask, TypedTask, Idle, Reading, Listed
  <1> QED BY <1>1, <1>2 DEF Quietly, OthersSame, Same

(* A reconciliation begins with nothing read.                              *)
LEMMA ReconcileQuietly ==
    ASSUME NEW w, NEW t \in Tasks, Shaped(w), OthersSame(w, work, t),
           w[t].round \in Nat, w[t].todo \subseteq Coins
    PROVE  Quietly(ReconcileFrom(t, w), t)
  <1> DEFINE v == ReconcileFrom(t, w)
  <1>1. /\ Shaped(v) /\ \A u \in Tasks \ {t} : v[u] = w[u]
        /\ v[t].pc = "orders" /\ v[t].round = w[t].round + 1 /\ v[t].late = FALSE
        /\ v[t].scopes = {} /\ v[t].snap = {} /\ v[t].found = {} /\ v[t].todo = w[t].todo
    BY DEF Shaped, ReconcileFrom, Fields
  <1> HIDE DEF v
  <1>2. QuietTask(v[t]) /\ TypedTask(v[t])
    BY <1>1 DEF QuietTask, TypedTask, Reading, Listed
  <1>3. OthersSame(v, work, t)
    BY <1>1 DEF OthersSame
  <1>4. Quietly(v, t)
    BY <1>1, <1>2, <1>3 DEF Quietly
  <1> QED BY <1>4 DEF v

LEMMA TaskFacts ==
    ASSUME AccountInv, FlatInv, TypesInv, NEW t \in Tasks
    PROVE  /\ Shaped(work) /\ work[t].round \in Nat
           /\ TypedTask(work[t]) /\ FlatTask(work[t]) /\ rows \subseteq Coins
  BY DEF AccountInv, FlatInv, FlatTask, TypesInv, TypeOK

(* A request that starts a task has read nothing yet.                      *)
LEMMA BeginQuietly ==
    ASSUME AccountInv, FlatInv, TypesInv, NEW t \in Tasks, Begin(t)
    PROVE  Quietly(work', t) /\ UNCHANGED <<rows, held>>
  <1>0. /\ Shaped(work) /\ work[t].round \in Nat /\ TypedTask(work[t]) /\ rows \subseteq Coins
    BY TaskFacts
  <1>1. ASSUME NEW kind
        PROVE  Quietly(ReconcileFrom(t, [work EXCEPT ![t].kind = kind]), t)
    <2> DEFINE w == [work EXCEPT ![t].kind = kind]
    <2>1. /\ Shaped(w) /\ OthersSame(w, work, t) /\ w[t].round = work[t].round
          /\ w[t].todo = work[t].todo
      BY <1>0 DEF Shaped, Fields, OthersSame, Same
    <2> HIDE DEF w
    <2>2. Quietly(ReconcileFrom(t, w), t)
      BY <1>0, <2>1, ReconcileQuietly DEF TypedTask
    <2> QED BY <2>2 DEF w
  <1>2. CASE ReconcileLoop(t)
    BY <1>1, <1>2 DEF ReconcileLoop
  <1>3. CASE StartAccount(t)
    BY <1>1, <1>3 DEF StartAccount
  <1>4. CASE DisableAccount(t)
    <2> DEFINE begun == ReconcileFrom(t, [work EXCEPT ![t].kind = "disable"])
    <2>1. (work' = begun \/ work' = Stopped(Moved(begun))) /\ UNCHANGED <<rows, held>>
      BY <1>4 DEF DisableAccount
    <2>2. Quietly(begun, t)
      BY <1>1
    <2> HIDE DEF begun
    <2> QED BY <2>1, <2>2, NotedQuietly
  <1>5. CASE DeleteAccount(t)
    BY <1>1, <1>5 DEF DeleteAccount
  <1>6. CASE CloseAll(t)
    <2> DEFINE begun == [work EXCEPT ![t].kind = "close", ![t].pc = "open"]
    <2>1. (work' = begun \/ work' = Stopped(Moved(begun))) /\ UNCHANGED <<rows, held>>
      BY <1>6 DEF CloseAll
    <2>2. Quietly(begun, t)
      BY <1>0 DEF Quietly, OthersSame, Same, Shaped, Fields, QuietTask, TypedTask, Reading, Listed
    <2> HIDE DEF begun
    <2> QED BY <2>1, <2>2, NotedQuietly
  <1>7. CASE ManualClose(t)
    <2>1. PICK c \in rows :
            LET begun == [work EXCEPT ![t].kind = "manual", ![t].pc = "lock", ![t].at = c]
            IN work' = Stopped(Moved(begun)) \/ work' = begun
      BY <1>7 DEF ManualClose
    <2> DEFINE begun == [work EXCEPT ![t].kind = "manual", ![t].pc = "lock", ![t].at = c]
    <2>2. Quietly(begun, t)
      BY <1>0 DEF Quietly, OthersSame, Same, Shaped, Fields, QuietTask, TypedTask, Reading, Listed
    <2>3. work' = begun \/ work' = Stopped(Moved(begun))
      BY <2>1
    <2>4. UNCHANGED <<rows, held>>
      BY <1>7 DEF ManualClose
    <2> HIDE DEF begun
    <2> QED BY <2>2, <2>3, <2>4, NotedQuietly
  <1>8. CASE TradeOrder(t)
    BY <1>0, <1>8 DEF TradeOrder, Request, Quietly, OthersSame, Same, Shaped, Fields, QuietTask,
                      TypedTask, Reading, Listed
  <1> QED BY <1>2, <1>3, <1>4, <1>5, <1>6, <1>7, <1>8 DEF Begin

(* What a task does between two reconciliations does not read the market.  *)
LEMMA GoQuietly ==
    ASSUME AccountInv, FlatInv, TypesInv, NEW t \in Tasks,
           NEW pc \in {"lock", "next", "book", "reply"}
    PROVE  Quietly(Go(t, pc), t)
  <1>1. Shaped(work) /\ work[t].round \in Nat /\ TypedTask(work[t])
    BY TaskFacts
  <1> QED BY <1>1 DEF Go, Quietly, OthersSame, Same, Shaped, Fields, QuietTask, TypedTask, Reading,
                      Listed

LEMMA ProceedQuietly ==
    ASSUME AccountInv, FlatInv, TypesInv, NEW t \in Tasks, Proceed(t)
    PROVE  Quietly(work', t) /\ UNCHANGED <<rows, held>>
  <1>0. /\ Shaped(work) /\ work[t].round \in Nat /\ TypedTask(work[t]) /\ rows \subseteq Coins
    BY TaskFacts
  <1>g. Quietly(Gone(t), t) /\ Quietly(Moved(Gone(t)), t) /\ Quietly(Stopped(Moved(Gone(t))), t)
    BY <1>0, GoneQuietly, NotedQuietly
  <1>1. CASE TakeFence(t)
    <2>1. Quietly(ReconcileFrom(t, work), t)
      BY <1>0, ReconcileQuietly DEF OthersSame, Same, TypedTask
    <2> QED BY <1>g, <1>1, <2>1 DEF TakeFence
  <1>2. CASE Enable(t)
    BY <1>g, <1>2 DEF Enable
  <1>3. CASE Finish(t)
    BY <1>g, <1>3 DEF Finish
  <1>4. CASE OpenOperation(t)
    BY <1>4, GoQuietly DEF OpenOperation
  <1>5. ASSUME EndOperation(t) PROVE Quietly(work', t) /\ UNCHANGED <<rows, held>>
    BY <1>g, <1>5 DEF EndOperation
  <1>6. CASE ListPositions(t)
    <2>1. CASE rows = {}
      BY <1>5, <1>6, <2>1 DEF ListPositions
    <2>2. CASE rows # {}
      BY <1>0, <1>6, <2>2 DEF ListPositions, Quietly, OthersSame, Same, Shaped, Fields, QuietTask,
                              TypedTask, Reading, Listed
    <2> QED BY <2>1, <2>2
  <1>7. CASE CheckFlat(t)
    BY <1>5, <1>7 DEF CheckFlat
  <1>8. CASE NextItem(t)
    <2>1. PICK c \in work[t].todo :
            LET left == [work EXCEPT ![t].todo = @ \ {c}]
            IN work' = Passed(left, t) \/ work' = [left EXCEPT ![t].pc = "send", ![t].at = c]
      BY <1>8 DEF NextItem
    <2> DEFINE left == [work EXCEPT ![t].todo = @ \ {c}]
    <2>2. /\ Shaped(left) /\ OthersSame(left, work, t) /\ left[t].round \in Nat
          /\ left[t].scopes \subseteq Coins /\ left[t].snap \subseteq Coins
          /\ left[t].todo \subseteq Coins /\ left[t].found \subseteq Slots
      BY <1>0 DEF Shaped, Fields, OthersSame, Same, TypedTask
    <2>3. work' = Passed(left, t) \/ work' = [left EXCEPT ![t].pc = "send", ![t].at = c]
      BY <2>1
    <2>4. c \in Coins /\ UNCHANGED <<rows, held>>
      BY <1>0, <1>8 DEF NextItem, TypedTask
    <2> HIDE DEF left
    <2>5. CASE work' = Passed(left, t)
      BY <2>2, <2>4, <2>5 DEF Passed, Quietly, OthersSame, Same, Shaped, Fields, QuietTask,
                              TypedTask, Reading, Listed
    <2>6. CASE work' = [left EXCEPT ![t].pc = "send", ![t].at = c]
      BY <2>2, <2>4, <2>6 DEF Quietly, OthersSame, Same, Shaped, Fields, QuietTask, TypedTask,
                              Reading, Listed
    <2> QED BY <2>3, <2>5, <2>6
  <1>9. CASE BookItem(t)
    <2> DEFINE left == [work EXCEPT ![t].slot = 0, ![t].at = "none"]
    <2>1. /\ Shaped(left) /\ OthersSame(left, work, t) /\ left[t].round \in Nat
          /\ left[t].scopes \subseteq Coins /\ left[t].snap \subseteq Coins
          /\ left[t].todo \subseteq Coins /\ left[t].found \subseteq Slots
      BY <1>0 DEF Shaped, Fields, OthersSame, Same, TypedTask
    <2>2. work' = Passed(left, t) /\ UNCHANGED <<rows, held>>
      BY <1>9 DEF BookItem
    <2> HIDE DEF left
    <2> QED BY <2>1, <2>2 DEF Passed, Quietly, OthersSame, Same, Shaped, Fields, QuietTask,
                              TypedTask, Reading, Listed
  <1>10. CASE RecoverManual(t)
    BY <1>g, <1>10 DEF RecoverManual
  <1>11. CASE SendClose(t)
    <2>1. CASE fence = Free /\ status # "disabled"
      <3>1. /\ UNCHANGED <<rows, held>>
            /\ \E s \in Slots : work' = [work EXCEPT ![t].pc = "reply", ![t].slot = s,
                                 ![t].kind = IF @ = "none" THEN "trade" ELSE @]
        BY <1>11, <2>1 DEF SendClose, Request
      <3> QED BY <1>0, <3>1 DEF Quietly, OthersSame, Same, Shaped, Fields, QuietTask, TypedTask,
                                Reading, Listed
    <2>2. CASE ~(fence = Free /\ status # "disabled")
      BY <1>g, <1>11, <2>2, GoQuietly DEF SendClose
    <2> QED BY <2>1, <2>2
  <1>12. CASE Reply(t)
    <2>1. work' \in {Gone(t), Go(t, "book"), Go(t, "lock")} /\ UNCHANGED <<rows, held>>
      BY <1>12 DEF Reply
    <2> QED BY <1>g, <2>1, GoQuietly
  <1> QED BY <1>1, <1>2, <1>3, <1>4, <1>6, <1>7, <1>8, <1>9, <1>10, <1>11, <1>12 DEF Proceed
----------------------------------------------------------------------------
LEMMA FlatStarts == Init => FlatInv
  BY DEF Init, FlatInv, FlatTask, Idle, Reading, Listed

(* A step of a task that ends at none of the points where a reading counts.*)
LEMMA QuietStep ==
    ASSUME FlatInv, NEW t \in Tasks, Quietly(work', t), UNCHANGED <<rows, held>>
    PROVE  FlatInv'
  <1>1. \A u \in Tasks \ {t} : FlatTask(work[u])' /\ Same(work'[u], work[u])
    BY DEF FlatInv, FlatTask, Quietly, OthersSame, Same
  <1>2. FlatTask(work[t])'
    BY DEF Quietly, QuietTask, FlatTask
  <1>3. work'[t].pc \notin {"apply"} \cup Listed
    BY DEF Quietly, QuietTask
  <1> QED BY <1>1, <1>2, <1>3 DEF FlatInv, Same

(* A reading is of the market as it was when it was taken.                 *)
LEMMA ReadStep ==
    ASSUME AccountInv, FlatInv, NEW t \in Tasks, FetchPositions(t)
    PROVE  FlatInv'
  <1>1. PICK scopes \in SUBSET Coins :
          work' = [work EXCEPT ![t].pc = "apply", ![t].scopes = scopes, ![t].snap = held \cap scopes]
    BY DEF FetchPositions
  <1>2. work[t].pc = "positions" /\ UNCHANGED <<rows, held>> /\ Shaped(work)
    BY DEF FetchPositions, AccountInv
  <1>3. /\ \A u \in Tasks \ {t} : work'[u] = work[u]
        /\ work'[t].pc = "apply" /\ work'[t].scopes = scopes /\ work'[t].snap = held \cap scopes
        /\ work'[t].late = work[t].late /\ work'[t].round = work[t].round
    BY <1>1, <1>2 DEF Shaped, Fields
  <1>4. ~work[t].late /\ work[t].round \in Nat \ {0}
    BY <1>2 DEF FlatInv, FlatTask, Reading
  <1>5. \A u \in Tasks : FlatTask(work[u])'
    BY <1>2, <1>3, <1>4 DEF FlatInv, FlatTask, Reading, Listed
  <1>6. work'[t].pc \notin Listed /\ ~work'[t].late
    BY <1>3, <1>4 DEF Listed
  <1> QED BY <1>3, <1>5, <1>6 DEF FlatInv

(* Applying a reading that is not late keeps every row that another full   *)
(* reading relies on; nobody else has a reading to apply.                  *)
LEMMA ApplyStep ==
    ASSUME AccountInv, FlatInv, TypesInv, NEW t \in Tasks, ApplyReconciliation(t)
    PROVE  FlatInv'
  <1> DEFINE pc == After(t)
             next == IF pc = "idle" THEN Gone(t)
                     ELSE [Go(t, pc) EXCEPT ![t].clean = fresh', ![t].asked = {},
                              ![t].found = {}, ![t].scopes = {}, ![t].snap = {}]
  <1>1. /\ work[t].pc = "apply" /\ fresh' = Complete(t) /\ held' = held
        /\ rows' = (rows \ work[t].scopes) \cup work[t].snap
        /\ work' = next \/ work' = Moved(next)
    BY DEF ApplyReconciliation, ReconciledRows
  <1>2. /\ Shaped(next) /\ OthersSame(next, work, t) /\ next[t].round \in Nat
        /\ next[t].pc = pc
        /\ pc # "idle" => /\ next[t].clean = fresh' /\ next[t].late = work[t].late
                          /\ next[t].round = work[t].round
    <2>1. CASE pc = "idle"
      BY <2>1, GoneQuietly DEF AccountInv, Quietly, QuietTask, Gone, Shaped, Idle
    <2>2. CASE pc # "idle"
      BY <2>2, TaskFacts DEF Go, Shaped, Fields, OthersSame, Same
    <2> QED BY <2>1, <2>2
  <1> HIDE DEF next
  <1>3. /\ OthersSame(work', work, t) /\ work'[t].round \in Nat /\ work'[t].pc = pc
        /\ pc # "idle" => /\ work'[t].clean = fresh' /\ work'[t].late = work[t].late
                          /\ work'[t].round = work[t].round
    BY <1>1, <1>2, MovedSame DEF OthersSame, Same
  <1>4. pc \in {"between", "idle", "finish", "list", "closing", "recovered", "send"}
    BY DEF After
  <1>5. \A u \in Tasks \ {t} : work[u].pc # "apply" /\ work[u].pc # "finish"
    BY <1>1, Holding DEF NeedsFence
  <1>6. ~work[t].late /\ fresh' => held \subseteq rows'
    BY <1>1 DEF FlatInv, FlatTask, Complete, TypesInv, TypeOK
  <1>7. FlatTask(work[t])'
    BY <1>1, <1>3, <1>4, <1>6 DEF FlatInv, FlatTask, Reading, Listed
  <1>8. ASSUME NEW u \in Tasks \ {t} PROVE FlatTask(work[u])'
    <2>1. Same(work'[u], work[u]) /\ FlatTask(work[u])
      BY <1>3 DEF OthersSame, FlatInv
    <2>2. work[u].pc \in Listed /\ work[u].clean /\ ~work[u].late => held \subseteq rows'
      <3> SUFFICES ASSUME work[u].pc \in Listed, work[u].clean, ~work[u].late
                   PROVE  held \subseteq rows'
        OBVIOUS
      <3>1. ~work[t].late
        BY <1>1 DEF FlatInv
      <3>2. held \cap work[t].scopes \subseteq work[t].snap
        BY <1>1, <3>1 DEF FlatInv, FlatTask
      <3>3. held \subseteq rows
        BY <2>1 DEF FlatTask
      <3> QED BY <1>1, <3>2, <3>3
    <2> QED BY <1>1, <1>5, <2>1, <2>2 DEF FlatTask, Same
  <1> HIDE DEF pc
  <1>9. \A u \in Tasks : work'[u].pc # "apply"
    BY <1>3, <1>4, <1>5 DEF OthersSame, Same
  <1> QED BY <1>7, <1>8, <1>9 DEF FlatInv

(* Nobody reads, and nothing turns up at the exchange.                     *)
LEMMA QuietRestStep ==
    ASSUME FlatInv, \A u \in Tasks : Same(work'[u], work[u]), rows' = rows, held' \subseteq held
    PROVE  FlatInv'
  BY DEF FlatInv, FlatTask, Same

(* A position that turns up is noted by every task that has read.          *)
LEMMA LaterStep ==
    ASSUME FlatInv, Shaped(work), work' = Later, rows' = rows
    PROVE  FlatInv'
  <1>1. \A u \in Tasks :
          /\ work'[u].pc = work[u].pc /\ work'[u].round = work[u].round
          /\ work'[u].late = (work[u].late \/ (work[u].round > 0
                               /\ work[u].pc \notin {"lock", "orders", "positions"}))
    BY DEF Later, Shaped, Fields
  <1>2. \A u \in Tasks : /\ work[u].pc \in {"apply"} \cup Listed => work'[u].late
                         /\ work[u].pc \in Reading => ~work'[u].late
    <2> SUFFICES ASSUME NEW u \in Tasks
                 PROVE  /\ work[u].pc \in {"apply"} \cup Listed => work'[u].late
                        /\ work[u].pc \in Reading => ~work'[u].late
      OBVIOUS
    <2>1. work[u].pc \in {"apply"} \cup Listed => work[u].round > 0
      BY DEF FlatInv, FlatTask
    <2>2. work[u].pc \in Reading => ~work[u].late
      BY DEF FlatInv, FlatTask
    <2> QED BY <1>1, <2>1, <2>2 DEF Reading, Listed
  <1> QED BY <1>1, <1>2 DEF FlatInv, FlatTask, Reading, Listed

World ==
    \/ Stop \/ SetExitOnly \/ RiskTrip \/ Restore \/ Age
    \/ \E s \in Slots : Recover(s) \/ Execute(s) \/ Refuse(s)
    \/ \E c \in Coins : OpenOutside(c) \/ CloseOutside(c)

LEMMA WorldKeeps ==
    ASSUME Shaped(work), World
    PROVE  /\ rows' = rows
           /\ \/ work' = Later
              \/ held' \subseteq held /\ \A u \in Tasks : Same(work'[u], work[u])
  <1>1. \A u \in Tasks : /\ Same(work[u], work[u]) /\ Same(Moved(work)[u], work[u])
                         /\ Same(Stopped(Moved(work))[u], work[u])
    BY MovedSame, NotedSame DEF Same
  <1>2. CASE Stop \/ SetExitOnly \/ RiskTrip \/ Restore \/ Age
    <2>1. work' \in {work, Moved(work), Stopped(Moved(work))} /\ UNCHANGED <<rows, held>>
      BY <1>2 DEF Stop, SetExitOnly, RiskTrip, Restore, Age
    <2> QED BY <1>1, <2>1
  <1>3. CASE \E s \in Slots : Recover(s) \/ Execute(s) \/ Refuse(s)
    <2>1. rows' = rows /\ (work' = Later \/ (work' = work /\ held' \subseteq held))
      BY <1>3 DEF Recover, Execute, Refuse
    <2> QED BY <1>1, <2>1
  <1>4. CASE \E c \in Coins : OpenOutside(c) \/ CloseOutside(c)
    <2>1. rows' = rows /\ (work' = Later \/ (work' = work /\ held' \subseteq held))
      BY <1>4 DEF OpenOutside, CloseOutside
    <2> QED BY <1>1, <2>1
  <1> QED BY <1>2, <1>3, <1>4 DEF World

(* A task that reads its orders, fails or dies.                            *)
LEMMA ReadQuietly ==
    ASSUME AccountInv, FlatInv, TypesInv, NEW t \in Tasks,
           ReadOrders(t) \/ FailReconciliation(t) \/ Crash(t)
    PROVE  Quietly(work', t) /\ UNCHANGED <<rows, held>>
  <1>0. Shaped(work) /\ work[t].round \in Nat /\ TypedTask(work[t]) /\ FlatTask(work[t])
    BY TaskFacts
  <1>1. CASE ReadOrders(t)
    <2>1. PICK asked \in SUBSET PendingOrders, clean \in BOOLEAN :
            \E found \in SUBSET Slots :
              work' = [work EXCEPT ![t].pc = "positions", ![t].asked = asked,
                                   ![t].found = found, ![t].clean = clean]
      BY <1>1 DEF ReadOrders, PendingOrders
    <2>2. PICK found \in SUBSET Slots :
              work' = [work EXCEPT ![t].pc = "positions", ![t].asked = asked,
                                   ![t].found = found, ![t].clean = clean]
      BY <2>1
    <2>3. work[t].pc = "orders" /\ UNCHANGED <<rows, held>>
      BY <1>1 DEF ReadOrders
    <2> QED BY <1>0, <2>2, <2>3 DEF Quietly, OthersSame, Same, Shaped, Fields, QuietTask, TypedTask,
                                    FlatTask, Reading, Listed
  <1>2. CASE FailReconciliation(t) \/ Crash(t)
    BY <1>0, <1>2, GoneQuietly DEF FailReconciliation, Crash
  <1> QED BY <1>1, <1>2

LEMMA FlatStep == AccountInv /\ FlatInv /\ TypesInv /\ [Next]_vars => FlatInv'
  <1> SUFFICES ASSUME AccountInv, FlatInv, TypesInv, [Next]_vars PROVE FlatInv'
    OBVIOUS
  <1>1. ASSUME NEW t \in Tasks, Begin(t) \/ Reconcile(t) \/ Proceed(t) \/ Crash(t)
        PROVE  FlatInv'
    <2>1. CASE FetchPositions(t)
      BY <2>1, ReadStep
    <2>2. CASE ApplyReconciliation(t)
      BY <2>2, ApplyStep
    <2>3. CASE Begin(t) \/ Proceed(t) \/ ReadOrders(t) \/ FailReconciliation(t) \/ Crash(t)
      BY <2>3, BeginQuietly, ProceedQuietly, ReadQuietly, QuietStep
    <2> QED BY <1>1, <2>1, <2>2, <2>3 DEF Reconcile
  <1>2. CASE World
    BY <1>2, WorldKeeps, QuietRestStep, LaterStep DEF AccountInv
  <1>3. CASE UNCHANGED vars
    BY <1>3 DEF vars, FlatInv, FlatTask
  <1> QED BY <1>1, <1>2, <1>3 DEF Next, World
----------------------------------------------------------------------------
(* The rows keep their shape.                                              *)
LEMMA SettleTyped == ASSUME NEW o, TypedOrder(o) PROVE TypedOrder(Settle(o)) /\ TypedOrder(NoOrder)
  BY DEF Settle, NoOrder, TypedOrder, OrderFields, Unsettled

LEMMA OrderChange ==
    ASSUME OrdersTyped, NEW s, NEW o, s \in Slots => TypedOrder(o), order' = [order EXCEPT ![s] = o]
    PROVE  OrdersTyped'
  BY DEF OrdersTyped

LEMMA RequestTyped ==
    ASSUME OrdersTyped, NEW t, NEW s, NEW c \in Coins, NEW entry, Request(t, s, c, entry)
    PROVE  OrdersTyped'
  <1> DEFINE o == [entry |-> entry, coin |-> c, status |-> "submitting", wire |-> "sent"]
  <1>1. TypedOrder(o)
    BY DEF TypedOrder, OrderFields, Unsettled
  <1>2. order' = [order EXCEPT ![s] = o]
    BY DEF Request
  <1> HIDE DEF o
  <1> QED BY <1>1, <1>2, OrderChange

LEMMA OrdersTypedStep ==
    ASSUME AccountInv, FlatInv, TypesInv, [Next]_vars
    PROVE  OrdersTyped'
  <1>0. OrdersTyped
    BY DEF TypesInv
  <1>1. ASSUME NEW t \in Tasks, Begin(t) PROVE OrdersTyped'
    <2>1. CASE TradeOrder(t)
      BY <1>0, <2>1, RequestTyped DEF TradeOrder
    <2>2. CASE order' = order
      BY <1>0, <2>2 DEF OrdersTyped
    <2> QED BY <1>1, <2>1, <2>2
            DEF Begin, ReconcileLoop, StartAccount, DisableAccount, DeleteAccount, CloseAll, ManualClose
  <1>2. ASSUME NEW t \in Tasks, Reconcile(t) PROVE OrdersTyped'
    <2>1. CASE ApplyReconciliation(t)
      <3>1. order' = ReconciledOrders(t)
        BY <2>1 DEF ApplyReconciliation
      <3>2. DOMAIN order' = Slots
        BY <3>1 DEF ReconciledOrders
      <3>3. \A s \in Slots : order'[s] = Settle(order[s]) \/ order'[s] = order[s]
        BY <3>1 DEF ReconciledOrders
      <3> QED BY <1>0, <3>2, <3>3, SettleTyped DEF OrdersTyped
    <2>2. CASE order' = order
      BY <1>0, <2>2 DEF OrdersTyped
    <2> QED BY <1>2, <2>1, <2>2 DEF Reconcile, ReadOrders, FetchPositions, FailReconciliation
  <1>3. ASSUME NEW t \in Tasks, Proceed(t) PROVE OrdersTyped'
    <2>1. CASE SendClose(t)
      <3>1. work[t].at \in Coins
        BY <2>1 DEF SendClose, TypesInv, TypedTask
      <3>2. CASE \E s \in Slots : Request(t, s, work[t].at, FALSE)
        BY <1>0, <3>1, <3>2, RequestTyped
      <3>3. CASE order' = order
        BY <1>0, <3>3 DEF OrdersTyped
      <3> QED BY <2>1, <3>2, <3>3 DEF SendClose
    <2>2. CASE Reply(t)
      <3> DEFINE s == work[t].slot
      <3>1. CASE order' = [order EXCEPT ![s] = Settle(order[s])]
        BY <1>0, <3>1, SettleTyped DEF OrdersTyped
      <3>2. CASE order' = [order EXCEPT ![s].status = "uncertain"]
        BY <1>0, <3>2 DEF OrdersTyped, TypedOrder, OrderFields, Unsettled
      <3> QED BY <2>2, <3>1, <3>2 DEF Reply
    <2>3. CASE RecoverManual(t)
      <3> DEFINE s == work[t].slot
      <3>1. CASE order' = [order EXCEPT ![s] = Settle(order[s])]
        BY <1>0, <3>1, SettleTyped DEF OrdersTyped
      <3>2. CASE order' = order
        BY <1>0, <3>2 DEF OrdersTyped
      <3> QED BY <2>3, <3>1, <3>2 DEF RecoverManual
    <2>4. CASE order' = order
      BY <1>0, <2>4 DEF OrdersTyped
    <2> QED BY <1>3, <2>1, <2>2, <2>3, <2>4
            DEF Proceed, TakeFence, Enable, Finish, OpenOperation, ListPositions, CheckFlat,
                EndOperation, NextItem, BookItem
  <1>4. ASSUME NEW s \in Slots, Recover(s) \/ Execute(s) \/ Refuse(s) PROVE OrdersTyped'
    <2>1. CASE Recover(s)
      <3>1. CASE order' = [order EXCEPT ![s].status = "uncertain"]
        BY <1>0, <3>1 DEF OrdersTyped, TypedOrder, OrderFields, Unsettled
      <3>2. CASE order' = [order EXCEPT ![s] = Settle(order[s])]
        BY <1>0, <3>2, SettleTyped DEF OrdersTyped
      <3> QED BY <2>1, <3>1, <3>2 DEF Recover
    <2>2. CASE Execute(s) \/ Refuse(s)
      <3>1. \E wire \in {"done", "refused"} : order' = [order EXCEPT ![s].wire = wire]
        BY <2>2 DEF Execute, Refuse
      <3> QED BY <1>0, <3>1 DEF OrdersTyped, TypedOrder, OrderFields
    <2> QED BY <1>4, <2>1, <2>2
  <1>5. ASSUME order' = order PROVE OrdersTyped'
    BY <1>0, <1>5 DEF OrdersTyped
  <1> QED BY <1>1, <1>2, <1>3, <1>4, <1>5
          DEF Next, Crash, Stop, SetExitOnly, RiskTrip, Restore, Age, OpenOutside, CloseOutside, vars

LEMMA RefreshedTyped ==
    ASSUME ItemsTyped, item' = Refreshed \/ item' = OperationItems
    PROVE  ItemsTyped'
  <1>1. TypedItem(NoItem)
    BY DEF NoItem, TypedItem
  <1>2. CASE item' = Refreshed
    <2>1. DOMAIN item' = Coins
      BY <1>2 DEF Refreshed
    <2>2. ASSUME NEW c \in Coins PROVE TypedItem(item'[c])
      <3>1. \/ item'[c] = item[c]
            \/ item'[c] = [item[c] EXCEPT !.status = "uncertain"]
            \/ item'[c] = [item[c] EXCEPT !.status = "settled"]
        BY <1>2 DEF Refreshed
      <3> QED BY <3>1 DEF ItemsTyped, TypedItem
    <2> QED BY <2>1, <2>2 DEF ItemsTyped
  <1>3. CASE item' = OperationItems
    BY <1>1, <1>3 DEF OperationItems, ItemsTyped
  <1> QED BY <1>2, <1>3

LEMMA ItemsTypedStep ==
    ASSUME AccountInv, TypesInv, [Next]_vars
    PROVE  ItemsTyped'
  <1>0. ItemsTyped /\ TypedItem(NoItem)
    BY DEF TypesInv, NoItem, TypedItem
  <1>s. ASSUME item' = item PROVE ItemsTyped'
    BY <1>0, <1>s DEF ItemsTyped
  <1>1. ASSUME NEW t \in Tasks, Begin(t) PROVE ItemsTyped'
    BY <1>s, <1>1 DEF Begin, ReconcileLoop, StartAccount, DisableAccount, DeleteAccount, CloseAll,
                      ManualClose, TradeOrder, operation
  <1>2. ASSUME NEW t \in Tasks, Reconcile(t) PROVE ItemsTyped'
    <2>1. CASE ApplyReconciliation(t)
      <3>1. item' = [c \in Coins |-> IF c \in rows \ rows' THEN NoItem ELSE item[c]]
        BY <2>1 DEF ApplyReconciliation
      <3> QED BY <1>0, <3>1 DEF ItemsTyped
    <2> QED BY <1>s, <1>2, <2>1 DEF Reconcile, ReadOrders, FetchPositions, FailReconciliation, operation
  <1>3. ASSUME NEW t \in Tasks, Proceed(t) PROVE ItemsTyped'
    <2>1. CASE OpenOperation(t) \/ ListPositions(t) \/ CheckFlat(t)
      BY <1>0, <2>1, RefreshedTyped DEF OpenOperation, ListPositions, CheckFlat
    <2>2. CASE NextItem(t)
      <3>1. \/ item' = item
            \/ \E c \in work[t].todo, s \in {"settled", "submitting"} :
                  item' = [item EXCEPT ![c].status = s]
        BY <2>2 DEF NextItem
      <3> QED BY <1>0, <1>s, <3>1 DEF ItemsTyped, TypedItem
    <2>3. CASE BookItem(t)
      <3> DEFINE i == [order |-> work[t].slot, status |->
                         IF work[t].slot # 0 /\ work[t].slot \in PendingOrders
                         THEN "uncertain" ELSE "settled"]
      <3>1. item' = [item EXCEPT ![work[t].at] = i]
        BY <2>3 DEF BookItem
      <3>2. TypedItem(i)
        BY DEF TypedItem
      <3> HIDE DEF i
      <3> QED BY <1>0, <3>1, <3>2 DEF ItemsTyped
    <2> QED BY <1>s, <1>3, <2>1, <2>2, <2>3
            DEF Proceed, TakeFence, Enable, Finish, RecoverManual, SendClose, Reply, operation
  <1> QED BY <1>s, <1>1, <1>2, <1>3
          DEF Next, Crash, Stop, SetExitOnly, RiskTrip, Restore, Age, Recover, Execute, Refuse,
              OpenOutside, CloseOutside, vars, operation

(* What every task works on stays typed.                                   *)
LEMMA TasksTypedStep ==
    ASSUME AccountInv, FlatInv, TypesInv, [Next]_vars
    PROVE  \A u \in Tasks : TypedTask(work'[u])
  <1>0. Shaped(work) /\ \A u \in Tasks : TypedTask(work[u])
    BY DEF AccountInv, TypesInv
  <1>s. ASSUME NEW u \in Tasks, Same(work'[u], work[u]) PROVE TypedTask(work'[u])
    BY <1>0, <1>s DEF Same, TypedTask
  <1>1. ASSUME NEW t \in Tasks, Begin(t) \/ Reconcile(t) \/ Proceed(t) \/ Crash(t)
        PROVE  \A u \in Tasks : TypedTask(work'[u])
    <2>1. CASE FetchPositions(t)
      <3>1. PICK scopes \in SUBSET Coins :
              work' = [work EXCEPT ![t].pc = "apply", ![t].scopes = scopes,
                                   ![t].snap = held \cap scopes]
        BY <2>1 DEF FetchPositions
      <3> QED BY <1>0, <3>1 DEF Shaped, Fields, TypedTask
    <2>2. CASE ApplyReconciliation(t)
      <3> DEFINE next == IF After(t) = "idle" THEN Gone(t)
                         ELSE [Go(t, After(t)) EXCEPT ![t].clean = fresh', ![t].asked = {},
                                  ![t].found = {}, ![t].scopes = {}, ![t].snap = {}]
      <3>1. work' = next \/ work' = Moved(next)
        BY <2>2 DEF ApplyReconciliation
      <3>2. Shaped(next) /\ \A u \in Tasks : TypedTask(next[u])
        <4>1. CASE After(t) = "idle"
          BY <1>0, <4>1, GoneQuietly DEF Quietly, OthersSame, Same, TypedTask
        <4>2. CASE After(t) # "idle"
          <5>1. After(t) = "send" => work[t].at \in Coins
            BY DEF After, ReconciledRows, TypesInv, TypeOK, TypedTask
          <5> HIDE DEF next
          <5>2. /\ Shaped(next) /\ \A u \in Tasks \ {t} : next[u] = work[u]
                /\ next[t].pc = After(t) /\ next[t].at = work[t].at /\ next[t].todo = work[t].todo
                /\ next[t].scopes = {} /\ next[t].snap = {} /\ next[t].found = {}
            BY <1>0, <4>2 DEF next, Go, Shaped, Fields
          <5> QED BY <1>0, <5>1, <5>2 DEF TypedTask
        <4> QED BY <4>1, <4>2
      <3> HIDE DEF next
      <3> QED BY <3>1, <3>2, MovedSame DEF Same, TypedTask
    <2>3. CASE Begin(t) \/ Proceed(t) \/ ReadOrders(t) \/ FailReconciliation(t) \/ Crash(t)
      <3>1. Quietly(work', t)
        BY <2>3, BeginQuietly, ProceedQuietly, ReadQuietly
      <3> QED BY <1>s, <3>1 DEF Quietly, OthersSame
    <2> QED BY <1>1, <2>1, <2>2, <2>3 DEF Reconcile
  <1>2. CASE World
    <2>1. CASE work' = Later
      BY <1>0, <2>1 DEF Later, Shaped, Fields, TypedTask
    <2> QED BY <1>0, <1>2, <1>s, <2>1, WorldKeeps
  <1>3. CASE UNCHANGED vars
    BY <1>0, <1>3 DEF vars
  <1> QED BY <1>1, <1>2, <1>3 DEF Next, World

ScalarsTyped ==
    /\ status \in {"disabled", "enabled", "exit_only"}
    /\ archived \in BOOLEAN /\ fresh \in BOOLEAN /\ closing \in BOOLEAN
    /\ outer \in Tasks \cup {Free} /\ fence \in Tasks \cup {Free}

LEMMA ScalarsTypedStep == ASSUME ScalarsTyped, [Next]_vars PROVE ScalarsTyped'
  <1> USE DEF ScalarsTyped, account, operation, locks, Drop
  <1>1. ASSUME NEW t \in Tasks, Begin(t) PROVE ScalarsTyped'
    <2>1. CASE ReconcileLoop(t) \/ StartAccount(t) \/ DeleteAccount(t)
      BY <2>1 DEF ReconcileLoop, StartAccount, DeleteAccount
    <2>2. CASE DisableAccount(t)
      BY <2>2 DEF DisableAccount
    <2>3. CASE CloseAll(t)
      BY <2>3 DEF CloseAll
    <2>4. CASE ManualClose(t)
      BY <2>4 DEF ManualClose
    <2>5. CASE TradeOrder(t)
      BY <2>5 DEF TradeOrder, Request
    <2> QED BY <1>1, <2>1, <2>2, <2>3, <2>4, <2>5 DEF Begin
  <1>2. ASSUME NEW t \in Tasks, Reconcile(t) PROVE ScalarsTyped'
    <2>1. CASE ReadOrders(t)
      BY <2>1 DEF ReadOrders
    <2>2. CASE FetchPositions(t)
      BY <2>2 DEF FetchPositions
    <2>3. CASE ApplyReconciliation(t)
      <3>1. /\ fresh' = Complete(t) /\ UNCHANGED <<archived, closing>>
            /\ status' = status \/ status' = "exit_only"
            /\ fence' \in {fence, Free} /\ outer' \in {outer, Free}
        BY <2>3 DEF ApplyReconciliation
      <3>2. Complete(t) \in BOOLEAN
        BY DEF Complete
      <3> QED BY <3>1, <3>2
    <2>4. CASE FailReconciliation(t)
      BY <2>4 DEF FailReconciliation
    <2> QED BY <1>2, <2>1, <2>2, <2>3, <2>4 DEF Reconcile
  <1>3. ASSUME NEW t \in Tasks, Proceed(t) PROVE ScalarsTyped'
    <2>1. CASE TakeFence(t)
      BY <2>1 DEF TakeFence
    <2>2. CASE Enable(t)
      BY <2>2 DEF Enable
    <2>3. CASE Finish(t)
      <3>1. /\ outer' = Free /\ fence' = Free /\ UNCHANGED <<fresh, closing>>
            /\ status' = status \/ status' = "disabled"
            /\ archived' = archived \/ archived' = (archived \/ work[t].kind = "delete")
        BY <2>3 DEF Finish
      <3> QED BY <3>1
    <2>4. CASE OpenOperation(t)
      BY <2>4 DEF OpenOperation
    <2>5. ASSUME EndOperation(t) PROVE ScalarsTyped'
      BY <2>5 DEF EndOperation
    <2>6. CASE ListPositions(t) \/ CheckFlat(t)
      BY <2>5, <2>6 DEF ListPositions, CheckFlat
    <2>7. CASE NextItem(t)
      BY <2>7 DEF NextItem
    <2>8. CASE BookItem(t) \/ RecoverManual(t)
      BY <2>8 DEF BookItem, RecoverManual
    <2>9. CASE SendClose(t)
      BY <2>9 DEF SendClose, Request
    <2>10. CASE Reply(t)
      BY <2>10 DEF Reply
    <2> QED BY <1>3, <2>1, <2>2, <2>3, <2>4, <2>6, <2>7, <2>8, <2>9, <2>10 DEF Proceed
  <1>4. ASSUME NEW t \in Tasks, Crash(t) PROVE ScalarsTyped'
    BY <1>4 DEF Crash
  <1>5. CASE Stop \/ SetExitOnly \/ RiskTrip \/ Restore \/ Age
    BY <1>5 DEF Stop, SetExitOnly, RiskTrip, Restore, Age
  <1>6. ASSUME NEW s \in Slots, Recover(s) \/ Execute(s) \/ Refuse(s) PROVE ScalarsTyped'
    BY <1>6 DEF Recover, Execute, Refuse
  <1>7. ASSUME NEW c \in Coins, OpenOutside(c) \/ CloseOutside(c) PROVE ScalarsTyped'
    BY <1>7 DEF OpenOutside, CloseOutside
  <1>8. CASE UNCHANGED vars
    BY <1>8 DEF vars
  <1> QED BY <1>1, <1>2, <1>3, <1>4, <1>5, <1>6, <1>7, <1>8 DEF Next

(* The rows and the exchange only know markets of the account.             *)
LEMMA MarketsTypedStep ==
    ASSUME AccountInv, FlatInv, TypesInv, [Next]_vars
    PROVE  rows' \subseteq Coins /\ held' \subseteq Coins
  <1>0. rows \subseteq Coins /\ held \subseteq Coins
    BY DEF TypesInv, TypeOK
  <1>1. ASSUME NEW t \in Tasks, Begin(t) \/ Reconcile(t) \/ Proceed(t) \/ Crash(t)
        PROVE  rows' \subseteq Coins /\ held' \subseteq Coins
    <2>1. CASE ApplyReconciliation(t)
      <3>1. rows' = (rows \ work[t].scopes) \cup work[t].snap /\ held' = held
        BY <2>1 DEF ApplyReconciliation, ReconciledRows
      <3> QED BY <1>0, <3>1 DEF TypesInv, TypedTask
    <2>2. CASE FetchPositions(t)
      BY <1>0, <2>2 DEF FetchPositions
    <2>3. CASE Begin(t) \/ Proceed(t) \/ ReadOrders(t) \/ FailReconciliation(t) \/ Crash(t)
      BY <1>0, <2>3, BeginQuietly, ProceedQuietly, ReadQuietly
    <2> QED BY <1>1, <2>1, <2>2, <2>3 DEF Reconcile
  <1>2. CASE World
    <2>1. rows' = rows
      BY <1>2, WorldKeeps DEF AccountInv
    <2>2. ASSUME NEW s \in Slots, Execute(s) PROVE held' \subseteq Coins
      <3>1. order[s].coin \in Coins
        BY <2>2 DEF Execute, TypesInv, OrdersTyped, TypedOrder
      <3> QED BY <1>0, <2>2, <3>1 DEF Execute
    <2> QED BY <1>0, <1>2, <2>1, <2>2
            DEF World, Stop, SetExitOnly, RiskTrip, Restore, Age, Recover, Refuse, OpenOutside,
                CloseOutside
  <1>3. CASE UNCHANGED vars
    BY <1>0, <1>3 DEF vars
  <1> QED BY <1>1, <1>2, <1>3 DEF Next, World

LEMMA TypesStep == AccountInv /\ FlatInv /\ TypesInv /\ [Next]_vars => TypesInv'
  <1> SUFFICES ASSUME AccountInv, FlatInv, TypesInv, [Next]_vars PROVE TypesInv'
    OBVIOUS
  <1>1. ScalarsTyped'
    BY ScalarsTypedStep DEF TypesInv, TypeOK, ScalarsTyped
  <1>2. OrdersTyped' /\ ItemsTyped' /\ \A u \in Tasks : TypedTask(work[u])'
    BY OrdersTypedStep, ItemsTypedStep, TasksTypedStep DEF TypedTask
  <1>3. rows' \subseteq Coins /\ held' \subseteq Coins
    BY MarketsTypedStep
  <1>4. TypeOK'
    BY <1>1, <1>2, <1>3 DEF TypeOK, ScalarsTyped, OrdersTyped, ItemsTyped, TypedOrder, TypedItem,
                            TypedTask
  <1> QED BY <1>2, <1>4 DEF TypesInv

LEMMA TypesStart == Init => TypesInv
  <1> SUFFICES ASSUME Init PROVE TypesInv
    OBVIOUS
  <1>1. OrdersTyped /\ ItemsTyped
    BY DEF Init, OrdersTyped, ItemsTyped, TypedOrder, OrderFields, Unsettled, NoOrder, TypedItem, NoItem
  <1>2. \A t \in Tasks : TypedTask(work[t])
    BY DEF Init, TypedTask, Idle
  <1>3. ScalarsTyped /\ rows \subseteq Coins /\ held \subseteq Coins
    BY DEF Init, ScalarsTyped
  <1> QED BY <1>1, <1>2, <1>3 DEF TypesInv, TypeOK, ScalarsTyped, OrdersTyped, ItemsTyped, TypedOrder,
                                  TypedItem, TypedTask

(* Where everything is, what has been read and of which type it is.        *)
LEMMA AccountFacts == Spec => [](AccountInv /\ FlatInv /\ TypesInv)
  <1>1. Init => AccountInv /\ FlatInv /\ TypesInv
    BY AccountStarts, FlatStarts, TypesStart
  <1>2. AccountInv /\ FlatInv /\ TypesInv /\ [Next]_vars => (AccountInv /\ FlatInv /\ TypesInv)'
    BY AccountStep, FlatStep, TypesStep
  <1> QED BY <1>1, <1>2, PTL DEF Spec

(* The account, its orders, its close-all and its tasks keep their types.  *)
THEOREM AccountTyped == Spec => []TypeOK
  <1>1. TypesInv => TypeOK
    BY DEF TypesInv
  <1> QED BY <1>1, AccountFacts, PTL

(* Only the end of a disable or of a close-all disables an account that is *)
(* not archived.                                                           *)
LEMMA DisabledByEnd ==
    ASSUME Next, status # "disabled", status' = "disabled", ~archived
    PROVE  \E t \in Tasks : \/ Finish(t) /\ MayFinish(t)
                            \/ work[t].pc \in {"list", "closing"} /\ EndOperation(t)
  <1>1. ASSUME NEW t \in Tasks, Begin(t) PROVE FALSE
    BY <1>1 DEF Begin, ReconcileLoop, StartAccount, DisableAccount, DeleteAccount, CloseAll,
                ManualClose, TradeOrder, account
  <1>2. ASSUME NEW t \in Tasks, Reconcile(t) PROVE FALSE
    BY <1>2 DEF Reconcile, ReadOrders, FetchPositions, ApplyReconciliation, FailReconciliation,
                account
  <1>3. ASSUME NEW t \in Tasks, Proceed(t)
        PROVE  \/ Finish(t) /\ MayFinish(t)
               \/ work[t].pc \in {"list", "closing"} /\ EndOperation(t)
    <2>1. CASE Finish(t)
      BY <2>1 DEF Finish
    <2>2. CASE ListPositions(t) \/ CheckFlat(t)
      BY <2>2 DEF ListPositions, CheckFlat, account
    <2> QED BY <1>3, <2>1, <2>2 DEF Proceed, TakeFence, Enable, OpenOperation, NextItem, BookItem,
                                    RecoverManual, SendClose, Reply, account
  <1>4. ASSUME NEW t \in Tasks, Crash(t) PROVE FALSE
    BY <1>4 DEF Crash, account
  <1>5. ~(Stop \/ SetExitOnly \/ RiskTrip \/ Restore \/ Age)
    BY DEF Stop, SetExitOnly, RiskTrip, Restore, Age
  <1>6. \A s \in Slots : ~(Recover(s) \/ Execute(s) \/ Refuse(s))
    BY DEF Recover, Execute, Refuse, account
  <1>7. \A c \in Coins : ~(OpenOutside(c) \/ CloseOutside(c))
    BY DEF OpenOutside, CloseOutside, account
  <1>8. PICK t \in Tasks : Begin(t) \/ Reconcile(t) \/ Proceed(t) \/ Crash(t)
    BY <1>5, <1>6, <1>7 DEF Next
  <1>9. Proceed(t)
    BY <1>1, <1>2, <1>4, <1>8
  <1> QED BY <1>3, <1>9

(* live_trading_service: a disable or a close-all leaves no position       *)
(* behind, but for one that turned up after its reconciliation had read.   *)
THEOREM DisabledFlatly == Spec => DisabledIsFlat
  <1>1. AccountInv /\ FlatInv /\ TypesInv /\ [Next]_vars => [DisabledFlat]_vars
    <2> SUFFICES ASSUME AccountInv, FlatInv, TypesInv, Next,
                        status # "disabled", status' = "disabled", held # {}, ~archived
                 PROVE  \E t \in Tasks : work[t].late /\ work'[t] = Idle
      BY DEF DisabledFlat
    <2>1. PICK t \in Tasks : \/ Finish(t) /\ MayFinish(t)
                             \/ work[t].pc \in {"list", "closing"} /\ EndOperation(t)
      BY DisabledByEnd
    <2>2. work[t].pc \in Listed /\ work[t].clean /\ rows = {} /\ work' = Stopped(Moved(Gone(t)))
      <3>1. CASE Finish(t) /\ MayFinish(t)
        BY <3>1 DEF Finish, MayFinish, MayRemove, Listed
      <3>2. CASE work[t].pc \in {"list", "closing"} /\ EndOperation(t)
        BY <3>2 DEF EndOperation, Listed
      <3> QED BY <2>1, <3>1, <3>2
    <2>3. work[t].late
      BY <2>2 DEF FlatInv, FlatTask
    <2>4. DOMAIN Gone(t) = Tasks /\ Gone(t)[t] = Idle
      BY DEF AccountInv, Shaped, Gone
    <2>5. work'[t] = Idle
      <3> DEFINE m == Moved(Gone(t))
      <3>1. DOMAIN m = Tasks /\ m[t] = [Idle EXCEPT !.moved = @ \/ Idle.pc = "between"]
        BY <2>4 DEF Moved
      <3>2. m[t] = Idle
        BY <3>1 DEF Idle
      <3> HIDE DEF m
      <3>3. Stopped(m)[t] = [Idle EXCEPT !.stopped = @ \/ Idle.pc = "between"]
        BY <3>1, <3>2 DEF Stopped
      <3>4. Stopped(m)[t] = Idle
        BY <3>3 DEF Idle
      <3> QED BY <2>2, <3>4 DEF m
    <2> QED BY <2>3, <2>5
  <1> QED BY <1>1, AccountFacts, PTL DEF Spec, DisabledIsFlat
============================================================================
