---------------------- MODULE LiveOrderDispatch_proofs ----------------------
(***************************************************************************)
(* DispatchInv is inductive, for any number of orders, workers and         *)
(* attempts, and what follows from it.                                     *)
(***************************************************************************)
EXTENDS LiveOrderDispatch, TLAPS

Statuses == Terminal \cup Active \cup {"absent", "ready"}

LEMMA RowType ==
    /\ \A s \in Statuses, t, f, b \in BOOLEAN, l \in 0..MaxAttempts :
          Row(s, t, f, b, l) \in OrderRow
    /\ \A r \in OrderRow : /\ r.status \in Statuses
                           /\ r.transient \in BOOLEAN /\ r.soft \in BOOLEAN
                           /\ r.oid \in BOOLEAN /\ r.latest \in 0..MaxAttempts
  BY DEF Row, OrderRow, Statuses

LEMMA RowFields == \A s, t, f, b, l :
    /\ Row(s, t, f, b, l).status = s
    /\ Row(s, t, f, b, l).transient = t /\ Row(s, t, f, b, l).soft = f
    /\ Row(s, t, f, b, l).oid = b /\ Row(s, t, f, b, l).latest = l
  BY DEF Row

LEMMA AttemptType ==
    /\ \A s \in DispatchStatus, c \in Nat : Attempt(s, c) \in DispatchRow
    /\ \A d \in DispatchRow : d.status \in DispatchStatus /\ d.count \in Nat
    /\ \A s, c : Attempt(s, c).status = s /\ Attempt(s, c).count = c
  BY DEF Attempt, DispatchRow

LEMMA WorkType ==
    /\ Idle.pc = "idle" /\ Idle.pc \notin Submitting
    /\ \A w \in Submission : w.pc \in Submitting /\ w.o \in Orders /\ w.n \in Attempts
    /\ \A w \in Answered : /\ w.pc = "write" /\ w.pc \notin Submitting
                           /\ w.o \in Orders /\ w.n \in Attempts /\ w.snap \in OrderRow
                           /\ w.dsnap \in DispatchStatus /\ w.seen \in Answer
    /\ \A w \in Lookup : /\ w.pc = "ask" 
                           /\ w.o \in Orders /\ w.n \in Attempts /\ w.snap \in OrderRow
                           /\ w.dsnap \in DispatchStatus 
    /\ \A pc \in Submitting, o \in Orders, n \in Attempts :
          [pc |-> pc, o |-> o, n |-> n] \in Submission
    /\ \A o \in Orders, n \in Attempts, r \in OrderRow, d \in DispatchStatus :
          [pc |-> "ask", o |-> o, n |-> n, snap |-> r, dsnap |-> d] \in Lookup
    /\ \A o \in Orders, n \in Attempts, r \in OrderRow, d \in DispatchStatus, a \in Answer :
          [pc |-> "write", o |-> o, n |-> n, snap |-> r, dsnap |-> d, seen |-> a] \in Answered
  BY DEF Idle, Submitting, Submission, Lookup, Answered

LEMMA Substep ==
    ASSUME TypeOK, NEW p \in Workers, work[p].pc \in Submitting
    PROVE  work[p] \in Submission /\ work[p].o \in Orders /\ work[p].n \in Attempts
  BY WorkType DEF TypeOK

LEMMA OrderUpdate ==
    ASSUME TypeOK, NEW o \in Orders, NEW row \in OrderRow, order' = [order EXCEPT ![o] = row]
    PROVE  /\ order' \in [Orders -> OrderRow]
           /\ order'[o] = row
           /\ \A x \in Orders : x # o => order'[x] = order[x]
  BY DEF TypeOK

\* The attempt's row is written, and no other.
WritesAttempt(o, n, att) == dispatch' = [dispatch EXCEPT ![o][n] = att]

LEMMA DispatchUpdate ==
    ASSUME TypeOK, NEW o \in Orders, NEW n \in Attempts, NEW att \in DispatchRow,
           WritesAttempt(o, n, att)
    PROVE  /\ dispatch' \in [Orders -> [Attempts -> DispatchRow]]
           /\ dispatch'[o][n] = att
           /\ \A x \in Orders, m \in Attempts : ~(x = o /\ m = n) => dispatch'[x][m] = dispatch[x][m]
  BY DEF TypeOK, WritesAttempt

LEMMA LeaveUpdate ==
    ASSUME TypeOK, NEW p \in Workers, Leave(p)
    PROVE  /\ work' \in [Workers -> {Idle} \cup Submission \cup Answered]
           /\ lock' \in Workers \cup {NoWorker}
           /\ work'[p] = Idle /\ \A q \in Workers : q # p => work'[q] = work[q]
  BY DEF TypeOK, Leave

LEMMA GotoUpdate ==
    ASSUME TypeOK, NEW p \in Workers, NEW pc \in Submitting, work[p].pc \in Submitting,
           Goto(p, pc)
    PROVE  /\ work' \in [Workers -> {Idle} \cup Submission \cup Answered]
           /\ work'[p].pc = pc /\ work'[p].o = work[p].o /\ work'[p].n = work[p].n
           /\ \A q \in Workers : q # p => work'[q] = work[q]
<1>1. [pc |-> pc, o |-> work[p].o, n |-> work[p].n] \in Submission
  BY Substep, WorkType
<1>2. work' = [work EXCEPT ![p] = [pc |-> pc, o |-> work[p].o, n |-> work[p].n]]
  BY DEF Goto
<1> QED BY <1>1, <1>2 DEF TypeOK

LEMMA CancelUpdate ==
    ASSUME TypeOK, CancelUnsent
    PROVE  /\ order' \in [Orders -> OrderRow]
           /\ dispatch' \in [Orders -> [Attempts -> DispatchRow]]
           /\ \A o \in Orders : order'[o] = order[o] \/ order'[o] = WithStatus(order[o], "canceled")
           /\ \A o \in Orders, n \in Attempts : dispatch'[o][n].count = dispatch[o][n].count
<1>1. \A o \in Orders : WithStatus(order[o], "canceled") \in OrderRow
  BY RowType DEF TypeOK, WithStatus, Statuses, Terminal
<1>2. \A o \in Orders, n \in Attempts : Attempt("canceled", dispatch[o][n].count) \in DispatchRow
  BY AttemptType DEF TypeOK, DispatchStatus
<1> QED BY <1>1, <1>2, AttemptType DEF CancelUnsent, TypeOK

LEMMA PrepareTyped ==
    ASSUME TypeOK, NEW p \in Workers, NEW o \in Orders, Prepare(p, o)
    PROVE  TypeOK'
<1> DEFINE n == IF order[o].latest = 0 THEN 1 ELSE order[o].latest
           row == Row(IF order[o].status = "absent" THEN "ready" ELSE order[o].status,
                      order[o].transient, order[o].soft, order[o].oid, n)
           att == IF order[o].latest = 0 THEN Attempt("pending", 0) ELSE dispatch[o][n]
           next == NextCommit(row, att)
<1>1. n \in Attempts /\ n \in 0..MaxAttempts
  BY RowType, DispatchAssumption DEF TypeOK, Attempts
<1>2. row \in OrderRow
  <2>1. order[o] \in OrderRow
    BY DEF TypeOK
  <2>2. "ready" \in Statuses
    BY DEF Statuses
  <2> HIDE DEF n
  <2> QED BY <1>1, <2>1, <2>2, RowType
<1>3. att \in DispatchRow
  BY <1>1, AttemptType DEF TypeOK, DispatchStatus
<1>4. order' = [order EXCEPT ![o] = row] /\ dispatch' = [dispatch EXCEPT ![o][n] = att]
  BY DEF Prepare
<1>5. \/ work' = work /\ lock' = lock
      \/ next # "idle" /\ work' = [work EXCEPT ![p] = [pc |-> next, o |-> o, n |-> n]] /\ lock' = p
  BY DEF Prepare
<1>6. next # "idle" => next \in Submitting
  BY DEF NextCommit, Submitting
<1> HIDE DEF n, row, att, next
<1>7. work' \in [Workers -> {Idle} \cup Submission \cup Answered]
  <2>1. CASE work' = work BY <2>1 DEF TypeOK
  <2>2. CASE next # "idle" /\ work' = [work EXCEPT ![p] = [pc |-> next, o |-> o, n |-> n]]
    <3>1. [pc |-> next, o |-> o, n |-> n] \in Submission
      BY <2>2, <1>1, <1>6, WorkType
    <3> QED BY <3>1, <2>2 DEF TypeOK
  <2> QED BY <1>5, <2>1, <2>2
<1>8. order' \in [Orders -> OrderRow] /\ dispatch' \in [Orders -> [Attempts -> DispatchRow]]
  <2>1. WritesAttempt(o, n, att)
    BY <1>4 DEF WritesAttempt
  <2> QED BY <1>1, <1>2, <1>3, <1>4, <2>1, OrderUpdate, DispatchUpdate
<1>9. lock' \in Workers \cup {NoWorker}
  BY <1>5 DEF TypeOK
<1> QED BY <1>7, <1>8, <1>9 DEF Prepare, TypeOK

LEMMA StatusTyped ==
    ASSUME TypeOK, NEW o \in Orders, NEW s \in Statuses, SetStatus(o, s)
    PROVE  order' \in [Orders -> OrderRow]
<1>1. WithStatus(order[o], s) \in OrderRow
  BY RowType DEF TypeOK, WithStatus
<1> QED BY <1>1, OrderUpdate DEF SetStatus

LEMMA FailureTyped ==
    ASSUME TypeOK, NEW o \in Orders, NEW soft \in BOOLEAN,
           order' = [order EXCEPT ![o] = WithFailure(@, soft)]
    PROVE  order' \in [Orders -> OrderRow]
<1>1. "failed" \in Statuses
  BY DEF Statuses, Terminal
<1>2. WithFailure(order[o], soft) \in OrderRow
  BY <1>1, RowType DEF TypeOK, WithFailure
<1> QED BY <1>2, OrderUpdate

LEMMA AttemptTyped ==
    ASSUME TypeOK, NEW o \in Orders, NEW n \in Attempts, NEW s \in DispatchStatus,
           SetAttempt(o, n, s)
    PROVE  /\ dispatch' \in [Orders -> [Attempts -> DispatchRow]]
           /\ \A x \in Orders, m \in Attempts : dispatch'[x][m].count = dispatch[x][m].count
<1>1. Attempt(s, dispatch[o][n].count) \in DispatchRow
  BY AttemptType DEF TypeOK
<1>2. WritesAttempt(o, n, Attempt(s, dispatch[o][n].count))
  BY DEF SetAttempt, WritesAttempt
<1>3. /\ dispatch' \in [Orders -> [Attempts -> DispatchRow]]
      /\ dispatch'[o][n] = Attempt(s, dispatch[o][n].count)
      /\ \A x \in Orders, m \in Attempts :
            ~(x = o /\ m = n) => dispatch'[x][m] = dispatch[x][m]
  BY <1>1, <1>2, DispatchUpdate
<1>4. dispatch'[o][n].count = dispatch[o][n].count
  BY <1>3, AttemptType
<1> QED BY <1>3, <1>4

LEMMA SubmitTyped ==
    ASSUME TypeOK, NEW p \in Workers, Submit(p)
    PROVE  TypeOK'
<1> DEFINE o == work[p].o
           n == work[p].n
<1>0. work[p].pc \in Submitting => o \in Orders /\ n \in Attempts
  BY Substep
<1>1. ASSUME NEW x \in Orders, Prepare(p, x) PROVE TypeOK'
  BY <1>1, PrepareTyped
<1>2. ASSUME NEW x \in Orders, Expire(p, x) PROVE TypeOK'
  <2>1. order' \in [Orders -> OrderRow]
    BY <1>2, StatusTyped DEF Expire, Statuses, Terminal
  <2>2. order[x].latest > 0 => order[x].latest \in Attempts
    BY RowType, DispatchAssumption DEF TypeOK, Attempts
  <2>3. dispatch' \in [Orders -> [Attempts -> DispatchRow]]
    BY <1>2, <2>2, AttemptTyped DEF Expire, DispatchStatus, TypeOK
  <2> QED BY <1>2, <2>1, <2>3 DEF Expire, TypeOK
<1>3. ASSUME NEW x \in Orders, RiskTrip(p, x) PROVE TypeOK'
  BY <1>3, CancelUpdate DEF RiskTrip, TypeOK
<1>4. ASSUME Append(p) PROVE TypeOK'
  <2>1. o \in Orders /\ order[o] \in OrderRow
    BY <1>0, <1>4 DEF Append, Submitting, TypeOK
  <2> DEFINE m == order[o].latest + 1
  <2>2. CASE m > MaxAttempts
    BY <1>4, <2>2, LeaveUpdate DEF Append, TypeOK
  <2>3. CASE ~(m > MaxAttempts)
    <3>1. m \in Attempts /\ m \in 0..MaxAttempts
      BY <2>1, <2>3, RowType, DispatchAssumption DEF Attempts
    <3>2. Row(order[o].status, order[o].transient, order[o].soft, order[o].oid, m) \in OrderRow
      BY <2>1, <3>1, RowType
    <3>3. /\ order' = [order EXCEPT ![o] = Row(order[o].status, order[o].transient, order[o].soft, order[o].oid, m)]
          /\ dispatch' = [dispatch EXCEPT ![o][m] = Attempt("pending", 0)]
          /\ work' = [work EXCEPT ![p] = [pc |-> "reset", o |-> o, n |-> m]]
          /\ lock' = lock
      BY <1>4, <2>3 DEF Append
    <3>4. [pc |-> "reset", o |-> o, n |-> m] \in Submission
      BY <2>1, <3>1, WorkType DEF Submitting
    <3> DEFINE w == [pc |-> "reset", o |-> o, n |-> m]
    <3>5. Attempt("pending", 0) \in DispatchRow
      BY AttemptType DEF DispatchStatus
    <3>8. w \in Submission /\ work' = [work EXCEPT ![p] = w]
      BY <3>3, <3>4
    <3> HIDE DEF m, w
    <3>6. work' \in [Workers -> {Idle} \cup Submission \cup Answered]
      BY <3>8 DEF TypeOK
    <3> HIDE DEF o
    <3>7. order' \in [Orders -> OrderRow]
      BY <2>1, <3>2, <3>3, OrderUpdate
    <3>9. dispatch' \in [Orders -> [Attempts -> DispatchRow]]
      <4>1. WritesAttempt(o, m, Attempt("pending", 0))
        BY <3>3 DEF WritesAttempt
      <4> QED BY <2>1, <3>1, <3>5, <4>1, DispatchUpdate
    <3> QED BY <1>4, <3>3, <3>6, <3>7, <3>9 DEF Append, TypeOK
  <2> QED BY <2>2, <2>3
<1>5. ASSUME Reset(p) PROVE TypeOK'
  BY <1>0, <1>5, StatusTyped, GotoUpdate DEF Reset, Submitting, Statuses, TypeOK
<1>6. ASSUME Close(p) PROVE TypeOK'
  BY <1>0, <1>6, AttemptTyped, LeaveUpdate DEF Close, Submitting, DispatchStatus, TypeOK
<1>7. ASSUME Mark(p) PROVE TypeOK'
  <2>1. o \in Orders /\ n \in Attempts
    BY <1>0, <1>7 DEF Mark, Submitting
  <2>2. order' \in [Orders -> OrderRow]
    BY <1>7, <2>1, StatusTyped DEF Mark, Statuses, Active
  <2>3. Attempt("dispatching", dispatch[o][n].count + 1) \in DispatchRow
    BY <2>1, AttemptType DEF TypeOK, DispatchStatus
  <2>4. dispatch' = [dispatch EXCEPT ![o][n] = Attempt("dispatching", dispatch[o][n].count + 1)]
    BY <1>7 DEF Mark
  <2>5. dispatch' \in [Orders -> [Attempts -> DispatchRow]]
    <3>1. WritesAttempt(o, n, Attempt("dispatching", dispatch[o][n].count + 1))
      BY <2>4 DEF WritesAttempt
    <3> QED BY <2>1, <2>3, <3>1, DispatchUpdate
  <2>6. work' \in [Workers -> {Idle} \cup Submission \cup Answered]
    BY <1>7, GotoUpdate DEF Mark, Submitting
  <2> QED BY <1>7, <2>2, <2>5, <2>6 DEF Mark, TypeOK
<1>8. ASSUME Send(p) PROVE TypeOK'
  <2>1. o \in Orders /\ n \in Attempts
    BY <1>0, <1>8 DEF Send, Submitting
  <2>2. work' \in [Workers -> {Idle} \cup Submission \cup Answered]
    BY <1>8, GotoUpdate DEF Send, Submitting
  <2>3. exch' \in [Orders -> [Attempts -> Outcome]]
    BY <1>8, <2>1 DEF Send, TypeOK, Outcome
  <2>4. sent' \in [Orders -> [Attempts -> Nat]]
    BY <1>8, <2>1 DEF Send, TypeOK
  <2> QED BY <1>8, <2>2, <2>3, <2>4 DEF Send, TypeOK
<1>9. ASSUME NEW soft \in BOOLEAN, PreSubmitFailure(p, soft) PROVE TypeOK'
  <2>1. o \in Orders /\ n \in Attempts
    BY <1>0, <1>9 DEF PreSubmitFailure, Submitting
  <2>2. order' \in [Orders -> OrderRow]
    BY <1>9, <2>1, FailureTyped DEF PreSubmitFailure
  <2>3. dispatch' \in [Orders -> [Attempts -> DispatchRow]]
    BY <1>9, <2>1, AttemptTyped DEF PreSubmitFailure, DispatchStatus
  <2> QED BY <1>9, <2>2, <2>3, LeaveUpdate DEF PreSubmitFailure, TypeOK
<1>10. ASSUME NEW s \in Active \cup Terminal, Reply(p, s) PROVE TypeOK'
  <2>1. o \in Orders /\ n \in Attempts
    BY <1>0, <1>10 DEF Reply, Submitting
  <2>2. PICK t, f, b \in BOOLEAN :
          order' = [order EXCEPT ![o] = Row(s, t, f, b, order[o].latest)]
    BY <1>10, <2>1, RowType DEF Reply, TypeOK
  <2>3. order' \in [Orders -> OrderRow]
    <3>1. Row(s, t, f, b, order[o].latest) \in OrderRow
      BY <2>1, RowType DEF TypeOK, Statuses
    <3> QED BY <2>1, <2>2, <3>1, OrderUpdate
  <2>4. dispatch' \in [Orders -> [Attempts -> DispatchRow]]
    BY <1>10, <2>1, AttemptTyped DEF Reply, DispatchStatus
  <2> QED BY <1>10, <2>3, <2>4, LeaveUpdate DEF Reply, TypeOK
<1>11. ASSUME UnreadableReply(p) PROVE TypeOK'
  <2>1. o \in Orders /\ n \in Attempts
    BY <1>0, <1>11 DEF UnreadableReply, Submitting
  <2>2. order' \in [Orders -> OrderRow]
    BY <1>11, <2>1, FailureTyped DEF UnreadableReply
  <2>3. dispatch' \in [Orders -> [Attempts -> DispatchRow]]
    BY <1>11, <2>1, AttemptTyped DEF UnreadableReply, DispatchStatus
  <2> QED BY <1>11, <2>2, <2>3, LeaveUpdate DEF UnreadableReply, TypeOK
<1>12. ASSUME LoseReply(p) PROVE TypeOK'
  <2>1. o \in Orders /\ n \in Attempts
    BY <1>0, <1>12 DEF LoseReply, Submitting
  <2>2. order' \in [Orders -> OrderRow]
    <3>1. Row("uncertain", order[o].transient, FALSE, order[o].oid, order[o].latest)
            \in OrderRow
      BY <2>1, RowType DEF TypeOK, Statuses, Active
    <3> QED BY <1>12, <2>1, <3>1, OrderUpdate DEF LoseReply
  <2>3. dispatch' \in [Orders -> [Attempts -> DispatchRow]]
    BY <1>12, <2>1, AttemptTyped DEF LoseReply, DispatchStatus
  <2> QED BY <1>12, <2>2, <2>3, LeaveUpdate DEF LoseReply, TypeOK
<1> QED BY <1>1, <1>2, <1>3, <1>4, <1>5, <1>6, <1>7, <1>8, <1>9, <1>10, <1>11, <1>12 DEF Submit

LEMMA ReconcileTyped ==
    ASSUME TypeOK, NEW p \in Workers, Reconcile(p)
    PROVE  TypeOK'
<1>1. ASSUME NEW o \in Orders, NEW a \in Answer, ReconcileLookup(p, o, a)
      PROVE  TypeOK'
  <2>1. order[o] \in OrderRow /\ order[o].latest \in Attempts
    BY <1>1, RowType, DispatchAssumption DEF ReconcileLookup, TypeOK, Attempts
  <2>2. dispatch[o][order[o].latest].status \in DispatchStatus
    BY <2>1, AttemptType DEF TypeOK
  <2>3. PICK w \in Answered : work' = [work EXCEPT ![p] = w]
    BY <1>1, <2>1, <2>2, WorkType DEF ReconcileLookup
  <2>4. work' \in [Workers -> {Idle} \cup Submission \cup Answered]
    BY <2>3 DEF TypeOK
  <2> QED BY <1>1, <2>4 DEF ReconcileLookup, TypeOK
<1>2. ASSUME NEW imported \in BOOLEAN, ReconcileWrite(p, imported)
      PROVE  TypeOK'
  <2>1. work[p] \in Answered
    BY <1>2, WorkType DEF ReconcileWrite, TypeOK, Submitting
  <2> DEFINE o == work[p].o
             n == work[p].n
             snap == work[p].snap
  <2>2. /\ o \in Orders /\ n \in Attempts
        /\ snap.status \in Statuses /\ snap.transient \in BOOLEAN
        /\ order[o].status \in Statuses
        /\ order[o].transient \in BOOLEAN /\ order[o].soft \in BOOLEAN
        /\ order[o].oid \in BOOLEAN /\ order[o].latest \in 0..MaxAttempts
    BY <2>1, WorkType, RowType DEF TypeOK
  <2>3. PICK fills \in SUBSET {"filled", "partial"} :
          LET known == work[p].seen \notin {"error", "unknown"}
              status == IF known THEN work[p].seen ELSE snap.status
          IN order' = [order EXCEPT ![o] =
               Row(Written(snap.status, Booked(o, fills, status), order[o].status),
                   IF snap.status \in Active THEN snap.transient ELSE order[o].transient,
                   order[o].soft, order[o].oid \/ known \/ fills # {}, order[o].latest)]
    <3> DEFINE fs == IF imported
                     THEN {exch[o][m] : m \in Attempts} \cap {"filled", "partial"} ELSE {}
    <3>1. fs \in SUBSET {"filled", "partial"}
      OBVIOUS
    <3>2. WITNESS fs \in SUBSET {"filled", "partial"}
    <3> QED BY <1>2 DEF ReconcileWrite
  <2>4. work[p].seen \in Answer
    BY <2>1, WorkType
  <2>5. \A fs, s : s \in Statuses => Booked(o, fs, s) \in Statuses
    BY DEF Booked, Statuses, Terminal, Active
  <2>6. work[p].seen \notin {"error", "unknown"} => work[p].seen \in Statuses
    BY <2>4 DEF Answer, Statuses, Terminal, Active
  <2> DEFINE known == work[p].seen \notin {"error", "unknown"}
             status == IF known THEN work[p].seen ELSE snap.status
             s == Written(snap.status, Booked(o, fills, status), order[o].status)
             t == IF snap.status \in Active THEN snap.transient ELSE order[o].transient
             f == order[o].soft
             b == order[o].oid \/ known \/ fills # {}
  <2>7. order' = [order EXCEPT ![o] = Row(s, t, f, b, order[o].latest)]
    BY <2>3
  <2>11. s \in Statuses
    BY <2>2, <2>5, <2>6 DEF Written
  <2>12. t \in BOOLEAN /\ b \in BOOLEAN
    BY <2>2
  <2> HIDE DEF s, t, b
  <2>8. Row(s, t, f, b, order[o].latest) \in OrderRow
    BY <2>2, <2>11, <2>12, RowType
  <2>9. dispatch' \in [Orders -> [Attempts -> DispatchRow]]
    BY <1>2, <2>2, AttemptTyped DEF ReconcileWrite, DispatchStatus, TypeOK
  <2> HIDE DEF o
  <2>10. order' \in [Orders -> OrderRow]
    BY <2>2, <2>7, <2>8, OrderUpdate
  <2> QED BY <1>2, <2>9, <2>10, LeaveUpdate DEF ReconcileWrite, TypeOK
<1> QED BY <1>1, <1>2 DEF Reconcile

LEMMA RecoverTyped ==
    ASSUME TypeOK, Recover
    PROVE  TypeOK'
<1>1. ASSUME NEW o \in Orders, NEW n \in Attempts, RecoverPick(o, n)
      PROVE  TypeOK'
  <2>1. order[o] \in OrderRow /\ dispatch[o][n].status \in DispatchStatus
    BY AttemptType DEF TypeOK
  <2>2. rec' \in Lookup
    BY <1>1, <2>1, WorkType DEF RecoverPick
  <2> QED BY <1>1, <2>2 DEF RecoverPick, TypeOK
<1>2. ASSUME NEW o \in Orders, NEW n \in Attempts, RecoverCancel(o, n)
      PROVE  TypeOK'
  BY <1>2, StatusTyped, AttemptTyped
  DEF RecoverCancel, Statuses, Terminal, DispatchStatus, TypeOK
<1>3. ASSUME NEW a \in Answer, RecoverAsk(a)
      PROVE  TypeOK'
  <2>1. rec \in Lookup
    BY <1>3, WorkType DEF RecoverAsk, TypeOK
  <2>2. rec' \in Answered
    BY <1>3, <2>1, WorkType DEF RecoverAsk
  <2> QED BY <1>3, <2>2 DEF RecoverAsk, TypeOK
<1>4. ASSUME RecoverWrite
      PROVE  TypeOK'
  <2>1. rec \in Answered
    BY <1>4, WorkType DEF RecoverWrite, TypeOK
  <2> DEFINE o == rec.o
             n == rec.n
  <2>2. /\ o \in Orders /\ n \in Attempts
        /\ rec.snap.transient \in BOOLEAN /\ rec.seen \in Answer
        /\ order[o].status \in Statuses /\ order[o].soft \in BOOLEAN
        /\ order[o].oid \in BOOLEAN /\ order[o].latest \in 0..MaxAttempts
        /\ dispatch[o][n].status \in DispatchStatus
    <3>1. o \in Orders /\ n \in Attempts /\ rec.seen \in Answer /\ rec.snap \in OrderRow
      BY <2>1, WorkType
    <3>2. order[o] \in OrderRow /\ dispatch[o][n] \in DispatchRow
      BY <3>1 DEF TypeOK
    <3> QED BY <3>1, <3>2, RowType, AttemptType
  <2>3. PICK s \in Statuses, t, f, b \in BOOLEAN :
          order' = [order EXCEPT ![o] = Row(s, t, f, b, order[o].latest)]
    BY <1>4, <2>2 DEF RecoverWrite, Written, Answer, Statuses, Terminal, Active
  <2>4. Row(s, t, f, b, order[o].latest) \in OrderRow
    BY <2>2, RowType
  <2>5. PICK d \in DispatchStatus : SetAttempt(o, n, d)
    BY <1>4, <2>2 DEF RecoverWrite, Written, DispatchStatus
  <2>6. dispatch' \in [Orders -> [Attempts -> DispatchRow]]
    BY <2>2, <2>5, AttemptTyped
  <2> HIDE DEF o
  <2>7. order' \in [Orders -> OrderRow]
    BY <2>2, <2>3, <2>4, OrderUpdate
  <2> QED BY <1>4, <2>6, <2>7 DEF RecoverWrite, TypeOK
<1> QED BY <1>1, <1>2, <1>3, <1>4 DEF Recover

LEMMA TypeStep ==
    ASSUME TypeOK, [Next]_vars
    PROVE  TypeOK'
<1>1. ASSUME NEW p \in Workers, Crash(p) PROVE TypeOK'
  BY <1>1, LeaveUpdate DEF Crash, TypeOK
<1>2. ASSUME NEW o \in Orders, NEW soft \in BOOLEAN, RecordSkip(o, soft)
      PROVE  TypeOK'
  <2>1. order' \in [Orders -> OrderRow]
    <3>1. Row("failed", FALSE, soft, order[o].oid, order[o].latest) \in OrderRow
      BY RowType DEF TypeOK, Statuses, Terminal
    <3> QED BY <1>2, <3>1, OrderUpdate DEF RecordSkip
  <2> QED BY <1>2, <2>1 DEF RecordSkip, TypeOK
<1>3. ASSUME Exchange PROVE TypeOK'
  <2>1. PICK o \in Orders, n \in Attempts, e \in Outcome : Deliver(o, n, e) \/ Settle(o, n, e)
    BY <1>3 DEF Exchange, Outcome
  <2>2. exch' = [exch EXCEPT ![o][n] = e]
    BY <2>1 DEF Deliver, Settle
  <2>3. exch' \in [Orders -> [Attempts -> Outcome]]
    BY <2>2 DEF TypeOK
  <2> QED BY <2>1, <2>3 DEF Deliver, Settle, TypeOK
<1>4. ASSUME Stop PROVE TypeOK'
  BY <1>4, CancelUpdate DEF Stop, TypeOK
<1>5. ASSUME Start PROVE TypeOK'
  BY <1>5 DEF Start, TypeOK
<1>6. ASSUME NEW enabled \in BOOLEAN, Restart(enabled) PROVE TypeOK'
  BY <1>6 DEF Restart, TypeOK
<1>7. ASSUME UNCHANGED vars PROVE TypeOK'
  BY <1>7 DEF vars, TypeOK
<1> QED
  BY <1>1, <1>2, <1>3, <1>4, <1>5, <1>6, <1>7, SubmitTyped, ReconcileTyped, RecoverTyped
  DEF Next

-----------------------------------------------------------------------------
LEMMA InitInv == Init => DispatchInv
<1> SUFFICES ASSUME Init PROVE DispatchInv
  OBVIOUS
<1>1. Row("absent", FALSE, FALSE, FALSE, 0) \in OrderRow
  <2>1. 0 \in 0..MaxAttempts /\ "absent" \in Statuses /\ FALSE \in BOOLEAN
    BY DispatchAssumption DEF Statuses
  <2> QED BY <2>1, RowType
<1>2. Attempt("absent", 0) \in DispatchRow
  BY AttemptType DEF DispatchStatus
<1>3. TypeOK
  BY <1>1, <1>2 DEF Init, TypeOK, Outcome
<1>4. \A o \in Orders : /\ order[o].status = "absent" /\ order[o].latest = 0
                        /\ \A n \in Attempts : exch[o][n] = "none" /\ sent[o][n] = 0
  <2>1. \A o \in Orders : order[o] = Row("absent", FALSE, FALSE, FALSE, 0)
    BY DEF Init
  <2>2. \A o \in Orders : order[o].status = "absent" /\ order[o].latest = 0
    BY <2>1 DEF Row
  <2>3. \A o \in Orders, n \in Attempts : exch[o][n] = "none" /\ sent[o][n] = 0
    BY DEF Init
  <2> QED BY <2>2, <2>3
<1>5. \A p \in Workers : work[p] = Idle
  BY DEF Init
<1>6. FenceHeld /\ OnLatest /\ StepOutcome
  BY <1>5, WorkType DEF FenceHeld, OnLatest, StepOutcome
<1>7. SentTracked /\ StatusOutcome
  BY <1>4 DEF SentTracked, StatusOutcome
<1>8. SupersededRefused
  BY <1>4 DEF SupersededRefused, Attempts
<1> QED BY <1>3, <1>6, <1>7, <1>8 DEF DispatchInv

\* The fence excludes: a worker in a step is the only one.
LEMMA Alone ==
    ASSUME DispatchInv, NEW p \in Workers, work[p].pc # "idle"
    PROVE  lock = p /\ \A q \in Workers : q # p => work[q] = Idle
  BY WorkType DEF DispatchInv, FenceHeld

LEMMA AllIdle ==
    ASSUME DispatchInv, lock = NoWorker
    PROVE  \A q \in Workers : work[q] = Idle
  BY DispatchAssumption DEF DispatchInv, FenceHeld

LEMMA LeaveIdle ==
    ASSUME DispatchInv, NEW p \in Workers, work[p].pc # "idle", Leave(p)
    PROVE  \A q \in Workers : work'[q] = Idle
  BY Alone, LeaveUpdate DEF DispatchInv

LEMMA LatestRow ==
    ASSUME DispatchInv, NEW p \in Workers, work[p].pc \in Submitting
    PROVE  /\ work[p].pc # "idle"
           /\ work[p].o \in Orders /\ work[p].n \in Attempts
           /\ work[p].n = order[work[p].o].latest
  BY Substep DEF DispatchInv, OnLatest, Submitting

(***************************************************************************)
(* A step that neither sends nor numbers an attempt keeps the invariant if *)
(* no submission outlives the account's right to enter and if a row turns  *)
(* to a retryable refusal only where the exchange refused.                 *)
(***************************************************************************)
LEMMA QuietStep ==
    ASSUME DispatchInv, TypeOK', FenceHeld', exch' = exch, sent' = sent,
           \A o \in Orders : order'[o].latest = order[o].latest,
           \A o \in Orders, n \in Attempts : dispatch'[o][n].count = dispatch[o][n].count,
           \A q \in Workers : work'[q] = work[q] \/ work'[q].pc \notin Submitting,
           \A q \in Workers : work'[q].pc \in Submitting /\ work'[q].o \in Entries =>
               account' = "enabled" /\ live',
           \A o \in Orders : order'[o].status \in {"absent", "ready"} =>
               order'[o].status = order[o].status,
           \A o \in Orders : order'[o].status \in {"rejected", "failed"} /\ ~order'[o].oid =>
               \/ order[o].status \in {"absent", "rejected", "failed"} /\ ~order[o].oid
               \/ \A q \in Workers : work'[q].pc \in {"send", "wait"} => work'[q].o # o,
           \A o \in Orders : Retriable(order'[o]) =>
               \/ Retriable(order[o]) \/ order[o].status = "absent"
               \/ exch[o][order[o].latest] \in Refused
    PROVE  DispatchInv'
<1>1. OnLatest'
  <2> SUFFICES ASSUME NEW q \in Workers, work'[q].pc \in Submitting
               PROVE  /\ work'[q].n = order'[work'[q].o].latest
                      /\ work'[q].o \in Entries => account' = "enabled" /\ live'
    BY DEF OnLatest
  <2>1. work'[q] = work[q]
    OBVIOUS
  <2> QED BY <2>1, LatestRow
<1>2. SentTracked'
  BY DEF DispatchInv, SentTracked
<1>3. StepOutcome'
  <2> SUFFICES ASSUME NEW q \in Workers, work'[q].pc \in Submitting
               PROVE  LET o == work'[q].o
                          n == work'[q].n
                      IN /\ work'[q].pc = "append" => exch'[o][n] \in Refused
                         /\ work'[q].pc \in {"reset", "mark", "send"} => exch'[o][n] = "none"
                         /\ work'[q].pc = "send" => dispatch'[o][n].count > 0
                         /\ work'[q].pc \in {"send", "wait"} =>
                               /\ order'[o].status \notin {"absent", "ready"}
                               /\ order'[o].status \in {"rejected", "failed"} => order'[o].oid
    BY DEF StepOutcome
  <2>1. work'[q] = work[q] /\ work[q].o \in Orders /\ work[q].n \in Attempts
    BY LatestRow
  <2>2. work[q].pc \in {"send", "wait"} =>
           /\ order[work[q].o].status \notin {"absent", "ready"}
           /\ order[work[q].o].status \in {"rejected", "failed"} => order[work[q].o].oid
    BY <2>1 DEF DispatchInv, StepOutcome
  <2>3. work[q].pc \in {"send", "wait"} =>
           /\ order'[work[q].o].status \notin {"absent", "ready"}
           /\ order'[work[q].o].status \in {"rejected", "failed"} => order'[work[q].o].oid
    BY <2>1, <2>2
  <2> QED BY <2>1, <2>3 DEF DispatchInv, StepOutcome
<1>4. StatusOutcome'
  <2> SUFFICES ASSUME NEW o \in Orders
               PROVE  /\ order'[o].status = "absent" => order'[o].latest = 0
                      /\ order'[o].status = "ready" =>
                            order'[o].latest > 0 /\ exch'[o][order'[o].latest] = "none"
                      /\ Retriable(order'[o]) /\ order'[o].latest > 0 =>
                            exch'[o][order'[o].latest] \in Refused
    BY DEF StatusOutcome
  <2>1. /\ order[o].status = "absent" => order[o].latest = 0
        /\ order[o].status = "ready" =>
              order[o].latest > 0 /\ exch[o][order[o].latest] = "none"
        /\ Retriable(order[o]) /\ order[o].latest > 0 =>
              exch[o][order[o].latest] \in Refused
    BY DEF DispatchInv, StatusOutcome
  <2> QED BY <2>1
<1>5. SupersededRefused'
  BY DEF DispatchInv, SupersededRefused
<1> QED BY <1>1, <1>2, <1>3, <1>4, <1>5 DEF DispatchInv

\* A worker that leaves the fence, having changed rows but sent nothing.
LEMMA LeaveQuiet ==
    ASSUME DispatchInv, TypeOK', NEW p \in Workers, work[p].pc # "idle", Leave(p),
           exch' = exch, sent' = sent,
           \A o \in Orders : order'[o].latest = order[o].latest,
           \A o \in Orders, n \in Attempts : dispatch'[o][n].count = dispatch[o][n].count,
           \A o \in Orders : order'[o].status \in {"absent", "ready"} =>
               order'[o].status = order[o].status,
           \A o \in Orders : Retriable(order'[o]) =>
               \/ Retriable(order[o]) \/ order[o].status = "absent"
               \/ exch[o][order[o].latest] \in Refused
    PROVE  DispatchInv'
<1>1. \A q \in Workers : work'[q] = Idle
  BY LeaveIdle
<1>2. \A q \in Workers : work'[q].pc \notin Submitting /\ work'[q].pc \notin {"send", "wait"}
  BY <1>1, WorkType DEF Submitting
<1>3. FenceHeld'
  BY <1>1 DEF FenceHeld
<1> QED BY <1>2, <1>3, QuietStep

\* What an update of one order and of one attempt's status leaves alone.
LEMMA OneRow ==
    ASSUME TypeOK, NEW o \in Orders, NEW row, order' = [order EXCEPT ![o] = row]
    PROVE  order'[o] = row /\ \A x \in Orders : x # o => order'[x] = order[x]
  BY DEF TypeOK

LEMMA CloseStep ==
    ASSUME DispatchInv, TypeOK', NEW p \in Workers, Close(p)
    PROVE  DispatchInv'
<1>1. work[p].pc \in Submitting /\ work[p].pc # "idle" /\ TypeOK
  BY DEF Close, Submitting, DispatchInv
<1>2. \A o \in Orders, n \in Attempts : dispatch'[o][n].count = dispatch[o][n].count
  BY <1>1, LatestRow, AttemptTyped DEF Close, DispatchStatus
<1> QED BY <1>1, <1>2, LeaveQuiet DEF Close

LEMMA PreSubmitFailureStep ==
    ASSUME DispatchInv, TypeOK', NEW p \in Workers, NEW soft, PreSubmitFailure(p, soft)
    PROVE  DispatchInv'
<1> DEFINE o == work[p].o
<1>1. work[p].pc \in Submitting /\ work[p].pc # "idle" /\ TypeOK
  BY DEF PreSubmitFailure, Submitting, DispatchInv
<1>2. /\ o \in Orders /\ work[p].n \in Attempts
      /\ exch[o][order[o].latest] = "none"
  BY <1>1, LatestRow DEF PreSubmitFailure, DispatchInv, StepOutcome
<1>3. \A x \in Orders, n \in Attempts : dispatch'[x][n].count = dispatch[x][n].count
  BY <1>1, <1>2, AttemptTyped DEF PreSubmitFailure, DispatchStatus
<1>4. /\ order'[o] = WithFailure(order[o], soft)
      /\ \A x \in Orders : x # o => order'[x] = order[x]
  BY <1>1, <1>2, OneRow DEF PreSubmitFailure
<1>5. order'[o].status = "failed" /\ order'[o].latest = order[o].latest
  BY <1>4 DEF WithFailure, Row
<1> HIDE DEF o
<1> QED BY <1>1, <1>2, <1>3, <1>4, <1>5, LeaveQuiet DEF PreSubmitFailure, Refused

LEMMA ReplyStep ==
    ASSUME DispatchInv, TypeOK', NEW p \in Workers, NEW status, Reply(p, status)
    PROVE  DispatchInv'
<1> DEFINE o == work[p].o
           e == exch[o][work[p].n]
<1>1. work[p].pc \in Submitting /\ work[p].pc # "idle" /\ TypeOK
  BY DEF Reply, Submitting, DispatchInv
<1>2. o \in Orders /\ work[p].n \in Attempts /\ e = exch[o][order[o].latest]
  BY <1>1, LatestRow
<1>3. \A x \in Orders, n \in Attempts : dispatch'[x][n].count = dispatch[x][n].count
  BY <1>1, <1>2, AttemptTyped DEF Reply, DispatchStatus
<1>4. PICK t, f, b : order' = [order EXCEPT ![o] = Row(status, t, f, b, order[o].latest)]
  BY DEF Reply
<1>5. /\ order'[o].status = status /\ order'[o].latest = order[o].latest
      /\ \A x \in Orders : x # o => order'[x] = order[x]
  <2> DEFINE row == Row(status, t, f, b, order[o].latest)
  <2>1. row.status = status /\ row.latest = order[o].latest
    BY DEF Row
  <2>2. order' = [order EXCEPT ![o] = row]
    BY <1>4
  <2> HIDE DEF row
  <2>3. order'[o] = row /\ \A x \in Orders : x # o => order'[x] = order[x]
    BY <1>1, <1>2, <2>2, OneRow
  <2> QED BY <2>1, <2>3
<1>6. status \in Replies(e)
  BY DEF Reply
<1>7. /\ status \notin {"absent", "ready", "failed"}
      /\ status = "rejected" => e \in Refused
  BY <1>6 DEF Replies, Refused
<1> HIDE DEF o, e
<1> QED BY <1>1, <1>2, <1>3, <1>5, <1>7, LeaveQuiet DEF Reply, Retriable

LEMMA UnreadableReplyStep ==
    ASSUME DispatchInv, TypeOK', NEW p \in Workers, UnreadableReply(p)
    PROVE  DispatchInv'
<1> DEFINE o == work[p].o
<1>1. work[p].pc \in Submitting /\ work[p].pc # "idle" /\ TypeOK
  BY DEF UnreadableReply, Submitting, DispatchInv
<1>2. o \in Orders /\ work[p].n \in Attempts
  BY <1>1, LatestRow
<1>3. \A x \in Orders, n \in Attempts : dispatch'[x][n].count = dispatch[x][n].count
  BY <1>1, <1>2, AttemptTyped DEF UnreadableReply, DispatchStatus
<1>4. /\ order'[o] = WithFailure(order[o], FALSE)
      /\ \A x \in Orders : x # o => order'[x] = order[x]
  BY <1>1, <1>2, OneRow DEF UnreadableReply
<1>5. /\ order'[o].status = "failed" /\ order'[o].latest = order[o].latest
      /\ ~order'[o].soft
  BY <1>4 DEF WithFailure, Row
<1> HIDE DEF o
<1> QED BY <1>1, <1>2, <1>3, <1>4, <1>5, LeaveQuiet DEF UnreadableReply, Retriable

LEMMA LoseReplyStep ==
    ASSUME DispatchInv, TypeOK', NEW p \in Workers, LoseReply(p)
    PROVE  DispatchInv'
<1> DEFINE o == work[p].o
<1>1. work[p].pc \in Submitting /\ work[p].pc # "idle" /\ TypeOK
  BY DEF LoseReply, Submitting, DispatchInv
<1>2. o \in Orders /\ work[p].n \in Attempts
  BY <1>1, LatestRow
<1>3. \A x \in Orders, n \in Attempts : dispatch'[x][n].count = dispatch[x][n].count
  BY <1>1, <1>2, AttemptTyped DEF LoseReply, DispatchStatus
<1>4. /\ order'[o] = Row("uncertain", order[o].transient, FALSE, order[o].oid, order[o].latest)
      /\ \A x \in Orders : x # o => order'[x] = order[x]
  BY <1>1, <1>2, OneRow DEF LoseReply
<1>5. order'[o].status = "uncertain" /\ order'[o].latest = order[o].latest
  BY <1>4 DEF Row
<1> HIDE DEF o
<1> QED BY <1>1, <1>2, <1>3, <1>4, <1>5, LeaveQuiet DEF LoseReply, Retriable

LEMMA CrashStep ==
    ASSUME DispatchInv, TypeOK', NEW p \in Workers, Crash(p)
    PROVE  DispatchInv'
<1>1. work[p].pc # "idle"
  BY WorkType DEF Crash, DispatchInv, TypeOK, Submitting
<1> QED BY <1>1, LeaveQuiet DEF Crash

LEMMA ReconcileWriteStep ==
    ASSUME DispatchInv, TypeOK', NEW p \in Workers, NEW imported, ReconcileWrite(p, imported)
    PROVE  DispatchInv'
<1> DEFINE o == work[p].o
           seen == work[p].seen
           snap == work[p].snap
           known == seen \notin {"error", "unknown"}
           s == IF known THEN seen ELSE snap.status
           fills == IF imported THEN {exch[o][m] : m \in Attempts} \cap {"filled", "partial"}
                                ELSE {}
<1>1. work[p].pc # "idle" /\ TypeOK /\ work[p] \in Answered
  BY WorkType DEF ReconcileWrite, DispatchInv, TypeOK, Submitting
<1>2. o \in Orders /\ work[p].n \in Attempts /\ seen \in Answer
  BY <1>1, WorkType
<1>3. \A x \in Orders, n \in Attempts : dispatch'[x][n].count = dispatch[x][n].count
  BY <1>1, <1>2, AttemptTyped DEF ReconcileWrite, DispatchStatus
<1>4. PICK t : order' = [order EXCEPT ![o] =
                  Row(Written(snap.status, Booked(o, fills, s), order[o].status), t,
                      order[o].soft, order[o].oid \/ known \/ fills # {}, order[o].latest)]
  BY DEF ReconcileWrite
<1>5. /\ order'[o].status = Written(snap.status, Booked(o, fills, s), order[o].status)
      /\ order'[o].oid = (order[o].oid \/ known \/ fills # {})
      /\ order'[o].soft = order[o].soft
      /\ order'[o].latest = order[o].latest
      /\ \A x \in Orders : x # o => order'[x] = order[x]
  <2> DEFINE row == Row(Written(snap.status, Booked(o, fills, s), order[o].status), t,
                        order[o].soft, order[o].oid \/ known \/ fills # {}, order[o].latest)
  <2>1. order' = [order EXCEPT ![o] = row]
    BY <1>4
  <2>2. /\ row.status = Written(snap.status, Booked(o, fills, s), order[o].status)
        /\ row.oid = (order[o].oid \/ known \/ fills # {})
        /\ row.soft = order[o].soft
        /\ row.latest = order[o].latest
    BY DEF Row
  <2> HIDE DEF row
  <2>3. order'[o] = row /\ \A x \in Orders : x # o => order'[x] = order[x]
    BY <1>1, <1>2, <2>1, OneRow
  <2> QED BY <2>2, <2>3
<1>6. ~(known \/ fills # {}) => order'[o].status = order[o].status
  BY <1>5 DEF Booked, Written
<1>7. \/ order'[o].status = order[o].status
      \/ order'[o].status \in Answer \cup {"partially_filled"} /\ (known \/ fills # {})
  <2>1. CASE ~(known \/ fills # {})
    BY <2>1, <1>6
  <2>2. CASE known \/ fills # {}
    <3>1. Booked(o, fills, s) \in Answer \cup {"partially_filled", snap.status}
      BY <1>2 DEF Booked, Answer
    <3> QED BY <2>2, <3>1, <1>5 DEF Written
  <2> QED BY <2>1, <2>2
<1>8. \A x \in Answer \cup {"partially_filled"} : x \notin {"absent", "ready", "failed"}
  BY DEF Answer
<1> HIDE DEF o, known, fills, s, seen, snap
<1>9. \A x \in Orders : Retriable(order'[x]) => Retriable(order[x])
  BY <1>2, <1>5, <1>6 DEF Retriable
<1>10. \A x \in Orders : order'[x].status \in {"absent", "ready"} =>
          order'[x].status = order[x].status
  BY <1>2, <1>5, <1>7, <1>8
<1>11. \A x \in Orders : order'[x].latest = order[x].latest
  BY <1>2, <1>5
<1>12. Leave(p) /\ exch' = exch /\ sent' = sent /\ account' = account
  BY DEF ReconcileWrite
<1> QED BY <1>1, <1>3, <1>9, <1>10, <1>11, <1>12, LeaveQuiet

\* A step taken while the fence is free, with no worker in the middle of anything.
LEMMA FreeQuiet ==
    ASSUME DispatchInv, TypeOK', lock = NoWorker, work' = work,
           exch' = exch, sent' = sent,
           \A o \in Orders : order'[o].latest = order[o].latest,
           \A o \in Orders, n \in Attempts : dispatch'[o][n].count = dispatch[o][n].count,
           \A o \in Orders : order'[o] = order[o] \/ order'[o].status = "canceled"
    PROVE  DispatchInv'
<1>1. \A q \in Workers : work'[q] = Idle
  BY AllIdle
<1>2. \A q \in Workers : work'[q].pc \notin Submitting
  BY <1>1, WorkType
<1>3. FenceHeld'
  BY <1>1 DEF FenceHeld
<1>4. \A o \in Orders : Retriable(order'[o]) => Retriable(order[o])
  BY DEF Retriable
<1> QED BY <1>2, <1>3, <1>4, QuietStep

LEMMA CanceledRow ==
    \A row : /\ WithStatus(row, "canceled").status = "canceled"
             /\ WithStatus(row, "canceled").latest = row.latest
  BY DEF WithStatus, Row

LEMMA ExpireStep ==
    ASSUME DispatchInv, TypeOK', NEW p \in Workers, NEW o \in Orders, Expire(p, o)
    PROVE  DispatchInv'
<1>1. TypeOK /\ lock = NoWorker
  BY DEF DispatchInv, Expire, CanEnter
<1>2. /\ order'[o] = WithStatus(order[o], "canceled")
      /\ \A x \in Orders : x # o => order'[x] = order[x]
  BY <1>1, OneRow DEF Expire, SetStatus
<1>3. order[o].latest > 0 => order[o].latest \in Attempts
  BY <1>1, RowType, DispatchAssumption DEF TypeOK, Attempts
<1>4. \A x \in Orders, n \in Attempts : dispatch'[x][n].count = dispatch[x][n].count
  BY <1>1, <1>3, AttemptTyped DEF Expire, DispatchStatus
<1> QED BY <1>1, <1>2, <1>4, CanceledRow, FreeQuiet DEF Expire

LEMMA CancelStep ==
    ASSUME DispatchInv, TypeOK', lock = NoWorker, CancelUnsent,
           UNCHANGED <<live, lock, exch, sent, work, rec>>
    PROVE  DispatchInv'
<1>1. /\ \A o \in Orders : order'[o] = order[o] \/ order'[o] = WithStatus(order[o], "canceled")
      /\ \A o \in Orders, n \in Attempts : dispatch'[o][n].count = dispatch[o][n].count
  BY CancelUpdate DEF DispatchInv
<1> QED BY <1>1, CanceledRow, FreeQuiet

LEMMA StartStep ==
    ASSUME DispatchInv, TypeOK', Start
    PROVE  DispatchInv'
  BY FreeQuiet DEF Start

LEMMA RestartStep ==
    ASSUME DispatchInv, TypeOK', NEW enabled, Restart(enabled)
    PROVE  DispatchInv'
<1>1. \A q \in Workers : work'[q] = Idle
  BY DEF Restart
<1>2. \A q \in Workers : work'[q].pc \notin Submitting
  BY <1>1, WorkType
<1>3. FenceHeld'
  BY <1>1 DEF FenceHeld
<1> QED BY <1>2, <1>3, QuietStep DEF Restart

\* A step that leaves the fence, the workers and the account as they are.
LEMMA AsideQuiet ==
    ASSUME DispatchInv, TypeOK', UNCHANGED <<account, live, lock, exch, sent, work>>,
           \A o \in Orders : order'[o].latest = order[o].latest,
           \A o \in Orders, n \in Attempts : dispatch'[o][n].count = dispatch[o][n].count,
           \A o \in Orders : order'[o].status \in {"absent", "ready"} =>
               order'[o].status = order[o].status,
           \A o \in Orders : order'[o].status \in {"rejected", "failed"} /\ ~order'[o].oid =>
               order[o].status \in {"absent", "rejected", "failed"} /\ ~order[o].oid,
           \A o \in Orders : Retriable(order'[o]) =>
               Retriable(order[o]) \/ order[o].status = "absent"
    PROVE  DispatchInv'
<1>1. FenceHeld'
  BY DEF DispatchInv, FenceHeld
<1>2. \A q \in Workers : work'[q].pc \in Submitting /\ work'[q].o \in Entries =>
         account' = "enabled" /\ live'
  BY DEF DispatchInv, OnLatest
<1> QED BY <1>1, <1>2, QuietStep

LEMMA RecordSkipStep ==
    ASSUME DispatchInv, TypeOK', NEW o \in Orders, NEW soft, RecordSkip(o, soft)
    PROVE  DispatchInv'
<1>1. TypeOK
  BY DEF DispatchInv
<1>2. /\ order'[o] = Row("failed", FALSE, soft, order[o].oid, order[o].latest)
      /\ \A x \in Orders : x # o => order'[x] = order[x]
  BY <1>1, OneRow DEF RecordSkip
<1>3. /\ order'[o].status = "failed" /\ order'[o].latest = order[o].latest
      /\ order'[o].oid = order[o].oid
  BY <1>2 DEF Row
<1>4. order[o].status = "absent" \/ Retriable(order[o])
  BY DEF RecordSkip, RetryableFailure, Retriable
<1>5. order[o].status \in {"absent", "rejected", "failed"}
  BY <1>4 DEF Retriable
<1>6. \A x \in Orders : Retriable(order'[x]) => Retriable(order[x]) \/ order[x].status = "absent"
  BY <1>2, <1>4
<1> QED BY <1>2, <1>3, <1>5, <1>6, AsideQuiet DEF RecordSkip

LEMMA RecoverStep ==
    ASSUME DispatchInv, TypeOK', Recover
    PROVE  DispatchInv'
<1>0. TypeOK
  BY DEF DispatchInv
<1>1. ASSUME NEW o \in Orders, NEW n \in Attempts, RecoverPick(o, n)
      PROVE  DispatchInv'
  BY <1>1, AsideQuiet DEF RecoverPick
<1>2. ASSUME NEW o \in Orders, NEW n \in Attempts, RecoverCancel(o, n)
      PROVE  DispatchInv'
  <2>1. /\ order'[o] = WithStatus(order[o], "canceled")
        /\ \A x \in Orders : x # o => order'[x] = order[x]
    BY <1>0, <1>2, OneRow DEF RecoverCancel, SetStatus
  <2>2. \A x \in Orders, m \in Attempts : dispatch'[x][m].count = dispatch[x][m].count
    BY <1>0, <1>2, AttemptTyped DEF RecoverCancel, DispatchStatus
  <2>3. ~Retriable(order'[o])
    BY <2>1, CanceledRow DEF Retriable
  <2> QED BY <1>2, <2>1, <2>2, <2>3, CanceledRow, AsideQuiet DEF RecoverCancel
<1>3. ASSUME NEW a \in Answer, RecoverAsk(a)
      PROVE  DispatchInv'
  BY <1>3, AsideQuiet DEF RecoverAsk
<1>4. ASSUME RecoverWrite
      PROVE  DispatchInv'
  <2> DEFINE o == rec.o
             known == rec.seen \notin {"error", "unknown"}
             s == IF known THEN rec.seen ELSE "uncertain"
  <2>1. rec \in Answered
    BY <1>0, <1>4, WorkType DEF RecoverWrite, TypeOK
  <2>2. o \in Orders /\ rec.n \in Attempts /\ rec.seen \in Answer
        /\ rec.dsnap \in DispatchStatus
    BY <2>1, WorkType
  <2> DEFINE row == Row(Written(rec.snap.status, s, order[o].status), rec.snap.transient,
                        known /\ order[o].soft, order[o].oid \/ known, order[o].latest)
  <2>3. order' = [order EXCEPT ![o] = row]
    BY <1>4 DEF RecoverWrite
  <2>4. /\ row.status = s \/ row.status = order[o].status
        /\ row.oid = (order[o].oid \/ known) /\ row.soft = (known /\ order[o].soft)
        /\ row.latest = order[o].latest
    BY DEF Row, Written
  <2>5. PICK d \in DispatchStatus : SetAttempt(o, rec.n, d)
    <3>1. dispatch[o][rec.n].status \in DispatchStatus
      BY <1>0, <2>2, AttemptType DEF TypeOK
    <3> QED BY <1>4, <2>2, <3>1 DEF RecoverWrite, Written, DispatchStatus
  <2>6. \A x \in Orders, m \in Attempts : dispatch'[x][m].count = dispatch[x][m].count
    BY <1>0, <2>2, <2>5, AttemptTyped
  <2>7. /\ s \notin {"absent", "ready", "failed"}
        /\ s = "rejected" => known
    BY <2>2 DEF Answer
  <2> HIDE DEF row, o, s, known
  <2>8. order'[o] = row /\ \A x \in Orders : x # o => order'[x] = order[x]
    BY <1>0, <2>2, <2>3, OneRow
  <2>9. \A x \in Orders : order'[x].status \in {"rejected", "failed"} /\ ~order'[x].oid =>
          order[x].status \in {"absent", "rejected", "failed"} /\ ~order[x].oid
    BY <2>2, <2>4, <2>7, <2>8
  <2>10. \A x \in Orders : order'[x].status \in {"absent", "ready"} =>
          order'[x].status = order[x].status
    BY <2>2, <2>4, <2>7, <2>8
  <2>11. \A x \in Orders : order'[x].latest = order[x].latest
    BY <2>2, <2>4, <2>8
  <2>12. \A x \in Orders : Retriable(order'[x]) => Retriable(order[x])
    BY <2>2, <2>4, <2>7, <2>8 DEF Retriable
  <2>13. UNCHANGED <<account, live, lock, exch, sent, work>>
    BY <1>4 DEF RecoverWrite
  <2> QED BY <2>6, <2>9, <2>10, <2>11, <2>12, <2>13, AsideQuiet
<1> QED BY <1>1, <1>2, <1>3, <1>4 DEF Recover

LEMMA ReconcileLookupStep ==
    ASSUME DispatchInv, TypeOK', NEW p \in Workers, NEW o, NEW a, ReconcileLookup(p, o, a)
    PROVE  DispatchInv'
<1>1. TypeOK /\ lock = NoWorker /\ \A q \in Workers : work[q] = Idle
  BY AllIdle DEF DispatchInv, ReconcileLookup, CanEnter
<1> DEFINE n == order[o].latest
           w == [pc |-> "write", o |-> o, n |-> n, snap |-> order[o],
                 dsnap |-> dispatch[o][n].status, seen |-> a]
<1>2. work' = [work EXCEPT ![p] = w] /\ w.pc = "write"
  BY DEF ReconcileLookup
<1> HIDE DEF w
<1>3. work'[p] = w /\ \A q \in Workers : q # p => work'[q] = Idle
  BY <1>1, <1>2 DEF TypeOK
<1>4. \A q \in Workers : work'[q].pc \notin Submitting
  BY <1>2, <1>3, WorkType DEF Submitting
<1>5. FenceHeld'
  BY <1>3 DEF FenceHeld, ReconcileLookup
<1> QED BY <1>4, <1>5, QuietStep DEF ReconcileLookup

(***************************************************************************)
(* The steps that number or send an attempt, and the exchange's.           *)
(***************************************************************************)
LEMMA AppendStep ==
    ASSUME DispatchInv, TypeOK', NEW p \in Workers, Append(p)
    PROVE  DispatchInv'
<1> DEFINE o == work[p].o
           n == order[o].latest + 1
<1>1. /\ work[p].pc \in Submitting /\ work[p].pc # "idle" /\ work[p].pc = "append" /\ TypeOK
      /\ lock = p /\ \A q \in Workers : q # p => work[q] = Idle
  BY Alone DEF Append, Submitting, DispatchInv
<1>2. /\ o \in Orders /\ order[o].latest \in Attempts
      /\ exch[o][order[o].latest] \in Refused
  BY <1>1, LatestRow DEF DispatchInv, StepOutcome
<1>3. CASE n > MaxAttempts
  <2>1. Leave(p) /\ UNCHANGED <<account, live, order, dispatch, exch, sent>>
    BY <1>3 DEF Append
  <2> QED BY <2>1, <1>1, LeaveQuiet
<1>4. CASE ~(n > MaxAttempts)
  <2>1. n \in Attempts /\ n > order[o].latest
    BY <1>2, <1>4, DispatchAssumption DEF Attempts
  <2> DEFINE row == Row(order[o].status, order[o].transient, order[o].soft, order[o].oid, n)
             w == [pc |-> "reset", o |-> o, n |-> n]
             att == Attempt("pending", 0)
  <2>2. /\ order' = [order EXCEPT ![o] = row]
        /\ dispatch' = [dispatch EXCEPT ![o][n] = att]
        /\ work' = [work EXCEPT ![p] = w]
        /\ UNCHANGED <<account, live, lock, exch, sent>>
    BY <1>4 DEF Append
  <2>3. /\ row.status = order[o].status /\ row.oid = order[o].oid /\ row.latest = n
        /\ w.pc = "reset" /\ w.o = o /\ w.n = n /\ att.count = 0
    BY DEF Row, Attempt
  <2>4. att \in DispatchRow
    BY AttemptType DEF DispatchStatus
  <2>5. exch[o][n] = "none"
    BY <1>2, <2>1 DEF DispatchInv, SentTracked
  <2> HIDE DEF row, w, att, o, n
  <2>6. order'[o] = row /\ \A x \in Orders : x # o => order'[x] = order[x]
    BY <1>1, <1>2, <2>2, OneRow
  <2>7. \A x \in Orders, m \in Attempts :
          /\ x = o /\ m = n => dispatch'[x][m] = att
          /\ ~(x = o /\ m = n) => dispatch'[x][m] = dispatch[x][m]
    <3>1. TypeOK /\ o \in Orders /\ n \in Attempts /\ att \in DispatchRow
      BY <1>1, <1>2, <2>1, <2>4
    <3>2. WritesAttempt(o, n, att)
      BY <2>2 DEF WritesAttempt
    <3> QED BY <3>1, <3>2, DispatchUpdate
  <2>8. work'[p] = w /\ \A q \in Workers : q # p => work'[q] = Idle
    BY <1>1, <2>2 DEF TypeOK
  <2>9. FenceHeld'
    BY <1>1, <2>2, <2>8 DEF FenceHeld
  <2>10. \A q \in Workers : work'[q].pc \in Submitting => q = p
    BY <2>8, WorkType
  <2>11. OnLatest'
    BY <1>1, <2>2, <2>3, <2>6, <2>8, <2>10, <1>2 DEF DispatchInv, OnLatest, o
  <2>12. SentTracked'
    <3> SUFFICES ASSUME NEW x \in Orders, NEW m \in Attempts
                 PROVE  /\ m > order'[x].latest => exch'[x][m] = "none"
                        /\ dispatch'[x][m].count = 0 => exch'[x][m] = "none"
                        /\ sent'[x][m] = IF exch'[x][m] = "none" THEN 0 ELSE 1
      BY DEF SentTracked
    <3>1. /\ m > order[x].latest => exch[x][m] = "none"
          /\ dispatch[x][m].count = 0 => exch[x][m] = "none"
          /\ sent[x][m] = IF exch[x][m] = "none" THEN 0 ELSE 1
      BY DEF DispatchInv, SentTracked
    <3>2. m > order'[x].latest => m > order[x].latest
      <4>1. x # o => order'[x].latest = order[x].latest
        BY <2>6
      <4>2. n > order[o].latest /\ n \in Nat /\ m \in Nat /\ order[o].latest \in Nat
        BY <1>2, <2>1 DEF Attempts
      <4> QED BY <4>1, <4>2, <2>3, <2>6
    <3> QED BY <3>1, <3>2, <2>2, <2>5, <2>7
  <2>13. StepOutcome'
    BY <2>2, <2>3, <2>5, <2>8, <2>10 DEF StepOutcome
  <2>14. StatusOutcome'
    BY <2>2, <2>3, <2>5, <2>6, <1>2, <2>1 DEF DispatchInv, StatusOutcome, Attempts, Refused
  <2>15. SupersededRefused'
    <3> SUFFICES ASSUME NEW x \in Orders, NEW m \in Attempts, m < order'[x].latest
                 PROVE  exch'[x][m] \in Refused
      BY DEF SupersededRefused
    <3>1. m < order[x].latest => exch[x][m] \in Refused
      BY DEF DispatchInv, SupersededRefused
    <3>2. x = o => m <= order[o].latest
      <4>1. n = order[o].latest + 1 /\ order[o].latest \in Nat /\ m \in Nat
        BY <1>2 DEF n, o, Attempts
      <4> QED BY <4>1, <2>3, <2>6
    <3> QED BY <3>1, <3>2, <1>2, <2>2, <2>6 DEF Attempts
  <2> QED BY <2>9, <2>11, <2>12, <2>13, <2>14, <2>15 DEF DispatchInv
<1> QED BY <1>3, <1>4

LEMMA ResetStep ==
    ASSUME DispatchInv, TypeOK', NEW p \in Workers, Reset(p)
    PROVE  DispatchInv'
<1> DEFINE o == work[p].o
<1>1. /\ work[p].pc \in Submitting /\ work[p].pc # "idle" /\ work[p].pc = "reset" /\ TypeOK
      /\ lock = p /\ \A q \in Workers : q # p => work[q] = Idle
  BY Alone DEF Reset, Submitting, DispatchInv
<1>2. /\ o \in Orders /\ order[o].latest \in Attempts /\ work[p].n = order[o].latest
      /\ exch[o][order[o].latest] = "none"
  BY <1>1, LatestRow DEF DispatchInv, StepOutcome
<1>3. /\ work'[p].pc = "mark" /\ work'[p].o = o /\ work'[p].n = work[p].n
      /\ \A q \in Workers : q # p => work'[q] = Idle
  BY <1>1, GotoUpdate DEF Reset, Submitting
<1>4. order'[o] = WithStatus(order[o], "ready") /\ \A x \in Orders : x # o => order'[x] = order[x]
  BY <1>1, <1>2, OneRow DEF Reset, SetStatus
<1>5. order'[o].status = "ready" /\ order'[o].latest = order[o].latest
  BY <1>4 DEF WithStatus, Row
<1>6. UNCHANGED <<account, live, lock, dispatch, exch, sent>>
  BY DEF Reset
<1> HIDE DEF o
<1>7. FenceHeld'
  BY <1>1, <1>3, <1>6 DEF FenceHeld
<1>8. \A q \in Workers : work'[q].pc \in Submitting => q = p
  BY <1>3, WorkType
<1>9. OnLatest'
  BY <1>1, <1>2, <1>3, <1>5, <1>6, <1>8 DEF DispatchInv, OnLatest, o
<1>10. \A x \in Orders : order'[x].latest = order[x].latest
  BY <1>4, <1>5
<1>11. SentTracked' /\ SupersededRefused'
  BY <1>6, <1>10 DEF DispatchInv, SentTracked, SupersededRefused
<1>12. StepOutcome'
  BY <1>2, <1>3, <1>6, <1>8 DEF StepOutcome
<1>13. StatusOutcome'
  <2>1. ~Retriable(order'[o])
    BY <1>5 DEF Retriable
  <2> QED BY <2>1, <1>2, <1>4, <1>5, <1>6 DEF DispatchInv, StatusOutcome, Attempts
<1> QED BY <1>7, <1>9, <1>11, <1>12, <1>13 DEF DispatchInv

LEMMA MarkStep ==
    ASSUME DispatchInv, TypeOK', NEW p \in Workers, Mark(p)
    PROVE  DispatchInv'
<1> DEFINE o == work[p].o
           n == work[p].n
           att == Attempt("dispatching", dispatch[o][n].count + 1)
<1>1. /\ work[p].pc \in Submitting /\ work[p].pc # "idle" /\ work[p].pc = "mark" /\ TypeOK
      /\ lock = p /\ \A q \in Workers : q # p => work[q] = Idle
  BY Alone DEF Mark, Submitting, DispatchInv
<1>2. /\ o \in Orders /\ n \in Attempts /\ n = order[o].latest /\ exch[o][n] = "none"
  BY <1>1, LatestRow DEF DispatchInv, StepOutcome
<1>3. /\ work'[p].pc = "send" /\ work'[p].o = o /\ work'[p].n = n
      /\ \A q \in Workers : q # p => work'[q] = Idle
  BY <1>1, GotoUpdate DEF Mark, Submitting
<1>4. order'[o] = WithStatus(order[o], "submitting")
      /\ \A x \in Orders : x # o => order'[x] = order[x]
  <2>1. order' = [order EXCEPT ![o] = WithStatus(@, "submitting")]
    BY DEF Mark, SetStatus
  <2> HIDE DEF o
  <2> QED BY <1>1, <1>2, <2>1, OneRow
<1>5. order'[o].status = "submitting" /\ order'[o].latest = order[o].latest
  BY <1>4 DEF WithStatus, Row
<1>6. UNCHANGED <<account, live, lock, exch, sent>>
  BY DEF Mark
<1>7. dispatch[o][n].count \in Nat /\ att \in DispatchRow /\ att.count > 0
  <2>1. dispatch[o][n] \in DispatchRow
    BY <1>1, <1>2 DEF TypeOK
  <2>2. "dispatching" \in DispatchStatus
    BY DEF DispatchStatus
  <2>3. dispatch[o][n].count \in Nat
    BY <2>1, AttemptType
  <2> HIDE DEF o, n
  <2> QED BY <2>2, <2>3, AttemptType
<1>8. dispatch' = [dispatch EXCEPT ![o][n] = att]
  BY DEF Mark
<1> HIDE DEF o, n, att
<1>9. \A x \in Orders, m \in Attempts :
        /\ x = o /\ m = n => dispatch'[x][m] = att
        /\ ~(x = o /\ m = n) => dispatch'[x][m] = dispatch[x][m]
  <2>1. /\ dispatch'[o][n] = att
        /\ \A x \in Orders, m \in Attempts :
              ~(x = o /\ m = n) => dispatch'[x][m] = dispatch[x][m]
    <3>1. TypeOK /\ o \in Orders /\ n \in Attempts /\ att \in DispatchRow
      BY <1>1, <1>2, <1>7
    <3>2. WritesAttempt(o, n, att)
      BY <1>8 DEF WritesAttempt
    <3> QED BY <3>1, <3>2, DispatchUpdate
  <2> QED BY <2>1
<1>10. FenceHeld'
  BY <1>1, <1>3, <1>6 DEF FenceHeld
<1>11. \A q \in Workers : work'[q].pc \in Submitting => q = p
  BY <1>3, WorkType
<1>12. OnLatest'
  BY <1>1, <1>2, <1>3, <1>5, <1>6, <1>11 DEF DispatchInv, OnLatest, o
<1>13. \A x \in Orders : order'[x].latest = order[x].latest
  BY <1>4, <1>5
<1>14. SentTracked' /\ SupersededRefused'
  BY <1>2, <1>6, <1>9, <1>13 DEF DispatchInv, SentTracked, SupersededRefused
<1>15. StepOutcome'
  BY <1>2, <1>3, <1>5, <1>6, <1>7, <1>9, <1>11 DEF StepOutcome
<1>16. StatusOutcome'
  <2>1. ~Retriable(order'[o])
    BY <1>5 DEF Retriable
  <2> QED BY <2>1, <1>4, <1>5, <1>6 DEF DispatchInv, StatusOutcome
<1> QED BY <1>10, <1>12, <1>14, <1>15, <1>16 DEF DispatchInv

LEMMA SendStep ==
    ASSUME DispatchInv, TypeOK', NEW p \in Workers, Send(p)
    PROVE  DispatchInv'
<1> DEFINE o == work[p].o
           n == work[p].n
<1>1. /\ work[p].pc \in Submitting /\ work[p].pc # "idle" /\ work[p].pc = "send" /\ TypeOK
      /\ lock = p /\ \A q \in Workers : q # p => work[q] = Idle
  BY Alone DEF Send, Submitting, DispatchInv
<1>2. /\ o \in Orders /\ n \in Attempts /\ n = order[o].latest /\ exch[o][n] = "none"
      /\ dispatch[o][n].count > 0 /\ sent[o][n] = 0
      /\ order[o].status \notin {"absent", "ready"}
      /\ order[o].status \in {"rejected", "failed"} => order[o].oid
  <2>1. o \in Orders /\ n \in Attempts /\ n = order[o].latest
    BY <1>1, LatestRow
  <2>2. /\ exch[o][n] = "none" /\ dispatch[o][n].count > 0
        /\ order[o].status \notin {"absent", "ready"}
        /\ order[o].status \in {"rejected", "failed"} => order[o].oid
    BY <1>1 DEF DispatchInv, StepOutcome
  <2>3. sent[o][n] = 0
    BY <2>1, <2>2 DEF DispatchInv, SentTracked
  <2> QED BY <2>1, <2>2, <2>3
<1>3. /\ work'[p].pc = "wait" /\ work'[p].o = o /\ work'[p].n = n
      /\ \A q \in Workers : q # p => work'[q] = Idle
  BY <1>1, GotoUpdate DEF Send, Submitting
<1>4. UNCHANGED <<account, live, lock, order, dispatch>>
  BY DEF Send
<1>5. /\ exch' = [exch EXCEPT ![o][n] = "wire"]
      /\ sent' = [sent EXCEPT ![o][n] = 1]
  BY <1>2 DEF Send
<1> HIDE DEF o, n
<1>6. \A x \in Orders, m \in Attempts :
        /\ x = o /\ m = n => exch'[x][m] = "wire" /\ sent'[x][m] = 1
        /\ ~(x = o /\ m = n) => exch'[x][m] = exch[x][m] /\ sent'[x][m] = sent[x][m]
  BY <1>1, <1>5 DEF TypeOK
<1>7. FenceHeld'
  BY <1>1, <1>3, <1>4 DEF FenceHeld
<1>8. \A q \in Workers : work'[q].pc \in Submitting => q = p
  BY <1>3, WorkType
<1>9. OnLatest'
  BY <1>1, <1>2, <1>3, <1>4, <1>8 DEF DispatchInv, OnLatest, o
<1>10. SentTracked'
  BY <1>2, <1>4, <1>6 DEF DispatchInv, SentTracked, Attempts
<1>11. StepOutcome'
  BY <1>2, <1>3, <1>4, <1>8 DEF StepOutcome
<1>12. StatusOutcome'
  <2> SUFFICES ASSUME NEW x \in Orders
               PROVE  /\ order[x].status = "absent" => order[x].latest = 0
                      /\ order[x].status = "ready" =>
                            order[x].latest > 0 /\ exch'[x][order[x].latest] = "none"
                      /\ Retriable(order[x]) /\ order[x].latest > 0 =>
                            exch'[x][order[x].latest] \in Refused
    BY <1>4 DEF StatusOutcome
  <2>1. order[x].latest > 0 => order[x].latest \in Attempts
    BY <1>1, RowType, DispatchAssumption DEF TypeOK, Attempts
  <2>2. order[o].status \notin {"absent", "ready"} /\ ~Retriable(order[o])
    BY <1>2 DEF Retriable
  <2>3. order[x].latest \in Nat
    BY <1>1, RowType DEF TypeOK
  <2> QED BY <2>1, <2>2, <2>3, <1>2, <1>6 DEF DispatchInv, StatusOutcome
<1>13. SupersededRefused'
  BY <1>2, <1>4, <1>6 DEF DispatchInv, SupersededRefused, Attempts
<1> QED BY <1>7, <1>9, <1>10, <1>11, <1>12, <1>13 DEF DispatchInv

LEMMA ExchangeStep ==
    ASSUME DispatchInv, TypeOK', Exchange
    PROVE  DispatchInv'
<1>1. PICK o \in Orders, n \in Attempts, e \in Outcome \ {"none"} :
        Deliver(o, n, e) \/ Settle(o, n, e)
  BY DEF Exchange, Outcome
<1>2. /\ exch' = [exch EXCEPT ![o][n] = e]
      /\ exch[o][n] \in {"wire", "open"}
      /\ UNCHANGED <<account, live, lock, order, dispatch, sent, work>>
  BY <1>1 DEF Deliver, Settle
<1>3. \A x \in Orders, m \in Attempts :
        \/ exch'[x][m] = exch[x][m]
        \/ exch[x][m] \notin Refused /\ exch[x][m] # "none" /\ exch'[x][m] # "none"
  BY <1>2 DEF DispatchInv, TypeOK, Refused
<1>4. FenceHeld' /\ OnLatest'
  BY <1>2 DEF DispatchInv, FenceHeld, OnLatest
<1>5. SentTracked' /\ SupersededRefused'
  BY <1>2, <1>3 DEF DispatchInv, SentTracked, SupersededRefused
<1>6. StepOutcome'
  <2>1. \A q \in Workers : work[q].pc \in Submitting =>
          work[q].o \in Orders /\ work[q].n \in Attempts
    BY LatestRow
  <2> QED BY <1>2, <1>3, <2>1 DEF DispatchInv, StepOutcome
<1>7. StatusOutcome'
  <2>1. \A x \in Orders : order[x].latest > 0 => order[x].latest \in Attempts
    BY RowType, DispatchAssumption DEF DispatchInv, TypeOK, Attempts
  <2> QED BY <1>2, <1>3, <2>1 DEF DispatchInv, StatusOutcome
<1> QED BY <1>4, <1>5, <1>6, <1>7 DEF DispatchInv

LEMMA PrepareStep ==
    ASSUME DispatchInv, TypeOK', NEW p \in Workers, NEW o \in Orders, Prepare(p, o)
    PROVE  DispatchInv'
<1> DEFINE n == IF order[o].latest = 0 THEN 1 ELSE order[o].latest
           row == Row(IF order[o].status = "absent" THEN "ready" ELSE order[o].status,
                      order[o].transient, order[o].soft, order[o].oid, n)
           att == IF order[o].latest = 0 THEN Attempt("pending", 0) ELSE dispatch[o][n]
           next == NextCommit(row, att)
           w == [pc |-> next, o |-> o, n |-> n]
<1>1. TypeOK /\ lock = NoWorker /\ \A q \in Workers : work[q] = Idle
  BY AllIdle DEF DispatchInv, Prepare, CanEnter
<1>2. /\ n \in Attempts /\ order[o].latest \in 0..MaxAttempts
      /\ order[o].latest > 0 => n = order[o].latest
      /\ order[o].latest = 0 => n = 1
  BY <1>1, RowType, DispatchAssumption DEF TypeOK, Attempts
<1>3. att \in DispatchRow
  BY <1>1, <1>2, AttemptType DEF TypeOK, DispatchStatus
<1>4. /\ order' = [order EXCEPT ![o] = row] /\ dispatch' = [dispatch EXCEPT ![o][n] = att]
      /\ UNCHANGED <<account, live, exch, sent>>
      /\ \/ work' = work /\ lock' = lock
         \/ next # "idle" /\ work' = [work EXCEPT ![p] = w] /\ lock' = p
      /\ o \in Entries => account = "enabled" /\ live
  BY DEF Prepare
<1>5. /\ row.status = IF order[o].status = "absent" THEN "ready" ELSE order[o].status
      /\ row.oid = order[o].oid /\ row.latest = n /\ row.soft = order[o].soft
      /\ w.pc = next /\ w.o = o /\ w.n = n
  BY DEF Row
<1>6. /\ order[o].latest = 0 => exch[o][n] = "none"
      /\ att.count = 0 => exch[o][n] = "none"
      /\ row.status = "ready" => exch[o][n] = "none"
      /\ Retriable(row) => exch[o][n] \in Refused
  <2>1. order[o].latest = 0 => exch[o][n] = "none"
    BY <1>2 DEF DispatchInv, SentTracked
  <2>2. att.count = 0 => exch[o][n] = "none"
    BY <1>2, <2>1 DEF DispatchInv, SentTracked
  <2>3. row.status = "ready" => exch[o][n] = "none"
    BY <1>2, <1>5, <2>1 DEF DispatchInv, StatusOutcome
  <2>4. Retriable(row) => exch[o][n] \in Refused
    <3>1. Retriable(row) => Retriable(order[o])
      BY <1>5 DEF Retriable
    <3>2. order[o].latest \in Nat
      BY <1>2
    <3> QED BY <1>2, <2>1, <3>1, <3>2 DEF DispatchInv, StatusOutcome, Refused
  <2> QED BY <2>1, <2>2, <2>3, <2>4
<1>7. /\ next \in {"append", "reset", "mark", "close", "idle"}
      /\ next = "append" => exch[o][n] \in Refused
      /\ next \in {"reset", "mark"} => exch[o][n] = "none"
  <2>1. next = NextCommit(row, att)
    OBVIOUS
  <2> HIDE DEF row, att, w, next, n
  <2>2. next \in {"append", "reset", "mark", "close", "idle"}
    BY <2>1 DEF NextCommit
  <2>3. /\ next = "append" => RetryableFailure(row)
        /\ next = "reset" => att.count = 0 \/ ~(att.count > 0)
        /\ next = "mark" => row.status = "ready"
    BY <2>1 DEF NextCommit
  <2>4. RetryableFailure(row) => Retriable(row)
    BY DEF RetryableFailure, Retriable
  <2>5. att.count \in Nat
    BY <1>3, AttemptType
  <2> QED BY <2>2, <2>3, <2>4, <2>5, <1>6
<1> HIDE DEF row, att, w, next, n
<1>8. order'[o] = row /\ \A x \in Orders : x # o => order'[x] = order[x]
  BY <1>1, <1>4, OneRow
<1>9. \A x \in Orders, m \in Attempts :
        /\ x = o /\ m = n => dispatch'[x][m] = att
        /\ ~(x = o /\ m = n) => dispatch'[x][m] = dispatch[x][m]
  <2>1. /\ dispatch'[o][n] = att
        /\ \A x \in Orders, m \in Attempts :
              ~(x = o /\ m = n) => dispatch'[x][m] = dispatch[x][m]
    <3>1. TypeOK /\ o \in Orders /\ n \in Attempts /\ att \in DispatchRow
      BY <1>1, <1>2, <1>3
    <3>2. WritesAttempt(o, n, att)
      BY <1>4 DEF WritesAttempt
    <3> QED BY <3>1, <3>2, DispatchUpdate
  <2> QED BY <2>1
<1>10. \A q \in Workers : work'[q] = Idle \/ (q = p /\ work'[q] = w /\ lock' = p)
  BY <1>1, <1>4 DEF TypeOK
<1>11. FenceHeld'
  BY <1>10 DEF FenceHeld
<1>12. \A q \in Workers : work'[q].pc \in Submitting => work'[q] = w
  BY <1>10, WorkType
<1>13. OnLatest'
  BY <1>4, <1>5, <1>8, <1>12 DEF OnLatest
<1>14. StepOutcome'
  BY <1>4, <1>5, <1>7, <1>12 DEF StepOutcome
<1>15. \A x \in Orders : x # o => order'[x].latest = order[x].latest
  BY <1>8
<1>16. order'[o].latest = n /\ order[o].latest <= n
  BY <1>2, <1>5, <1>8 DEF Attempts
<1>17. SentTracked'
  <2> SUFFICES ASSUME NEW x \in Orders, NEW m \in Attempts
               PROVE  /\ m > order'[x].latest => exch[x][m] = "none"
                      /\ dispatch'[x][m].count = 0 => exch[x][m] = "none"
                      /\ sent[x][m] = IF exch[x][m] = "none" THEN 0 ELSE 1
    BY <1>4 DEF SentTracked
  <2>1. /\ m > order[x].latest => exch[x][m] = "none"
        /\ dispatch[x][m].count = 0 => exch[x][m] = "none"
        /\ sent[x][m] = IF exch[x][m] = "none" THEN 0 ELSE 1
    BY DEF DispatchInv, SentTracked
  <2>2. m > order'[x].latest => m > order[x].latest
    BY <1>2, <1>15, <1>16 DEF Attempts
  <2> QED BY <2>1, <2>2, <1>6, <1>9
<1>18. StatusOutcome'
  <2> SUFFICES ASSUME NEW x \in Orders
               PROVE  /\ order'[x].status = "absent" => order'[x].latest = 0
                      /\ order'[x].status = "ready" =>
                            order'[x].latest > 0 /\ exch[x][order'[x].latest] = "none"
                      /\ Retriable(order'[x]) /\ order'[x].latest > 0 =>
                            exch[x][order'[x].latest] \in Refused
    BY <1>4 DEF StatusOutcome
  <2>1. CASE x = o
    BY <2>1, <1>2, <1>5, <1>6, <1>8 DEF Attempts
  <2>2. CASE x # o
    BY <2>2, <1>8 DEF DispatchInv, StatusOutcome
  <2> QED BY <2>1, <2>2
<1>19. SupersededRefused'
  <2> SUFFICES ASSUME NEW x \in Orders, NEW m \in Attempts, m < order'[x].latest
               PROVE  exch[x][m] \in Refused
    BY <1>4 DEF SupersededRefused
  <2>1. m < order[x].latest
    BY <1>2, <1>15, <1>16 DEF Attempts
  <2> QED BY <2>1 DEF DispatchInv, SupersededRefused
<1> QED BY <1>11, <1>13, <1>14, <1>17, <1>18, <1>19 DEF DispatchInv

-----------------------------------------------------------------------------
LEMMA InvStep ==
    ASSUME DispatchInv, [Next]_vars
    PROVE  DispatchInv'
<1>1. TypeOK'
  BY TypeStep DEF DispatchInv
<1>2. ASSUME NEW p \in Workers, Submit(p) PROVE DispatchInv'
  <2>1. ASSUME NEW o \in Orders, RiskTrip(p, o) PROVE DispatchInv'
    BY <1>1, <2>1, CancelStep DEF RiskTrip, CanEnter
  <2> QED
    BY <1>1, <1>2, <2>1, PrepareStep, ExpireStep, AppendStep, ResetStep, CloseStep, MarkStep,
       SendStep, PreSubmitFailureStep, ReplyStep, UnreadableReplyStep, LoseReplyStep
    DEF Submit
<1>3. ASSUME NEW p \in Workers, Reconcile(p) PROVE DispatchInv'
  BY <1>1, <1>3, ReconcileLookupStep, ReconcileWriteStep DEF Reconcile
<1>4. ASSUME Stop PROVE DispatchInv'
  BY <1>1, <1>4, CancelStep DEF Stop
<1>5. CASE UNCHANGED vars
  BY <1>5 DEF vars, DispatchInv, TypeOK, FenceHeld, OnLatest, SentTracked, StepOutcome,
     StatusOutcome, SupersededRefused
<1> QED
  BY <1>1, <1>2, <1>3, <1>4, <1>5, CrashStep, RecordSkipStep, RecoverStep, ExchangeStep,
     StartStep, RestartStep
  DEF Next

\* For any number of orders, workers and attempts, the fence, the attempt numbers
\* and the exchange agree after every commit, crash and restart.
THEOREM Inductive == Spec => []DispatchInv
<1>1. Init => DispatchInv
  BY InitInv
<1>2. DispatchInv /\ [Next]_vars => DispatchInv'
  BY InvStep
<1> QED BY <1>1, <1>2, PTL DEF Spec

\* Type correctness of the outbox.
THEOREM TypeCorrect == Spec => []TypeOK
<1>1. DispatchInv => TypeOK
  BY DEF DispatchInv
<1> QED BY <1>1, Inductive, PTL

\* A CLOID is submitted at most once, whatever crashes, replies and lookups do.
THEOREM SubmittedOnce == Spec => []SentOnce
<1>1. DispatchInv => SentOnce
  <2> SUFFICES ASSUME DispatchInv, NEW o \in Orders, NEW n \in Attempts
               PROVE  sent[o][n] <= 1
    BY DEF SentOnce
  <2>1. sent[o][n] = IF exch[o][n] = "none" THEN 0 ELSE 1
    BY DEF DispatchInv, SentTracked
  <2> QED BY <2>1
<1> QED BY <1>1, Inductive, PTL

\* A retry never duplicates an execution: a superseded attempt neither executed nor can.
THEOREM NoDuplicate == Spec => []AtMostOneExecution
<1>1. DispatchInv => AtMostOneExecution
  BY DEF DispatchInv, SupersededRefused, AtMostOneExecution
<1> QED BY <1>1, Inductive, PTL

\* Only Send adds to what was sent.
LEMMA OnlySend ==
    ASSUME DispatchInv, [Next]_vars, NEW o \in Orders, NEW n \in Attempts,
           sent'[o][n] # sent[o][n]
    PROVE  \E p \in Workers : Send(p) /\ work[p].o = o
<1>1. PICK p \in Workers : Send(p)
  <2>1. ASSUME NEW p \in Workers, Submit(p) PROVE Send(p)
    BY <2>1 DEF Submit, Prepare, Expire, RiskTrip, Append, Reset, Close, Mark, PreSubmitFailure,
       Reply, UnreadableReply, LoseReply
  <2>2. ASSUME NEW p \in Workers PROVE ~Reconcile(p) /\ ~Crash(p)
    BY DEF Reconcile, ReconcileLookup, ReconcileWrite, Crash
  <2>3. ~Recover /\ ~Exchange /\ ~Stop /\ ~Start /\ ~UNCHANGED vars
    BY DEF Recover, RecoverPick, RecoverCancel, RecoverAsk, RecoverWrite, Exchange, Deliver,
       Settle, Stop, Start, vars
  <2>4. \A x \in Orders, soft \in BOOLEAN : ~RecordSkip(x, soft)
    BY DEF RecordSkip
  <2>5. \A enabled \in BOOLEAN : ~Restart(enabled)
    BY DEF Restart
  <2> QED BY <2>1, <2>2, <2>3, <2>4, <2>5 DEF Next
<1>2. work[p].o = o
  BY <1>1 DEF Send, DispatchInv, TypeOK
<1> QED BY <1>1, <1>2

\* No entry leaves for the exchange once the account or the deployment may not enter.
THEOREM Fenced == Spec => EntryFence
<1>1. DispatchInv /\ [Next]_vars =>
        [\A o \in Entries, n \in Attempts :
           sent'[o][n] # sent[o][n] => account = "enabled" /\ live]_vars
  <2> SUFFICES ASSUME DispatchInv, [Next]_vars, NEW o \in Entries, NEW n \in Attempts,
                      sent'[o][n] # sent[o][n]
               PROVE  account = "enabled" /\ live
    OBVIOUS
  <2>1. PICK p \in Workers : Send(p) /\ work[p].o = o
    BY OnlySend, DispatchAssumption
  <2> QED BY <2>1 DEF Send, DispatchInv, OnLatest, Submitting
<1> QED BY <1>1, Inductive, PTL DEF Spec, EntryFence

-----------------------------------------------------------------------------
(* The outbox implements SingleExecution.  Only three kinds of step change  *)
(* what the exchange knows: a first send, a delivery, a settlement.         *)

ExchStep ==
    \/ \E p \in Workers : Send(p)
    \/ \E o \in Orders, n \in Attempts :
          \/ \E e \in {"open", "filled", "partial", "transient", "final"} : Deliver(o, n, e)
          \/ \E e \in {"filled", "canceled"} : Settle(o, n, e)

\* Every other step leaves the exchange's knowledge of every attempt alone.
LEMMA OnlyExchStep == ASSUME [Next]_vars, exch' # exch PROVE ExchStep
<1>1. ASSUME NEW p \in Workers, Submit(p) PROVE Send(p)
  BY <1>1 DEF Submit, Prepare, Expire, RiskTrip, Append, Reset, Close, Mark, PreSubmitFailure,
     Reply, UnreadableReply, LoseReply
<1>2. ASSUME NEW p \in Workers PROVE ~Reconcile(p) /\ ~Crash(p)
  BY DEF Reconcile, ReconcileLookup, ReconcileWrite, Crash
<1>3. ~Recover /\ ~Stop /\ ~Start /\ ~UNCHANGED vars
  BY DEF Recover, RecoverPick, RecoverCancel, RecoverAsk, RecoverWrite, Stop, Start, vars
<1>4. \A x \in Orders, soft \in BOOLEAN : ~RecordSkip(x, soft)
  BY DEF RecordSkip
<1>5. \A enabled \in BOOLEAN : ~Restart(enabled)
  BY DEF Restart
<1> QED BY <1>1, <1>2, <1>3, <1>4, <1>5 DEF Next, Exchange, ExchStep

\* At most the latest attempt of an order is not (or no longer) refused.
LEMMA OnlyLatestOpen ==
    ASSUME DispatchInv, NEW o \in Orders, NEW n \in Attempts, exch[o][n] \notin Refused
    PROVE  n = order[o].latest
<1>1. order[o].latest \in 0..MaxAttempts
  BY DEF DispatchInv, TypeOK, OrderRow
<1>2. ~(n < order[o].latest)
  BY DEF DispatchInv, SupersededRefused
<1>3. ~(n > order[o].latest)
  BY DEF DispatchInv, SentTracked, Refused
<1> QED BY <1>1, <1>2, <1>3, DispatchAssumption DEF Attempts

\* The phase of an order follows from the one attempt that is not refused.
LEMMA PhaseOf ==
    ASSUME NEW o \in Orders, NEW n \in Attempts, \A m \in Attempts \ {n} : exch[o][m] \in Refused
    PROVE  Phase(o) = IF exch[o][n] \in Refused THEN "free"
                      ELSE IF exch[o][n] = "wire" THEN "asked" ELSE "taken"
BY DEF Phase, Refused

LEMMA PhaseOfNext ==
    ASSUME NEW o \in Orders, NEW n \in Attempts, \A m \in Attempts \ {n} : exch'[o][m] \in Refused
    PROVE  Phase(o)' = IF exch'[o][n] \in Refused THEN "free"
                       ELSE IF exch'[o][n] = "wire" THEN "asked" ELSE "taken"
BY DEF Phase, Refused

\* What a change of one attempt's outcome leaves of the mapped state.
OnlyChanged(o, n, e) ==
    /\ exch'[o][n] = e
    /\ \A m \in Attempts \ {n} : exch'[o][m] = exch[o][m]
    /\ [x \in Orders |-> Phase(x)]' = [[x \in Orders |-> Phase(x)] EXCEPT ![o] = Phase(o)']
    /\ [x \in Orders |-> Attempted(x)]' =
         [[x \in Orders |-> Attempted(x)] EXCEPT ![o] = Attempted(o)']

LEMMA OneOutcome ==
    ASSUME DispatchInv, NEW o \in Orders, NEW n \in Attempts, NEW e \in Outcome,
           exch' = [exch EXCEPT ![o][n] = e]
    PROVE  OnlyChanged(o, n, e)
<1>1. exch \in [Orders -> [Attempts -> Outcome]]
  BY DEF DispatchInv, TypeOK
<1>2. exch'[o][n] = e /\ \A m \in Attempts \ {n} : exch'[o][m] = exch[o][m]
  BY <1>1
<1>3. \A x \in Orders \ {o} : exch'[x] = exch[x]
  BY <1>1
<1>4. \A x \in Orders \ {o} : Phase(x)' = Phase(x) /\ Attempted(x)' = Attempted(x)
  BY <1>3 DEF Phase, Attempted
<1> QED BY <1>2, <1>4 DEF OnlyChanged

\* The first request of the latest attempt maps to the next attempt of an order
\* that has none undecided or taken.
LEMMA FirstRequest ==
    ASSUME DispatchInv, NEW o \in Orders, NEW n \in Attempts, NEW e \in Outcome,
           e = "wire", n = order[o].latest, exch[o][n] = "none",
           exch' = [exch EXCEPT ![o][n] = e]
    PROVE  Promise!Try(o, n)
<1>1. OnlyChanged(o, n, e)
  BY OneOutcome
<1>2. \A m \in Attempts \ {n} : exch[o][m] \in Refused
  BY OnlyLatestOpen
<1>3. Phase(o) = "free"
  BY <1>2, PhaseOf DEF Refused
<1>4. Phase(o)' = "asked"
  BY <1>1, <1>2, PhaseOfNext DEF OnlyChanged, Refused
<1>5. \A m \in Attempted(o) : m < n
  <2> SUFFICES ASSUME NEW m \in Attempted(o) PROVE m < n OBVIOUS
  <2>1. m \in Attempts /\ exch[o][m] # "none" /\ m # n
    BY DEF Attempted
  <2>2. ~(m > order[o].latest)
    BY <2>1 DEF DispatchInv, SentTracked
  <2> QED BY <2>1, <2>2, DispatchAssumption DEF Attempts
<1>6. Attempted(o)' = Attempted(o) \cup {n}
  BY <1>1 DEF OnlyChanged, Attempted
<1> QED BY <1>1, <1>3, <1>4, <1>5, <1>6 DEF OnlyChanged, Promise!Try

\* A send is such a first request.
LEMMA SendMaps ==
    ASSUME DispatchInv, NEW p \in Workers, Send(p)
    PROVE  \E o \in Orders, n \in Attempts : Promise!Try(o, n)
<1>1. work[p].pc = "send" /\ work[p] \in {Idle} \cup Submission \cup Answered
  BY DEF Send, DispatchInv, TypeOK
<1> PICK o \in Orders, n \in Attempts : o = work[p].o /\ n = work[p].n
  BY <1>1 DEF Idle, Submission, Answered
<1>2. n = order[o].latest /\ exch[o][n] = "none"
  BY <1>1 DEF DispatchInv, OnLatest, StepOutcome, Submitting
<1>3. exch' = [exch EXCEPT ![o][n] = "wire"] /\ "wire" \in Outcome
  <2>1. exch' = [exch EXCEPT ![o][n] = IF @ = "none" THEN "wire" ELSE @]
    BY DEF Send
  <2> QED BY <2>1, <1>2 DEF Outcome
<1>4. Promise!Try(o, n)
  BY <1>2, <1>3, FirstRequest
<1> QED BY <1>4

\* A delivery maps to the exchange's refusal of the undecided attempt, or to its taking it.
LEMMA DeliverMaps ==
    ASSUME DispatchInv, NEW o \in Orders, NEW n \in Attempts,
           NEW e \in {"open", "filled", "partial", "transient", "final"}, Deliver(o, n, e)
    PROVE  Promise!Refuse(o) \/ Promise!Take(o)
<1>1. exch[o][n] = "wire" /\ exch' = [exch EXCEPT ![o][n] = e] /\ e \in Outcome
  BY DEF Deliver, Outcome
<1>2. OnlyChanged(o, n, e)
  BY <1>1, OneOutcome
<1>3. \A m \in Attempts \ {n} : exch[o][m] \in Refused
  <2>1. n = order[o].latest
    BY <1>1, OnlyLatestOpen DEF Refused
  <2> QED BY <2>1, OnlyLatestOpen
<1>4. Phase(o) = "asked"
  BY <1>1, <1>3, PhaseOf DEF Refused
<1>5. Phase(o)' = IF e \in Refused THEN "free" ELSE "taken"
  BY <1>2, <1>3, PhaseOfNext DEF OnlyChanged, Refused
<1>6. [x \in Orders |-> Attempted(x)]' = [x \in Orders |-> Attempted(x)]
  <2>1. Attempted(o)' = Attempted(o)
    BY <1>1, <1>2 DEF OnlyChanged, Attempted
  <2> QED BY <1>2, <2>1 DEF OnlyChanged
<1> QED BY <1>2, <1>4, <1>5, <1>6 DEF OnlyChanged, Promise!Refuse, Promise!Take

\* A resting order that fills or is canceled was taken already.
LEMMA SettleMaps ==
    ASSUME DispatchInv, NEW o \in Orders, NEW n \in Attempts,
           NEW e \in {"filled", "canceled"}, Settle(o, n, e)
    PROVE  UNCHANGED Promise!vars
<1>1. exch[o][n] = "open" /\ exch' = [exch EXCEPT ![o][n] = e]
  BY DEF Settle
<1>2. OnlyChanged(o, n, e)
  BY <1>1, OneOutcome DEF Outcome
<1>3. Phase(o) = "taken" /\ Phase(o)' = "taken"
  BY <1>1, <1>2 DEF OnlyChanged, Phase, Refused
<1>4. Attempted(o)' = Attempted(o)
  BY <1>1, <1>2 DEF OnlyChanged, Attempted
<1> QED BY <1>2, <1>3, <1>4 DEF OnlyChanged, Promise!vars

\* Initially no attempt exists.
LEMMA PromiseInit == Init => Promise!Init
<1> SUFFICES ASSUME Init PROVE Promise!Init OBVIOUS
<1>1. \A o \in Orders, n \in Attempts : exch[o][n] = "none"
  BY DEF Init
<1>2. \A o \in Orders : Attempted(o) = {} /\ Phase(o) = "free"
  BY <1>1 DEF Attempted, Phase, Refused
<1> QED BY <1>2 DEF Promise!Init

\* Every step of the outbox maps to a step of the promise or to none.
LEMMA PromiseStep == DispatchInv /\ [Next]_vars => [Promise!Next]_(Promise!vars)
<1> SUFFICES ASSUME DispatchInv, [Next]_vars PROVE Promise!Next \/ UNCHANGED Promise!vars
  OBVIOUS
<1>1. CASE exch' = exch
  <2>1. \A o \in Orders : Attempted(o)' = Attempted(o) /\ Phase(o)' = Phase(o)
    BY <1>1 DEF Attempted, Phase
  <2> QED BY <2>1 DEF Promise!vars
<1>2. CASE exch' # exch
  <2>1. ExchStep
    BY <1>2, OnlyExchStep
  <2>2. CASE \E p \in Workers : Send(p)
    BY <2>2, SendMaps DEF Promise!Next, Attempts
  <2>3. CASE \E o \in Orders, n \in Attempts :
                \E e \in {"open", "filled", "partial", "transient", "final"} : Deliver(o, n, e)
    BY <2>3, DeliverMaps DEF Promise!Next
  <2>4. CASE \E o \in Orders, n \in Attempts : \E e \in {"filled", "canceled"} : Settle(o, n, e)
    BY <2>4, SettleMaps
  <2> QED BY <2>1, <2>2, <2>3, <2>4 DEF ExchStep
<1> QED BY <1>1, <1>2

\* The outbox implements SingleExecution, at any number of orders, workers and attempts.
THEOREM ImplementsPromise == Spec => KeepsPromise
<1>1. Init => Promise!Init
  BY PromiseInit
<1>2. DispatchInv /\ [Next]_vars => [Promise!Next]_(Promise!vars)
  BY PromiseStep
<1> QED BY <1>1, <1>2, Inductive, PTL DEF Spec, KeepsPromise, Promise!Spec
=============================================================================
