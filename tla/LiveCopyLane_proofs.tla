------------------------ MODULE LiveCopyLane_proofs ------------------------
(***************************************************************************)
(* Proofs about LiveCopyLane, for any set of fills and any plan.           *)
(***************************************************************************)
EXTENDS LiveCopyLane, TLAPS

(***************************************************************************)
(* The conjuncts of TypeOK, by the tuples of variables they constrain.     *)
(***************************************************************************)
Outcomes == Undecided \cup Decided \cup {"absent"}
OrderStates == {"none", "soft", "skip", "live", "settled"}

OperatorType ==
    /\ enabled \in BOOLEAN /\ selected \in BOOLEAN /\ renewed \in BOOLEAN
    /\ lane \in {"eligible", "retained", "inactive"}
    /\ changes \in 0..MaxChanges
IntakeType ==
    /\ stored \subseteq Fills /\ since \subseteq Fills /\ fresh \subseteq Fills
    /\ work \in [Fills -> {"none", "pending", "processing"}]
RowsType ==
    /\ part \in [Parts -> Outcomes]
    /\ linked \subseteq Parts /\ complete \subseteq Fills
MarketType ==
    /\ order \in [Parts -> OrderStates]
    /\ position \in [side : Sides, fill : Fills] \cup {Flat}
JobType ==
    /\ pc \in {"idle", "prepare", "step", "apply", "sent", "finalize", "landed",
               "close", "done", "retry"}
    /\ cur \in Fills \cup {0}
    /\ pc # "idle" => cur \in Fills
    /\ at \in Nat
    /\ pc \in {"prepare", "step", "apply", "sent", "finalize", "landed"} => Here \in Parts
    /\ undo \in Rows \cup {Committed}
    /\ undo # Committed => pc \in {"step", "close"}

LEMMA Groups ==
    /\ TypeOK <=> OperatorType /\ IntakeType /\ RowsType /\ MarketType /\ JobType
    /\ TypeOK' <=> OperatorType' /\ IntakeType' /\ RowsType' /\ MarketType' /\ JobType'
BY DEF TypeOK, OperatorType, IntakeType, RowsType, MarketType, JobType, Outcomes, OrderStates

LEMMA PartMembers ==
    /\ \A p \in Parts : p[1] \in Fills
    /\ \A f \in Fills : \A i \in 1..Len(Plan[f]) : <<f, i>> \in Parts
    /\ \A f, i : <<f, i>> \in Parts => f \in Fills /\ i \in 1..Len(Plan[f])
BY DEF Parts

LEMMA Stutters ==
    /\ OperatorType /\ UNCHANGED operator => OperatorType'
    /\ IntakeType /\ UNCHANGED intake => IntakeType'
    /\ RowsType /\ UNCHANGED rows => RowsType'
    /\ MarketType /\ UNCHANGED market => MarketType'
    /\ JobType /\ UNCHANGED job => JobType'
<1>1. OperatorType /\ UNCHANGED operator => OperatorType'
  BY DEF OperatorType, operator
<1>2. IntakeType /\ UNCHANGED intake => IntakeType'
  BY DEF IntakeType, intake
<1>3. RowsType /\ UNCHANGED rows => RowsType'
  BY DEF RowsType, rows
<1>4. MarketType /\ UNCHANGED market => MarketType'
  BY DEF MarketType, market
<1>5. JobType /\ UNCHANGED job => JobType'
  BY DEF JobType, job, Here
<1> QED
  BY <1>1, <1>2, <1>3, <1>4, <1>5

(***************************************************************************)
(* The pieces that the consumer's actions are made of.                     *)
(***************************************************************************)
LEMMA BeginType ==
    ASSUME RowsType, MarketType, JobType, Begin
    PROVE  undo' \in Rows \cup {Committed}
BY DEF RowsType, MarketType, JobType, Begin, Rows, Outcomes, OrderStates

LEMMA OnwardType ==
    ASSUME Onward, Here \in Parts, cur \in Fills, at \in Nat
    PROVE  /\ cur' = cur /\ at' \in Nat /\ pc' \in {"step", "close"}
           /\ pc' = "step" => Here' \in Parts
<1>1. /\ at \in 1..Len(Plan[cur])
      /\ Len(Plan[cur]) \in Nat
  BY PartMembers, LaneAssumption DEF Here
<1>2. CASE at < Len(Plan[cur])
  <2>1. at + 1 \in 1..Len(Plan[cur])
    BY <1>1, <1>2
  <2> QED
    BY <1>2, <2>1, PartMembers DEF Onward, Here
<1>3. CASE ~(at < Len(Plan[cur]))
  BY <1>3 DEF Onward
<1> QED
  BY <1>2, <1>3

LEMMA AdvanceType ==
    ASSUME RowsType, MarketType, JobType, Advance, pc \in {"step", "apply"}
    PROVE  JobType'
<1>1. /\ Here \in Parts /\ cur \in Fills /\ at \in Nat
      /\ Onward /\ Begin
  BY DEF JobType, Advance
<1>2. /\ cur' = cur /\ at' \in Nat /\ pc' \in {"step", "close"}
      /\ pc' = "step" => Here' \in Parts
  BY <1>1, OnwardType
<1>3. undo' \in Rows \cup {Committed}
  BY <1>1, BeginType
<1> QED
  BY <1>1, <1>2, <1>3 DEF JobType

LEMMA DeferType ==
    ASSUME JobType, Defer, cur \in Fills
    PROVE  JobType'
BY DEF JobType, Defer, Commit

LEMMA DecideType ==
    ASSUME RowsType, NEW p \in Parts, NEW outcome \in Outcomes, NEW withOrder \in BOOLEAN,
           Decide(p, outcome, withOrder)
    PROVE  RowsType'
BY DEF RowsType, Decide

LEMMA PostponedType ==
    ASSUME RowsType, NEW p \in Parts, Postponed(p)
    PROVE  RowsType'
<1>1. CASE Open(p)
  <2>1. Decide(p, "retryable", FALSE)
    BY <1>1 DEF Postponed
  <2> QED
    BY <2>1, DecideType DEF Outcomes, Undecided
<1>2. CASE ~Open(p)
  BY <1>2, Stutters DEF Postponed
<1> QED
  BY <1>1, <1>2

LEMMA RollbackType ==
    ASSUME RowsType, MarketType, JobType, Rollback, UNCHANGED position
    PROVE  RowsType' /\ MarketType'
<1>1. CASE undo = Committed
  BY <1>1, Stutters DEF Rollback, market
<1>2. CASE undo # Committed
  <2>1. undo \in Rows
    BY <1>2 DEF JobType
  <2>2. RowsType'
    BY <1>2, <2>1 DEF Rollback, RowsType, Rows, Outcomes
  <2>3. MarketType'
    BY <1>2, <2>1 DEF Rollback, MarketType, Rows, OrderStates
  <2> QED
    BY <2>2, <2>3
<1> QED
  BY <1>1, <1>2

(***************************************************************************)
(* The pieces that the lifecycle actions are made of.                      *)
(***************************************************************************)
LEMMA ClosingType ==
    ASSUME RowsType, NEW S \in SUBSET Parts, NEW C \in SUBSET Fills, Ignore(S),
           linked' = linked \ S, complete' = complete \cup C
    PROVE  RowsType'
BY DEF RowsType, Ignore, Outcomes, Decided

LEMMA OpenFills ==
    /\ OpenParts \subseteq Parts
    /\ {p[1] : p \in OpenParts} \subseteq Fills
BY PartMembers DEF OpenParts

LEMMA DeactivateType ==
    ASSUME RowsType, Deactivate
    PROVE  RowsType'
BY OpenFills, ClosingType DEF Deactivate

LEMMA ActivateType ==
    ASSUME RowsType, NEW entries \in BOOLEAN, NEW observed, Activate(entries, observed)
    PROVE  RowsType'
<1> DEFINE closed == {p \in OpenParts : IsEntry(p)}
           decided(f) == \A p \in Parts : p[1] = f => part[p] \in Decided \/ p \in closed
           fills == {f \in {p[1] : p \in closed} : decided(f)}
<1>1. closed \subseteq Parts /\ fills \subseteq Fills
  BY PartMembers DEF OpenParts
<1>2. /\ Ignore(closed)
      /\ linked' = linked \ closed
      /\ complete' = complete \cup fills
  BY DEF Activate
<1> HIDE DEF closed, fills
<1> QED
  BY <1>1, <1>2, ClosingType

(***************************************************************************)
(* Type correctness, one lemma per group of actions.                       *)
(***************************************************************************)
LEMMA IntakeSteps ==
    ASSUME TypeOK, NEW f \in Fills, Arrive(f) \/ Recover(f)
    PROVE  TypeOK'
<1>1. /\ UNCHANGED <<operator, rows, market, job>>
      /\ \/ Observe(f) /\ (Enqueue(f) \/ UNCHANGED work)
         \/ Enqueue(f) /\ UNCHANGED <<stored, since, fresh>>
  <2>1. CASE StoreRealtime(f) \/ StoreSnapshot(f)
    BY <2>1 DEF StoreRealtime, StoreSnapshot
  <2>2. CASE Redeliver(f) \/ Recover(f)
    BY <2>2 DEF Redeliver, Recover
  <2> QED
    BY <2>1, <2>2 DEF Arrive
<1>2. IntakeType'
  BY <1>1, Groups DEF IntakeType, Observe, Enqueue
<1> QED
  BY <1>1, <1>2, Groups, Stutters

LEMMA ClaimStep ==
    ASSUME TypeOK, NEW f \in Fills, Claim(f)
    PROVE  TypeOK'
<1>1. UNCHANGED <<operator, rows, market>>
  BY DEF Claim
<1>2. IntakeType'
  BY Groups DEF IntakeType, Claim
<1>3. JobType'
  <2>1. <<f, 1>> \in Parts
    BY PartMembers, LaneAssumption
  <2> QED
    BY <2>1, Groups DEF JobType, Claim, Here
<1> QED
  BY <1>1, <1>2, <1>3, Groups, Stutters

LEMMA MarketSteps ==
    ASSUME TypeOK,
           (\E p \in Parts : Fill(p) \/ Unfilled(p)) \/ Flatten
    PROVE  TypeOK'
<1>1. UNCHANGED <<operator, intake, rows, job>>
  BY DEF Fill, Unfilled, Flatten
<1>2. MarketType'
  <2>1. CASE \E p \in Parts : Fill(p)
    <3>1. PICK p \in Parts : Fill(p)
      BY <2>1
    <3>2. p[1] \in Fills /\ (IsEntry(p) => Side(p) \in Sides)
      BY PartMembers, LaneAssumption DEF Side, Parts
    <3>3. position' \in [side : Sides, fill : Fills] \cup {Flat}
      BY <3>1, <3>2, Groups DEF Fill, Moves, MarketType
    <3>4. order' \in [Parts -> OrderStates]
      BY <3>1, Groups DEF Fill, MarketType, OrderStates
    <3> QED
      BY <3>3, <3>4 DEF MarketType
  <2>2. CASE \E p \in Parts : Unfilled(p)
    BY <2>2, Groups DEF Unfilled, MarketType, OrderStates
  <2>3. CASE Flatten
    BY <2>3, Groups DEF Flatten, MarketType
  <2> QED
    BY <2>1, <2>2, <2>3
<1> QED
  BY <1>1, <1>2, Groups, Stutters

LEMMA LifecycleSteps ==
    ASSUME TypeOK, Synchronize \/ Lifecycle
    PROVE  TypeOK'
<1> USE Groups
<1>1. UNCHANGED <<market, job>>
  BY DEF Synchronize, Lifecycle, Deselect, Select, Stop, Start
<1>2. Change => changes' \in 0..MaxChanges
  BY LaneAssumption DEF Change, OperatorType
<1>3. CASE Synchronize
  <2>1. /\ UNCHANGED <<enabled, selected, changes, stored, since, work>>
        /\ \/ Activate(Chosen, IF Chosen THEN since ELSE {})
           \/ Deactivate
           \/ lane' \in {"eligible", "retained"} /\ UNCHANGED <<fresh, renewed, rows>>
    BY <1>3 DEF Synchronize
  <2>2. Chosen \in BOOLEAN
    BY DEF Chosen
  <2>3. OperatorType'
    BY <2>1, <2>2 DEF OperatorType, Activate, Deactivate
  <2>4. IntakeType'
    BY <2>1 DEF IntakeType, Activate, Deactivate
  <2>5. RowsType'
    BY <2>1, <2>2, ActivateType, DeactivateType, Stutters
  <2> QED
    BY <1>1, <2>3, <2>4, <2>5, Stutters
<1>4. CASE Deselect \/ Select
  <2>1. OperatorType'
    BY <1>2, <1>4 DEF OperatorType, Deselect, Select
  <2>2. IntakeType' /\ UNCHANGED rows
    BY <1>4 DEF IntakeType, Deselect, Select, intake
  <2> QED
    BY <1>1, <2>1, <2>2, Stutters
<1>5. CASE Stop
  <2>1. /\ UNCHANGED <<selected, stored, since, work>> /\ enabled' = FALSE
        /\ \/ lane' \in {"retained", "inactive"} /\ UNCHANGED <<fresh, renewed, rows>>
           \/ Deactivate
    BY <1>5 DEF Stop
  <2>2. OperatorType'
    BY <1>2, <1>5, <2>1 DEF OperatorType, Stop, Deactivate
  <2>3. IntakeType'
    BY <2>1 DEF IntakeType, Deactivate
  <2>4. RowsType'
    BY <2>1, DeactivateType, Stutters
  <2> QED
    BY <1>1, <2>2, <2>3, <2>4, Stutters
<1>6. CASE Start
  <2>1. /\ UNCHANGED <<selected, stored, work>> /\ enabled' = TRUE /\ since' = {}
        /\ \/ /\ Ignore(OpenParts)
              /\ linked' = linked \ OpenParts
              /\ complete' = complete \cup {p[1] : p \in OpenParts}
              /\ lane' \in {"retained", "inactive"}
              /\ fresh' \in {fresh, {}}
              /\ UNCHANGED renewed
           \/ Activate(selected, {})
           \/ UNCHANGED <<lane, fresh, renewed, rows>>
    BY <1>6 DEF Start
  <2>2. OperatorType'
    BY <1>2, <1>6, <2>1 DEF OperatorType, Start, Activate
  <2>3. IntakeType'
    BY <2>1 DEF IntakeType, Activate
  <2>4. RowsType'
    BY <2>1, OpenFills, ClosingType, ActivateType, Stutters DEF OperatorType
  <2> QED
    BY <1>1, <2>2, <2>3, <2>4, Stutters
<1> QED
  BY <1>3, <1>4, <1>5, <1>6 DEF Lifecycle

LEMMA PrepareSteps ==
    ASSUME TypeOK, NoAccount \/ Prepare
    PROVE  TypeOK'
<1> USE Groups
<1>1. UNCHANGED <<operator, intake, market>>
  BY DEF NoAccount, Prepare
<1>2. JobType'
  BY DEF NoAccount, Prepare, JobType, Here
<1>3. RowsType'
  <2>1. CASE NoAccount
    BY <2>1, Stutters DEF NoAccount
  <2>2. CASE Prepare
    <3>1. \A p \in Parts, due \in BOOLEAN : BeforeBarrier(p, due) \in Outcomes
      BY DEF BeforeBarrier, Planned, RowsType, Outcomes, Decided, Undecided
    <3>2. cur \in Fills
      BY <2>2 DEF Prepare, JobType
    <3> QED
      BY <2>2, <3>1, <3>2 DEF Prepare, RowsType
  <2> QED
    BY <2>1, <2>2
<1> QED
  BY <1>1, <1>2, <1>3, Stutters

LEMMA DecisionSteps ==
    ASSUME TypeOK, Decision
    PROVE  TypeOK'
<1> USE Groups
<1>1. UNCHANGED operator
  BY DEF operator, Decision, AlreadyDecided, Conclude, Proceed, Exists, GiveUp, Decline, Reclassified,
         Send, Reply, Finalize, Close, Done
<1>2. pc \in {"step", "apply", "sent", "finalize", "landed"} => Here \in Parts /\ cur \in Fills
  BY DEF JobType
<1>3. CASE AlreadyDecided
  <2>1. JobType' /\ UNCHANGED <<intake, rows, market>>
    BY <1>3, AdvanceType DEF AlreadyDecided, AtPart
  <2> QED
    BY <1>1, <2>1, Stutters
<1>4. CASE Conclude
  <2>1. Verdicts \subseteq {"ignored", "skip"} /\ (Verdicts # {} => pc = "step")
    BY DEF Verdicts, Claimable, AtPart
  <2>2. PICK outcome \in Verdicts : Decide(Here, outcome, FALSE)
    BY <1>4 DEF Conclude
  <2>3. RowsType'
    BY <2>1, <2>2, <1>2, DecideType DEF Outcomes, Decided
  <2>4. JobType' /\ UNCHANGED <<intake, market>>
    BY <1>4, <2>1, <2>2, AdvanceType DEF Conclude
  <2> QED
    BY <1>1, <2>3, <2>4, Stutters
<1>5. CASE Proceed
  <2>1. pc = "step"
    BY <1>5 DEF Proceed, Eligible, Claimable, AtPart
  <2>2. RowsType'
    BY <1>5, <2>1, <1>2 DEF Proceed, RowsType, Outcomes, Undecided
  <2>3. JobType' /\ UNCHANGED <<intake, market>>
    BY <1>5, <2>1 DEF Proceed, JobType, Commit, Here
  <2> QED
    BY <1>1, <2>2, <2>3, Stutters
<1>6. CASE Exists
  <2>1. JobType' /\ UNCHANGED <<intake, rows, market>>
    BY <1>6 DEF Exists, JobType, Here
  <2> QED
    BY <1>1, <2>1, Stutters
<1>7. CASE GiveUp \/ Decline \/ Reclassified
  <2>1. pc = "apply"
    BY <1>7 DEF GiveUp, Decline, Reclassified, Submittable
  <2>2. RowsType'
    <3>1. \/ UNCHANGED rows
          \/ \E outcome \in {"skip", "ignored"}, withOrder \in BOOLEAN : Decide(Here, outcome, withOrder)
      BY <1>7 DEF GiveUp, Decline, Reclassified
    <3> QED
      BY <3>1, <2>1, <1>2, DecideType, Stutters DEF Outcomes, Decided
  <2>3. MarketType'
    BY <1>7 DEF GiveUp, Decline, Reclassified, MarketType, OrderStates, market
  <2>4. JobType' /\ UNCHANGED intake
    BY <1>7, <2>1, AdvanceType DEF GiveUp, Decline, Reclassified
  <2> QED
    BY <1>1, <2>2, <2>3, <2>4, Stutters
<1>8. CASE Send \/ Reply
  <2>1. UNCHANGED <<intake, rows>>
    BY <1>8 DEF Send, Reply
  <2>2. MarketType'
    BY <1>8 DEF Send, Reply, MarketType, OrderStates
  <2>3. JobType'
    BY <1>8 DEF Send, Submittable, Reply, JobType, Here
  <2> QED
    BY <1>1, <2>1, <2>2, <2>3, Stutters
<1>9. CASE Finalize
  <2>1. /\ Here \in Parts /\ cur \in Fills /\ at \in Nat
        /\ UNCHANGED <<intake, market>>
    BY <1>2, <1>9 DEF Finalize, JobType
  <2>2. CASE Open(Here) /\ order[Here] \in {"none", "soft"}
    <3>1. Decide(Here, "retryable", FALSE) /\ Defer
      BY <1>9, <2>2 DEF Finalize
    <3>2. RowsType' /\ JobType'
      BY <3>1, <2>1, DecideType, DeferType DEF Outcomes, Undecided
    <3> QED
      BY <1>1, <2>1, <3>2, Stutters
  <2>3. CASE ~(Open(Here) /\ order[Here] \in {"none", "soft"})
    <3>1. /\ Onward /\ (Commit \/ Begin)
          /\ \/ UNCHANGED rows
             \/ \E outcome \in {"skip", "order"} : Decide(Here, outcome, TRUE)
      BY <1>9, <2>3 DEF Finalize
    <3>2. RowsType'
      BY <3>1, <2>1, DecideType, Stutters DEF Outcomes, Decided
    <3>3. undo' \in Rows \cup {Committed}
      BY <3>1, BeginType DEF Commit
    <3>4. JobType'
      BY <3>1, <3>3, <2>1, OnwardType DEF JobType
    <3> QED
      BY <1>1, <2>1, <3>2, <3>4, Stutters
  <2> QED
    BY <2>2, <2>3
<1>10. CASE Close \/ Done
  <2>1. RowsType' /\ UNCHANGED market
    BY <1>10 DEF Close, Done, RowsType, JobType, rows
  <2>2. IntakeType'
    BY <1>10 DEF Close, Done, IntakeType, intake
  <2>3. JobType'
    BY <1>10, LaneAssumption DEF Close, Done, Leave, Commit, JobType
  <2> QED
    BY <1>1, <2>1, <2>2, <2>3, Stutters
<1> QED
  BY <1>3, <1>4, <1>5, <1>6, <1>7, <1>8, <1>9, <1>10 DEF Decision

LEMMA SetbackSteps ==
    ASSUME TypeOK, Setback
    PROVE  TypeOK'
<1> USE Groups
<1>1. /\ UNCHANGED <<operator, position>>
      /\ pc \in {"step", "apply"} => Here \in Parts
      /\ pc # "idle" => cur \in Fills
  BY DEF Setback, operator, market, LaneGone, Wait, Postpone, PutOff, DeclineForNow, RetryWork, JobType
<1>2. CASE LaneGone \/ Wait
  <2>1. JobType' /\ UNCHANGED <<intake, rows, market>>
    BY <1>1, <1>2, DeferType DEF LaneGone, Wait, AtPart
  <2> QED
    BY <1>1, <2>1, Stutters
<1>3. CASE Postpone
  <2>1. pc = "step" /\ Decide(Here, "retryable", FALSE) /\ Defer /\ UNCHANGED <<intake, market>>
    BY <1>3 DEF Postpone, Eligible, Claimable, AtPart
  <2>2. RowsType' /\ JobType'
    BY <1>1, <2>1, DecideType, DeferType DEF Outcomes, Undecided
  <2> QED
    BY <1>1, <2>1, <2>2, Stutters
<1>4. CASE PutOff \/ DeclineForNow
  <2>1. /\ pc = "apply" /\ Postponed(Here) /\ UNCHANGED intake
        /\ Defer \/ Advance
    BY <1>4 DEF PutOff, DeclineForNow, Submittable
  <2>2. RowsType' /\ JobType'
    BY <1>1, <2>1, PostponedType, DeferType, AdvanceType
  <2>3. MarketType'
    BY <1>4 DEF PutOff, DeclineForNow, MarketType, OrderStates, market
  <2> QED
    BY <1>1, <2>1, <2>2, <2>3, Stutters
<1>5. CASE RetryWork
  <2>1. UNCHANGED <<rows, market>>
    BY <1>5 DEF RetryWork
  <2>2. IntakeType'
    BY <1>5 DEF RetryWork, IntakeType
  <2>3. JobType'
    BY <1>5, LaneAssumption DEF RetryWork, Leave, JobType
  <2> QED
    BY <1>1, <2>1, <2>2, <2>3, Stutters
<1> QED
  BY <1>2, <1>3, <1>4, <1>5 DEF Setback

LEMMA FailureSteps ==
    ASSUME TypeOK, Failure
    PROVE  TypeOK'
<1> USE Groups
<1>1. Rollback /\ UNCHANGED <<position, operator, intake>>
  BY DEF Failure, Interrupt, Crash
<1>2. RowsType' /\ MarketType'
  BY <1>1, RollbackType
<1>3. JobType'
  BY DEF Failure, Interrupt, Crash, Rollback, Commit, Leave, JobType
<1> QED
  BY <1>1, <1>2, <1>3, Stutters

LEMMA InitType == Init => TypeOK
<1> SUFFICES ASSUME Init PROVE OperatorType /\ IntakeType /\ RowsType /\ MarketType /\ JobType
  BY Groups
<1>1. OperatorType /\ IntakeType
  <2>1. 0 \in 0..MaxChanges
    BY LaneAssumption
  <2> QED
    BY <2>1 DEF Init, OperatorType, IntakeType
<1>2. RowsType /\ MarketType
  BY DEF Init, RowsType, MarketType, Outcomes, OrderStates
<1>3. JobType
  BY DEF Init, JobType
<1> QED
  BY <1>1, <1>2, <1>3

(***************************************************************************)
(* Every state of every execution has the declared types.                  *)
(***************************************************************************)
THEOREM TypeCorrect == Spec => []TypeOK
<1>1. TypeOK /\ [Next]_vars => TypeOK'
  <2> SUFFICES ASSUME TypeOK, [Next]_vars PROVE TypeOK'
    OBVIOUS
  <2>1. CASE UNCHANGED vars
    <3>1. UNCHANGED <<operator, intake, rows, market, job>>
      BY <2>1 DEF vars, operator, intake, rows, market, job
    <3> QED
      BY <3>1, Groups, Stutters
  <2>2. CASE \E f \in Fills : Arrive(f) \/ Recover(f) \/ Claim(f)
    BY <2>2, IntakeSteps, ClaimStep
  <2>3. CASE (\E p \in Parts : Fill(p) \/ Unfilled(p)) \/ Flatten
    BY <2>3, MarketSteps
  <2>4. CASE Synchronize \/ Lifecycle
    BY <2>4, LifecycleSteps
  <2>5. CASE NoAccount \/ Prepare
    BY <2>5, PrepareSteps
  <2>6. CASE Decision
    BY <2>6, DecisionSteps
  <2>7. CASE Setback
    BY <2>7, SetbackSteps
  <2>8. CASE Failure
    BY <2>8, FailureSteps
  <2> QED
    BY <2>1, <2>2, <2>3, <2>4, <2>5, <2>6, <2>7, <2>8 DEF Next
<1> QED
  BY <1>1, InitType, PTL DEF Spec

(***************************************************************************)
(* The inductive invariant.                                                *)
(*                                                                         *)
(* RowsInv speaks about the rows a transaction would leave behind, current *)
(* or saved: complete fills are decided, and a fill is planned as a whole. *)
(* StoredInv adds that a running transaction has taken no decision back,   *)
(* and that the consumer works on planned rows only.  ExitInv is what the  *)
(* claim of an exit established and no other actor can destroy before the  *)
(* request is written: exits pass no gate of their own.                    *)
(***************************************************************************)
Planning(P) == \A p, q \in Parts : p[1] = q[1] /\ P[p] = "absent" => P[q] = "absent"
Completed(P, C) == \A p \in Parts : p[1] \in C => P[p] \in Decided
RowsInv(P, C) == Planning(P) /\ Completed(P, C)

StoredInv ==
    /\ RowsInv(part, complete)
    /\ undo # Committed =>
          /\ RowsInv(undo.part, undo.complete)
          /\ \A p \in Parts : undo.part[p] \in Decided => part[p] \in Decided
    /\ pc \in {"step", "apply", "sent", "finalize", "landed", "close"} =>
          \A p \in Parts : p[1] = cur => part[p] # "absent"

ExitInv ==
    pc = "apply" /\ ~IsEntry(Here) =>
        /\ ~Blocked(Here)
        /\ Open(Here) \/ (position = Flat /\ ~HasLive)

LaneInv == TypeOK /\ StoredInv /\ ExitInv

(***************************************************************************)
(* What every step but a rollback does to the rows.                        *)
(***************************************************************************)
Grows ==
    \A p \in Parts :
        /\ part[p] \in Decided => part'[p] \in Decided
        /\ part[p] # "absent" => part'[p] # "absent"
CompletesDecided == \A p \in Parts : p[1] \in complete' => p[1] \in complete \/ part'[p] \in Decided
RowStep == Grows /\ CompletesDecided /\ Planning(part')
UndoStep == undo' = undo \/ Begin \/ Commit

LEMMA KeptRows ==
    ASSUME StoredInv, UNCHANGED rows
    PROVE  RowStep
BY DEF StoredInv, RowsInv, RowStep, Grows, CompletesDecided, Planning, rows

LEMMA DecideRows ==
    ASSUME RowsType, StoredInv, NEW p \in Parts, NEW outcome \in Outcomes, NEW withOrder \in BOOLEAN,
           Decide(p, outcome, withOrder), part[p] # "absent", outcome # "absent",
           outcome \in Decided \/ part[p] \notin Decided
    PROVE  RowStep
<1>1. part' = [part EXCEPT ![p] = outcome] /\ complete' = complete
  BY DEF Decide
<1>2. Grows
  BY <1>1 DEF RowsType, Grows
<1>3. CompletesDecided
  BY <1>1 DEF CompletesDecided
<1>4. Planning(part')
  BY <1>1 DEF StoredInv, RowsInv, Planning, RowsType
<1> QED
  BY <1>2, <1>3, <1>4 DEF RowStep

LEMMA PostponedRows ==
    ASSUME RowsType, StoredInv, NEW p \in Parts, Postponed(p)
    PROVE  RowStep
<1>1. CASE Open(p)
  <2>1. Decide(p, "retryable", FALSE) /\ part[p] # "absent" /\ part[p] \notin Decided
    BY <1>1 DEF Postponed, Open, Undecided, Decided
  <2> QED
    BY <2>1, DecideRows DEF Outcomes, Undecided
<1>2. CASE ~Open(p)
  BY <1>2, KeptRows DEF Postponed
<1> QED
  BY <1>1, <1>2

LEMMA IgnoreRows ==
    ASSUME RowsType, StoredInv, NEW S \in SUBSET OpenParts, Ignore(S)
    PROVE  Grows /\ Planning(part')
<1>1. \A p \in Parts : part'[p] = IF p \in S THEN "ignored" ELSE part[p]
  BY DEF Ignore
<1>2. \A p \in S : part[p] \notin Decided /\ part[p] # "absent"
  BY DEF OpenParts, Open, Undecided, Decided
<1>3. Grows
  BY <1>1 DEF Grows, Decided
<1>4. Planning(part')
  BY <1>1, <1>2 DEF StoredInv, RowsInv, Planning, OpenParts
<1> QED
  BY <1>3, <1>4

LEMMA DropRows ==
    ASSUME RowsType, StoredInv, Ignore(OpenParts),
           complete' = complete \cup {p[1] : p \in OpenParts}
    PROVE  RowStep
<1>1. Grows /\ Planning(part')
  BY IgnoreRows
<1>2. CompletesDecided
  <2> SUFFICES ASSUME NEW p \in Parts, p[1] \in complete', p[1] \notin complete
               PROVE  part'[p] \in Decided
    BY DEF CompletesDecided
  <2>1. PICK q \in OpenParts : p[1] = q[1]
    OBVIOUS
  <2>2. q \in Parts /\ part[q] # "absent"
    BY DEF OpenParts, Open, Undecided
  <2>3. part[p] # "absent"
    BY <2>1, <2>2 DEF StoredInv, RowsInv, Planning
  <2>4. part[p] \in Decided \/ p \in OpenParts
    BY <2>3 DEF RowsType, Outcomes, OpenParts, Open
  <2>5. part'[p] = IF p \in OpenParts THEN "ignored" ELSE part[p]
    BY DEF Ignore
  <2> QED
    BY <2>4, <2>5 DEF Decided
<1> QED
  BY <1>1, <1>2 DEF RowStep

LEMMA ActivateRows ==
    ASSUME RowsType, StoredInv, NEW entries, NEW observed, Activate(entries, observed)
    PROVE  RowStep
<1> DEFINE closed == {p \in OpenParts : IsEntry(p)}
           decided(f) == \A p \in Parts : p[1] = f => part[p] \in Decided \/ p \in closed
<1>1. /\ Ignore(closed)
      /\ complete' = complete \cup {f \in {p[1] : p \in closed} : decided(f)}
  BY DEF Activate
<1>2. Grows /\ Planning(part')
  BY <1>1, IgnoreRows
<1>3. CompletesDecided
  <2> SUFFICES ASSUME NEW p \in Parts, p[1] \in complete', p[1] \notin complete
               PROVE  part'[p] \in Decided
    BY DEF CompletesDecided
  <2>1. part[p] \in Decided \/ p \in closed
    BY <1>1
  <2>2. part'[p] = IF p \in closed THEN "ignored" ELSE part[p]
    BY <1>1 DEF Ignore
  <2> QED
    BY <2>1, <2>2 DEF Decided
<1> QED
  BY <1>2, <1>3 DEF RowStep

(***************************************************************************)
(* Each group of actions, as a RowStep or a rollback.                      *)
(***************************************************************************)
LEMMA QuietRowSteps ==
    ASSUME StoredInv,
           \/ \E f \in Fills : Arrive(f) \/ Recover(f) \/ Claim(f)
           \/ \E p \in Parts : Fill(p) \/ Unfilled(p)
           \/ Flatten \/ NoAccount \/ UNCHANGED vars
    PROVE  RowStep /\ undo' = undo
<1>1. CASE \E f \in Fills : Arrive(f) \/ Recover(f) \/ Claim(f)
  <2>1. PICK f \in Fills : Arrive(f) \/ Recover(f) \/ Claim(f)
    BY <1>1
  <2>2. UNCHANGED <<rows, undo>>
    BY <2>1 DEF Arrive, StoreRealtime, StoreSnapshot, Redeliver, Recover, Claim, job
  <2> QED
    BY <2>2, KeptRows
<1>2. CASE (\E p \in Parts : Fill(p) \/ Unfilled(p)) \/ Flatten \/ NoAccount \/ UNCHANGED vars
  <2>1. UNCHANGED <<rows, undo>>
    BY <1>2 DEF Fill, Unfilled, Flatten, NoAccount, vars, rows, job
  <2> QED
    BY <2>1, KeptRows
<1> QED
  BY <1>1, <1>2

LEMMA LifecycleRowSteps ==
    ASSUME RowsType, StoredInv, Synchronize \/ Lifecycle
    PROVE  RowStep /\ undo' = undo
<1>1. undo' = undo
  BY DEF Synchronize, Lifecycle, Deselect, Select, Stop, Start, job
<1>2. CASE Synchronize
  <2>1. \/ Activate(Chosen, IF Chosen THEN since ELSE {})
        \/ Deactivate
        \/ UNCHANGED rows
    BY <1>2 DEF Synchronize
  <2> QED
    BY <1>1, <2>1, ActivateRows, DropRows, KeptRows DEF Deactivate
<1>3. CASE Deselect \/ Select
  BY <1>1, <1>3, KeptRows DEF Deselect, Select
<1>4. CASE Stop
  <2>1. Deactivate \/ UNCHANGED rows
    BY <1>4 DEF Stop
  <2> QED
    BY <1>1, <2>1, DropRows, KeptRows DEF Deactivate
<1>5. CASE Start
  <2>1. \/ Ignore(OpenParts) /\ complete' = complete \cup {p[1] : p \in OpenParts}
        \/ Activate(selected, {})
        \/ UNCHANGED rows
    BY <1>5 DEF Start
  <2> QED
    BY <1>1, <2>1, ActivateRows, DropRows, KeptRows
<1> QED
  BY <1>2, <1>3, <1>4, <1>5 DEF Lifecycle

LEMMA PrepareRowStep ==
    ASSUME RowsType, JobType, StoredInv, Prepare
    PROVE  /\ RowStep /\ undo' = undo
           /\ \A p \in Parts : p[1] = cur => part'[p] # "absent"
<1>1. PICK due \in BOOLEAN :
        LET next == [p \in Parts |-> BeforeBarrier(p, due)]
            new == {p \in Parts : next[p] # Planned(p)}
        IN  /\ part' = next
            /\ linked' = linked \ new
            /\ complete' = IF new # {} /\ \A p \in Parts : p[1] = cur => next[p] \in Decided
                             THEN complete \cup {cur} ELSE complete
  BY DEF Prepare
<1>2. \A p \in Parts :
        /\ part'[p] = BeforeBarrier(p, due)
        /\ p[1] # cur => part'[p] = part[p]
        /\ p[1] = cur => part'[p] # "absent"
        /\ part[p] \in Decided => part'[p] \in Decided
        /\ part[p] # "absent" => part'[p] # "absent"
  <2> SUFFICES ASSUME NEW p \in Parts
               PROVE  /\ BeforeBarrier(p, due) # "absent" \/ (p[1] # cur /\ part[p] = "absent")
                      /\ p[1] # cur => BeforeBarrier(p, due) = part[p]
                      /\ part[p] \in Decided => BeforeBarrier(p, due) \in Decided
    BY <1>1
  <2> QED
    BY DEF BeforeBarrier, Planned, Decided, Undecided, Open
<1>3. Grows
  BY <1>2 DEF Grows
<1>4. CompletesDecided
  <2>1. complete' = complete \/ (complete' = complete \cup {cur} /\ \A p \in Parts : p[1] = cur => part'[p] \in Decided)
    BY <1>1
  <2> QED
    BY <2>1 DEF CompletesDecided
<1>5. Planning(part')
  BY <1>2 DEF StoredInv, RowsInv, Planning
<1> QED
  BY <1>2, <1>3, <1>4, <1>5 DEF RowStep, Prepare

LEMMA DecisionRowSteps ==
    ASSUME RowsType, JobType, StoredInv, Decision
    PROVE  RowStep /\ UndoStep
<1>1. pc \in {"step", "apply", "finalize", "landed"} => Here \in Parts /\ part[Here] # "absent"
  BY DEF JobType, StoredInv, Here
<1>2. UndoStep
  BY DEF UndoStep, Decision, AlreadyDecided, Conclude, Proceed, Exists, GiveUp, Decline, Reclassified,
         Send, Reply, Finalize, Close, Done, Advance, Defer
<1>3. CASE AlreadyDecided \/ Exists \/ Send \/ Reply \/ Done
  BY <1>2, <1>3, KeptRows DEF AlreadyDecided, Exists, Send, Reply, Done
<1>4. CASE Conclude
  <2>1. Verdicts \subseteq {"ignored", "skip"} /\ (Verdicts # {} => pc = "step")
    BY DEF Verdicts, Claimable, AtPart
  <2>2. PICK outcome \in Verdicts : Decide(Here, outcome, FALSE)
    BY <1>4 DEF Conclude
  <2> QED
    BY <1>1, <1>2, <2>1, <2>2, DecideRows DEF Outcomes, Decided
<1>5. CASE Proceed
  <2>1. /\ pc = "step" /\ part[Here] \notin Decided
        /\ part' = [part EXCEPT ![Here] = "processing"]
        /\ complete' = complete
    BY <1>5 DEF Proceed, Eligible, Claimable, AtPart, Open, Undecided, Decided
  <2>2. Here \in Parts /\ part[Here] # "absent"
    BY <1>1, <2>1
  <2>3. Grows
    BY <2>1, <2>2 DEF RowsType, Grows
  <2>4. CompletesDecided /\ Planning(part')
    BY <2>1, <2>2 DEF CompletesDecided, StoredInv, RowsInv, Planning, RowsType
  <2> QED
    BY <1>2, <2>3, <2>4 DEF RowStep
<1>6. CASE GiveUp \/ Decline \/ Reclassified
  <2>1. /\ pc = "apply"
        /\ \/ UNCHANGED rows
           \/ \E outcome \in {"skip", "ignored"}, withOrder \in BOOLEAN : Decide(Here, outcome, withOrder)
    BY <1>6 DEF GiveUp, Decline, Reclassified, Submittable
  <2> QED
    BY <1>1, <1>2, <2>1, DecideRows, KeptRows DEF Outcomes, Decided
<1>7. CASE Finalize
  <2>1. /\ Here \in Parts /\ part[Here] # "absent"
        /\ \/ UNCHANGED rows
           \/ Open(Here) /\ Decide(Here, "retryable", FALSE)
           \/ \E outcome \in {"skip", "order"} : Decide(Here, outcome, TRUE)
    BY <1>1, <1>7 DEF Finalize
  <2>2. Open(Here) => part[Here] \notin Decided
    BY DEF Open, Undecided, Decided
  <2> QED
    BY <1>2, <2>1, <2>2, DecideRows, KeptRows DEF Outcomes, Decided, Undecided
<1>8. CASE Close
  <2>1. part' = part /\ complete' = IF AllDecided(cur) THEN complete \cup {cur} ELSE complete
    BY <1>8 DEF Close
  <2> QED
    BY <1>2, <2>1 DEF RowStep, Grows, CompletesDecided, AllDecided, StoredInv, RowsInv, Planning
<1> QED
  BY <1>3, <1>4, <1>5, <1>6, <1>7, <1>8 DEF Decision

LEMMA SetbackRowSteps ==
    ASSUME RowsType, JobType, StoredInv, Setback
    PROVE  RowStep /\ UndoStep
<1>1. pc \in {"step", "apply"} => Here \in Parts /\ part[Here] # "absent"
  BY DEF JobType, StoredInv, Here
<1>2. UndoStep
  BY DEF UndoStep, Setback, LaneGone, Wait, Postpone, PutOff, DeclineForNow, RetryWork, Advance, Defer
<1>3. CASE LaneGone \/ Wait \/ RetryWork
  BY <1>2, <1>3, KeptRows DEF LaneGone, Wait, RetryWork
<1>4. CASE Postpone
  <2>1. pc = "step" /\ Decide(Here, "retryable", FALSE) /\ part[Here] \notin Decided
    BY <1>4 DEF Postpone, Eligible, Claimable, AtPart, Open, Undecided, Decided
  <2> QED
    BY <1>1, <1>2, <2>1, DecideRows DEF Outcomes, Undecided
<1>5. CASE PutOff \/ DeclineForNow
  <2>1. pc = "apply" /\ Postponed(Here)
    BY <1>5 DEF PutOff, DeclineForNow, Submittable
  <2> QED
    BY <1>1, <1>2, <2>1, PostponedRows
<1> QED
  BY <1>3, <1>4, <1>5 DEF Setback

LEMMA RowSteps ==
    ASSUME TypeOK, StoredInv, [Next]_vars
    PROVE  Failure \/ (RowStep /\ UndoStep)
<1>1. RowsType /\ JobType
  BY Groups
<1>2. undo' = undo => UndoStep
  BY DEF UndoStep
<1>3. CASE Synchronize \/ Lifecycle
  BY <1>1, <1>2, <1>3, LifecycleRowSteps
<1>4. CASE Prepare
  BY <1>1, <1>2, <1>4, PrepareRowStep
<1>5. CASE Decision
  BY <1>1, <1>5, DecisionRowSteps
<1>6. CASE Setback
  BY <1>1, <1>6, SetbackRowSteps
<1> QED
  BY <1>2, <1>3, <1>4, <1>5, <1>6, QuietRowSteps DEF Next

(***************************************************************************)
(* StoredInv is inductive.                                                 *)
(***************************************************************************)
Working == {"step", "apply", "sent", "finalize", "landed", "close"}

\* The consumer comes to its parts through Prepare and stays with their fill.
LEMMA WorkingSteps ==
    ASSUME [Next]_vars, pc' \in Working
    PROVE  Prepare \/ (pc \in Working /\ cur' = cur)
<1>1. CASE \E f \in Fills : Arrive(f) \/ Recover(f) \/ Claim(f)
  <2>1. PICK f \in Fills : Arrive(f) \/ Recover(f) \/ Claim(f)
    BY <1>1
  <2> QED
    BY <2>1 DEF Arrive, StoreRealtime, StoreSnapshot, Redeliver, Recover, Claim, job, Working
<1>2. CASE (\E p \in Parts : Fill(p) \/ Unfilled(p)) \/ Flatten \/ UNCHANGED vars
  BY <1>2 DEF Fill, Unfilled, Flatten, vars, job
<1>3. CASE Synchronize \/ Lifecycle
  BY <1>3 DEF Synchronize, Lifecycle, Deselect, Select, Stop, Start, job
<1>4. CASE NoAccount
  BY <1>4 DEF NoAccount, Working
<1>5. CASE Decision
  BY <1>5 DEF Decision, AlreadyDecided, Conclude, Verdicts, Claimable, AtPart, Proceed, Exists, GiveUp,
              Decline, Reclassified, Submittable, Send, Reply, Finalize, Close, Done, Advance, Onward,
              Defer, Leave, Eligible, Working
<1>6. CASE Setback
  BY <1>6 DEF Setback, LaneGone, Wait, Postpone, PutOff, DeclineForNow, Submittable, RetryWork, Advance,
              Onward, Defer, Leave, Working
<1>7. CASE Failure
  BY <1>7 DEF Failure, Interrupt, Crash, Leave, Working
<1> QED
  BY <1>1, <1>2, <1>3, <1>4, <1>5, <1>6, <1>7 DEF Next

LEMMA FailureRows ==
    ASSUME Failure
    PROVE  /\ undo' = Committed /\ pc' \notin Working
           /\ undo = Committed => UNCHANGED rows
           /\ undo # Committed => part' = undo.part /\ complete' = undo.complete
BY DEF Failure, Interrupt, Crash, Rollback, Commit, Leave, Working

LEMMA StoredStep ==
    ASSUME TypeOK, StoredInv, [Next]_vars
    PROVE  StoredInv'
<1>1. CASE Failure
  <2>1. RowsInv(part', complete')
    BY <1>1, FailureRows DEF StoredInv, rows
  <2> QED
    BY <1>1, <2>1, FailureRows DEF StoredInv, Working
<1>2. CASE ~Failure
  <2>1. RowStep /\ UndoStep
    BY <1>2, RowSteps
  <2>2. RowsInv(part', complete')
    BY <2>1 DEF RowStep, Grows, CompletesDecided, StoredInv, RowsInv, Completed
  <2>3. undo' # Committed =>
          /\ RowsInv(undo.part', undo.complete')
          /\ \A p \in Parts : undo.part[p]' \in Decided => part[p]' \in Decided
    <3> SUFFICES ASSUME undo' # Committed
                 PROVE  /\ RowsInv(undo.part', undo.complete')
                        /\ \A p \in Parts : undo.part[p]' \in Decided => part[p]' \in Decided
      OBVIOUS
    <3>1. \/ undo' = undo /\ undo # Committed
          \/ /\ undo = Committed
             /\ undo' = [part |-> part, linked |-> linked, complete |-> complete, order |-> order]
      BY <2>1 DEF UndoStep, Begin, Commit
    <3>2. RowsInv(undo.part', undo.complete')
      BY <3>1 DEF StoredInv
    <3>3. \A p \in Parts : undo.part[p]' \in Decided => part[p]' \in Decided
      BY <2>1, <3>1 DEF StoredInv, RowStep, Grows
    <3> QED
      BY <3>2, <3>3
  <2>4. pc' \in Working => \A p \in Parts : p[1] = cur' => part'[p] # "absent"
    <3>1. CASE Prepare
      BY <3>1, PrepareRowStep, Groups DEF Prepare
    <3>2. CASE pc \in Working /\ cur' = cur
      BY <2>1, <3>2 DEF StoredInv, Working, RowStep, Grows
    <3> QED
      BY <3>1, <3>2, WorkingSteps
  <2> QED
    BY <2>2, <2>3, <2>4 DEF StoredInv, Working
<1> QED
  BY <1>1, <1>2

(***************************************************************************)
(* ExitInv is inductive: while the consumer is between the claim and the   *)
(* request, the others only take obstacles away.                           *)
(***************************************************************************)
Eases ==
    /\ \A q \in Parts : Open(q)' => Open(q)
    /\ \A q \in Parts : order'[q] = "live" => order[q] = "live"
    /\ complete \subseteq complete' /\ linked' \subseteq linked
    /\ position' # Flat => position # Flat \/ HasLive

\* A lifecycle change that decides an exit finds the lane flat.
LEMMA ApplySteps ==
    ASSUME TypeOK, StoredInv, [Next]_vars, pc' = "apply"
    PROVE  \/ Proceed
           \/ /\ pc = "apply" /\ Here' = Here /\ Eases
              /\ Open(Here) /\ ~Open(Here)' /\ ~IsEntry(Here) => position' = Flat /\ ~HasLive'
<1>1. CASE \E f \in Fills : Arrive(f) \/ Recover(f) \/ Claim(f)
  <2>1. PICK f \in Fills : Arrive(f) \/ Recover(f) \/ Claim(f)
    BY <1>1
  <2>2. UNCHANGED <<rows, market, job>>
    BY <2>1 DEF Arrive, StoreRealtime, StoreSnapshot, Redeliver, Recover, Claim
  <2> QED
    BY <2>2 DEF rows, market, job, Eases, Here, Open
<1>2. CASE \E p \in Parts : Fill(p) \/ Unfilled(p)
  <2>1. PICK p \in Parts : Fill(p) \/ Unfilled(p)
    BY <1>2
  <2>2. /\ UNCHANGED <<rows, job>>
        /\ order[p] = "live"
        /\ order' = order \/ \E end \in {"settled", "soft"} : order' = [order EXCEPT ![p] = end]
    BY <2>1 DEF Fill, Unfilled, Loose
  <2>3. HasLive
    BY <2>2 DEF HasLive
  <2>4. \A q \in Parts : order'[q] = "live" => order[q] = "live"
    BY <2>2, Groups DEF MarketType
  <2> QED
    BY <2>2, <2>3, <2>4 DEF rows, job, Eases, Here, Open
<1>3. CASE Flatten \/ UNCHANGED vars
  BY <1>3 DEF Flatten, vars, rows, job, Eases, Here, Open
<1>4. CASE Synchronize \/ Lifecycle
  <2>1. UNCHANGED <<order, position, pc, cur, at>>
    BY <1>4 DEF Synchronize, Lifecycle, Deselect, Select, Stop, Start, market, job
  <2>2. HasLive' <=> HasLive
    BY <2>1 DEF HasLive
  <2>3. /\ \A q \in Parts : Open(q)' => Open(q)
        /\ complete \subseteq complete' /\ linked' \subseteq linked
        /\ (\A q \in Parts : ~IsEntry(q) => (Open(q)' <=> Open(q))) \/ (position = Flat /\ ~HasLive)
    <3>1. CASE UNCHANGED rows
      BY <3>1 DEF rows, Open
    <3>2. CASE \E entries, observed : Activate(entries, observed)
      <4>1. PICK entries, observed : Activate(entries, observed)
        BY <3>2
      <4>2. Ignore({p \in OpenParts : IsEntry(p)}) /\ complete \subseteq complete' /\ linked' \subseteq linked
        BY <4>1 DEF Activate
      <4> QED
        BY <4>2 DEF Ignore, Open, OpenParts, Undecided
    <3>3. CASE /\ Ignore(OpenParts) /\ complete \subseteq complete' /\ linked' \subseteq linked
               /\ position = Flat /\ ~HasLive
      BY <3>3 DEF Ignore, Open, OpenParts, Undecided
    <3>4. CASE Synchronize
      BY <3>1, <3>2, <3>3, <3>4 DEF Synchronize, Owned, Deactivate
    <3>5. CASE Lifecycle
      BY <3>1, <3>2, <3>3, <3>5 DEF Lifecycle, Deselect, Select, Stop, Start, Deactivate
    <3> QED
      BY <1>4, <3>4, <3>5
  <2>4. Here \in Parts
    BY <2>1, Groups DEF JobType
  <2> QED
    BY <2>1, <2>2, <2>3, <2>4 DEF Eases, Here
<1>5. CASE NoAccount \/ Prepare
  BY <1>5 DEF NoAccount, Prepare
<1>6. CASE Decision
  BY <1>6 DEF Decision, AlreadyDecided, Conclude, Exists, GiveUp, Decline, Reclassified, Send, Reply,
              Finalize, Close, Done, Advance, Onward, Defer, Leave
<1>7. CASE Setback
  BY <1>7 DEF Setback, LaneGone, Wait, Postpone, PutOff, DeclineForNow, RetryWork, Advance, Onward,
              Defer, Leave
<1>8. CASE Failure
  BY <1>8 DEF Failure, Interrupt, Crash, Leave
<1> QED
  BY <1>1, <1>2, <1>3, <1>4, <1>5, <1>6, <1>7, <1>8 DEF Next

LEMMA ExitStep ==
    ASSUME TypeOK, StoredInv, ExitInv, [Next]_vars
    PROVE  ExitInv'
<1> SUFFICES ASSUME pc' = "apply", ~IsEntry(Here)'
             PROVE  ~Blocked(Here)' /\ (Open(Here)' \/ (position = Flat /\ ~HasLive)')
  BY DEF ExitInv
<1>1. CASE Proceed
  <2>1. /\ AtPart /\ Open(Here) /\ ~Blocked(Here)
        /\ Here' = Here /\ Here \in Parts
        /\ part' = [part EXCEPT ![Here] = "processing"]
        /\ UNCHANGED <<linked, complete, order>>
    BY <1>1, Groups DEF Proceed, Eligible, Claimable, AtPart, JobType, Here, market
  <2>2. ~IsEntry(Here)
    BY <2>1 DEF IsEntry
  <2>3. ~Blocked(Here)
    BY <1>1, <2>2 DEF Proceed, Eligible, Claimable, StaleEntry
  <2>4. Open(Here)'
    BY <2>1, Groups DEF RowsType, Open, Undecided
  <2>5. \A q \in Parts : q # Here => (Unfinished(q)' => Unfinished(q))
    BY <2>1, Groups DEF RowsType, Unfinished, Open
  <2>6. ~Earlier(Here, Here)
    <3>1. cur \in Nat /\ at \in Nat
      BY <2>1, LaneAssumption, PartMembers, Groups DEF Here, JobType
    <3> QED
      BY <3>1 DEF Earlier, Here
  <2>7. ~Blocked(Here)'
    BY <2>1, <2>3, <2>5, <2>6 DEF Blocked, Earlier
  <2> QED
    BY <2>4, <2>7
<1>2. CASE /\ pc = "apply" /\ Here' = Here /\ Eases
           /\ Open(Here) /\ ~Open(Here)' /\ ~IsEntry(Here) => position' = Flat /\ ~HasLive'
  <2>1. ~IsEntry(Here)
    BY <1>2 DEF IsEntry
  <2>2. ~Blocked(Here) /\ (Open(Here) \/ (position = Flat /\ ~HasLive))
    BY <1>2, <2>1 DEF ExitInv
  <2>3. ~Blocked(Here)'
    BY <1>2, <2>2 DEF Eases, Blocked, Unfinished, Earlier
  <2>4. position = Flat /\ ~HasLive => position' = Flat /\ ~HasLive'
    BY <1>2 DEF Eases, HasLive
  <2> QED
    BY <1>2, <2>1, <2>2, <2>3, <2>4
<1> QED
  BY <1>1, <1>2, ApplySteps

THEOREM LaneInvariant == Spec => []LaneInv
<1>1. Init => LaneInv
  <2> SUFFICES ASSUME Init PROVE StoredInv /\ ExitInv
    BY InitType DEF LaneInv
  <2> QED
    BY DEF Init, StoredInv, RowsInv, Planning, Completed, ExitInv
<1>2. LaneInv /\ TypeOK' /\ [Next]_vars => LaneInv'
  BY StoredStep, ExitStep DEF LaneInv
<1> QED
  BY <1>1, <1>2, TypeCorrect, PTL DEF Spec

(***************************************************************************)
(* The results.                                                            *)
(***************************************************************************)

\* A fill is complete only when the lane needs nothing more of its parts.
THEOREM CompleteOnlyDecided == Spec => []CompleteIsDecided
<1>1. LaneInv => CompleteIsDecided
  BY DEF LaneInv, StoredInv, RowsInv, Completed, CompleteIsDecided, AllDecided
<1> QED
  BY <1>1, LaneInvariant, PTL

LEMMA SendSteps ==
    ASSUME TypeOK, [Next]_vars, NEW p \in Parts, Sends(p)
    PROVE  Send /\ p = Here /\ Here \in Parts
<1> USE DEF Sends
<1>1. order \in [Parts -> OrderStates] /\ order' # order
  BY Groups DEF MarketType
<1>2. CASE \E f \in Fills : Arrive(f) \/ Recover(f) \/ Claim(f)
  BY <1>1, <1>2 DEF Arrive, StoreRealtime, StoreSnapshot, Redeliver, Recover, Claim, market
<1>3. CASE (\E q \in Parts : Fill(q) \/ Unfilled(q)) \/ Flatten \/ NoAccount \/ Prepare \/ UNCHANGED vars
  BY <1>1, <1>3 DEF Fill, Unfilled, Flatten, NoAccount, Prepare, market, vars
<1>4. CASE Synchronize \/ Lifecycle
  BY <1>1, <1>4 DEF Synchronize, Lifecycle, Deselect, Select, Stop, Start, market
<1>5. CASE Decision
  <2>1. CASE Send
    <3>1. Here \in Parts
      BY <2>1, Groups DEF Send, Submittable, JobType
    <3> QED
      BY <1>1, <2>1, <3>1 DEF Send
  <2>2. CASE ~Send
    BY <1>1, <1>5, <2>2 DEF Decision, AlreadyDecided, Conclude, Proceed, Exists, GiveUp, Decline, Reclassified,
       Reply, Finalize, Close, Done, market
  <2> QED
    BY <2>1, <2>2
<1>6. CASE Setback
  BY <1>1, <1>6 DEF Setback, LaneGone, Wait, Postpone, PutOff, DeclineForNow, RetryWork, market
<1>7. CASE Failure
  BY <1>1, <1>7 DEF Failure, Interrupt, Crash, Rollback
<1> QED
  BY <1>2, <1>3, <1>4, <1>5, <1>6, <1>7 DEF Next

\* No part is sent past an undecided part or past a linked order that is
\* unresolved, however long ago its claim was.
THEOREM InOrder == Spec => SendInOrder
<1>1. ASSUME LaneInv, [Next]_vars, NEW p \in Parts, Sends(p)
      PROVE  ~Blocked(p)
  <2>1. Send /\ p = Here
    BY <1>1, SendSteps DEF LaneInv
  <2> QED
    BY <1>1, <2>1 DEF Send, Submittable, MaySend, LaneInv, ExitInv
<1>2. LaneInv /\ [Next]_vars => [\A p \in Parts : Sends(p) => ~Blocked(p)]_vars
  BY <1>1
<1> QED
  BY <1>2, LaneInvariant, PTL DEF Spec, SendInOrder

\* What a stop, a start or a deselection decided is not sent any more.
THEOREM OnlyUndecidedSent == Spec => SendUndecided
<1>1. ASSUME LaneInv, [Next]_vars, NEW p \in Parts, Sends(p)
      PROVE  Open(p)
  <2>1. Send /\ p = Here
    BY <1>1, SendSteps DEF LaneInv
  <2>2. CASE IsEntry(Here)
    BY <2>1, <2>2 DEF Send, MaySend, Open, Undecided
  <2>3. CASE ~IsEntry(Here)
    BY <1>1, <2>1, <2>3 DEF Send, Submittable, MaySend, Holds, LaneInv, ExitInv
  <2> QED
    BY <2>1, <2>2, <2>3
<1>2. LaneInv /\ [Next]_vars => [\A p \in Parts : Sends(p) => Open(p)]_vars
  BY <1>1
<1> QED
  BY <1>2, LaneInvariant, PTL DEF Spec, SendUndecided

\* A committed decision is final.
THEOREM DecisionsFinal == Spec => DecisionsStand
<1>1. ASSUME LaneInv, [Next]_vars, NEW p \in Parts, StoredRow(p) \in Decided
      PROVE  StoredRow(p)' \in Decided
  <2>1. part[p] \in Decided
    BY <1>1 DEF StoredRow, LaneInv, StoredInv
  <2>2. CASE Failure
    BY <1>1, <2>2, FailureRows DEF StoredRow, rows
  <2>3. CASE RowStep /\ UndoStep
    <3>1. part'[p] \in Decided
      BY <2>1, <2>3 DEF RowStep, Grows
    <3>2. undo' \in {undo, Committed} \/ undo' = [part |-> part, linked |-> linked, complete |-> complete, order |-> order]
      BY <2>3 DEF UndoStep, Begin, Commit
    <3> QED
      BY <1>1, <2>1, <3>1, <3>2 DEF StoredRow
  <2> QED
    BY <1>1, <2>2, <2>3, RowSteps DEF LaneInv
<1>2. LaneInv /\ [Next]_vars => [\A p \in Parts : StoredRow(p) \in Decided => StoredRow(p)' \in Decided]_vars
  BY <1>1
<1> QED
  BY <1>2, LaneInvariant, PTL DEF Spec, DecisionsStand
=============================================================================
