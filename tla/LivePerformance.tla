-------------------------- MODULE LivePerformance --------------------------
(***************************************************************************)
(* The external cash flows of a live account and its performance series:   *)
(* what each reconciliation imports of the exchange's ledger, and which    *)
(* flows the snapshots have taken out of the trading result.               *)
(*                                                                         *)
(* A flow is its time: no two share one, and none has the time of a        *)
(* reconciliation.  Of the series, the first and the last snapshot and the *)
(* flows counted between them are kept; the index follows from those.      *)
(***************************************************************************)
EXTENDS Integers

CONSTANTS
    Overlap,    \* what an import goes back behind the latest known flow
    WeekLength, \* length of a week
    Lookbacks,  \* lookback_minutes an operator may pass
    MaxFlowTime \* bound: the time

ASSUME PerfAssumption ==
    /\ Overlap \in Nat /\ WeekLength \in Nat \ {0} /\ Lookbacks \subseteq Nat
    /\ MaxFlowTime \in Nat \ {0}

VARIABLES
    hour,       \* the time
    cashFlows,  \* flows at the exchange
    known,      \* trading_account_cash_flows
    tracking,   \* the account's markers: created, reconciled, both backfills
    series,     \* trading_account_performance_snapshots
    import,     \* the reconciliation under way
    narrow      \* an operator's window has left flows out

perfVars == <<hour, cashFlows, known, tracking, series, import, narrow>>
----------------------------------------------------------------------------
NoTime == -1
NoSeries == [from |-> NoTime, last |-> NoTime, counted |-> {}]
NoImport == [pc |-> "idle", at |-> 0, start |-> 0, flows |-> {}, whole |-> FALSE,
           past |-> {}, pastWhole |-> FALSE]

Times == 0..MaxFlowTime

PerfTypeOK ==
    /\ hour \in Times /\ cashFlows \subseteq Times /\ known \subseteq cashFlows
    /\ tracking \in [created : Times, reconciled : Times \cup {NoTime},
                     allFlows : BOOLEAN, history : BOOLEAN]
    /\ series \in [from : Times \cup {NoTime}, last : Times \cup {NoTime}, counted : SUBSET Times]
    /\ import \in [pc : {"idle", "flows", "past", "apply"}, at : Times, start : Int,
                 flows : SUBSET Times, whole : BOOLEAN, past : SUBSET Times,
                 pastWhole : BOOLEAN]
    /\ narrow \in BOOLEAN

(* The account may be added after its first deposit.                       *)
PerfInit ==
    /\ hour = 1 /\ cashFlows \in SUBSET {0} /\ known = {}
    /\ tracking = [created |-> 1, reconciled |-> NoTime, allFlows |-> FALSE, history |-> FALSE]
    /\ series = NoSeries /\ import = NoImport /\ narrow = FALSE
----------------------------------------------------------------------------
Between(S, after, upto) == {f \in S : after < f /\ f <= upto}
LatestFlow(S) == CHOOSE f \in S : \A g \in S : g <= f
Sooner(a, b) == IF a < b THEN a ELSE b
Later(a, b) == IF a < b THEN b ELSE a

(* A deposit, a withdrawal or a transfer to or from another account.       *)
Flow ==
    /\ hour < MaxFlowTime /\ hour' = hour + 1
    /\ cashFlows' = cashFlows \cup {hour}
    /\ UNCHANGED <<known, tracking, series, import, narrow>>

(* live_cash_flow_reconciliation_start_time_ms, without a lookback.        *)
StartOfWeek == hour - (hour % WeekLength)

AutomaticStart ==
    IF ~tracking.allFlows THEN 0
    ELSE IF known # {} THEN LatestFlow(known) - Overlap
    ELSE Later(Sooner(IF tracking.reconciled = NoTime THEN tracking.created
                      ELSE tracking.reconciled, StartOfWeek),
               tracking.created)

StartPass(start) ==
    /\ import.pc = "idle" /\ hour < MaxFlowTime /\ hour' = hour + 1
    /\ import' = [NoImport EXCEPT !.pc = "flows", !.at = hour, !.start = start]
    /\ UNCHANGED <<cashFlows, known, tracking, series>>

(* The worker, a control, or an operator without a window.                 *)
Automatic == StartPass(AutomaticStart) /\ UNCHANGED narrow

WithLookback(minutes) ==
    /\ StartPass(hour - minutes)
    /\ narrow' = (narrow \/ hour - minutes > AutomaticStart)

(* fetch_live_cash_flows_by_time: pages in the order of time.  The first   *)
(* that fails, or the limit, leaves the later ones out.                    *)
Pages(start, at) ==
    {[flows |-> Between(cashFlows, start - 1, end), whole |-> end = at] : end \in (start - 1)..at}

FetchFlows ==
    /\ import.pc = "flows"
    /\ \E p \in Pages(import.start, import.at) :
         import' = [import EXCEPT !.pc = "past", !.flows = p.flows, !.whole = p.whole]
    /\ UNCHANGED <<hour, cashFlows, known, tracking, series, narrow>>

(* The flows of all time, once, with the account's portfolio history.      *)
FetchPast ==
    /\ import.pc = "past"
    /\ \/ import' = [import EXCEPT !.pc = "apply"]
       \/ /\ ~tracking.history
          /\ \E p \in IF import.start = 0 THEN {[flows |-> import.flows, whole |-> import.whole]}
                      ELSE Pages(0, import.at) :
               import' = [import EXCEPT !.pc = "apply", !.past = p.flows, !.pastWhole = p.whole]
    /\ UNCHANGED <<hour, cashFlows, known, tracking, series, narrow>>
----------------------------------------------------------------------------
(* record_live_account_performance_snapshot.                               *)
Snapshot(s, flows, at) ==
    IF s = NoSeries THEN [from |-> at, last |-> at, counted |-> {}]
    ELSE [from |-> s.from, last |-> at, counted |-> s.counted \cup Between(flows, s.last, at)]

(* backfill_live_account_performance_history: the series is replaced by the *)
(* points of the history, from an anchor before the first deposit if there *)
(* was one by then.                                                        *)
Rebuilt(flows) ==
    {Snapshot(Snapshot(NoSeries, flows, p), flows, q) : p, q \in 0..(import.at - 1)}

(* ensure_live_account_performance_baseline: from what the last complete    *)
(* reconciliation stored.                                                  *)
WithBaseline(flows) ==
    IF series = NoSeries /\ tracking.reconciled # NoTime
    THEN Snapshot(series, flows, tracking.reconciled) ELSE series

(* reconciliation_component_errors: the cash flows are one of several      *)
(* components.                                                             *)
EvenIfPartial(others) == others

WholePass(others) == others /\ import.whole

(* The mutation transaction of the reconciliation.                         *)
ApplyPass(others) ==
    /\ import.pc = "apply"
    /\ known' = known \cup import.flows \cup import.past
    /\ LET all == tracking.allFlows \/ (import.start = 0 /\ import.whole)
       IN IF WholePass(others)
          THEN \/ /\ import.pastWhole /\ import.at > 1
                  /\ \E s \in Rebuilt(known') :
                       /\ s.from < s.last
                       /\ series' = Snapshot(s, known', import.at)
                  /\ tracking' = [tracking EXCEPT !.allFlows = all, !.history = TRUE,
                                                  !.reconciled = import.at]
               \/ /\ series' = Snapshot(WithBaseline(known'), known', import.at)
                  /\ tracking' = [tracking EXCEPT !.allFlows = all, !.reconciled = import.at]
          ELSE /\ tracking' = [tracking EXCEPT !.allFlows = all]
               /\ UNCHANGED series
    /\ import' = NoImport
    /\ UNCHANGED <<hour, cashFlows, narrow>>

(* mark_live_reconciliation_run_failed.                                    *)
FailPass ==
    /\ import.pc # "idle" /\ import' = NoImport
    /\ UNCHANGED <<hour, cashFlows, known, tracking, series, narrow>>
----------------------------------------------------------------------------
PerfNext ==
    \/ Flow \/ Automatic \/ FetchFlows \/ FetchPast \/ FailPass
    \/ \E minutes \in Lookbacks : WithLookback(minutes)
    \/ \E others \in BOOLEAN : ApplyPass(others)

PerfSpec == PerfInit /\ [][PerfNext]_perfVars
----------------------------------------------------------------------------
(* "Deposits and withdrawals therefore change capital and sizing without   *)
(* rewriting earlier performance": the series counts as external exactly   *)
(* the flows between its first and its last snapshot, however the imports  *)
(* failed, were partial or were replaced, unless a window of an operator   *)
(* was too short to reach back to the last import.                         *)
FlowsCounted ==
    ~narrow => series.counted = Between(cashFlows, series.from, series.last)
============================================================================
