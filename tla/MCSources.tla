----------------------------- MODULE MCSources -----------------------------
(***************************************************************************)
(* The sources: what is known of them, which of them are copied, at what   *)
(* size, and the budget and the operations that serve all of this, on      *)
(* small instances.                                                        *)
(*                                                                         *)
(* The parts do not meet in these models.  In a behaviour one of them      *)
(* moves, the part named by subject, and the variables of the others keep  *)
(* one value, so that a run explores the parts side by side.               *)
(***************************************************************************)
EXTENDS CopyCaches, InfoBudget, OperationStatus, CopyDecision, SourceTrades, SourceSlots,
        WalletHistory, TLC

VARIABLE subject

sourceVars == <<subject, cacheVars, budgetVars, statusVars, copyVars, tradeVars, slotVars, historyVars>>

Subjects == {"caches", "budget", "decision", "history", "slots", "trades", "status"}

(* Callers and their processes; the sizes of a source and of the others'   *)
(* copies; and wallets that qualify, that lost what made them so, and that *)
(* never did.                                                              *)
Owners == ("e" :> "p") @@ ("b" :> "p") @@ ("c" :> "q")

SourcePositions == {-1, 0} \cup 3..7
SignedSizes == {1, -2}

Good == [score |-> 2, ok |-> TRUE, polled |-> TRUE, fills |-> "recent",
         closed |-> 9, drawdown |-> 0, loss |-> 0, holds |-> TRUE]
Bad == [score |-> 1, ok |-> TRUE, polled |-> TRUE, fills |-> "old",
        closed |-> 6, drawdown |-> 9, loss |-> 9, holds |-> FALSE]
Poor == [score |-> 0, ok |-> FALSE, polled |-> TRUE, fills |-> "none",
         closed |-> 0, drawdown |-> 0, loss |-> 0, holds |-> FALSE]
Found == {Good, Bad, Poor}
----------------------------------------------------------------------------
SourcesInit ==
    /\ subject \in Subjects
    /\ CacheInit /\ BudgetInit /\ StatusInit /\ CopyInit /\ TradesInit /\ SlotsInit /\ HistoryInit
    /\ subject # "decision" => lots = 0 /\ others = 0
    /\ subject # "slots" => ~live /\ \A w \in Wallets : profile[w] = Good

SourcesNext ==
    \/ /\ subject = "caches" /\ CacheNext
       /\ UNCHANGED <<subject, budgetVars, statusVars, copyVars, tradeVars, slotVars, historyVars>>
    \/ /\ subject = "budget" /\ BudgetNext
       /\ UNCHANGED <<subject, cacheVars, statusVars, copyVars, tradeVars, slotVars, historyVars>>
    \/ /\ subject = "status" /\ StatusNext
       /\ UNCHANGED <<subject, cacheVars, budgetVars, copyVars, tradeVars, slotVars, historyVars>>
    \/ /\ subject = "decision" /\ CopyNext
       /\ UNCHANGED <<subject, cacheVars, budgetVars, statusVars, tradeVars, slotVars, historyVars>>
    \/ /\ subject = "trades" /\ TradesNext
       /\ UNCHANGED <<subject, cacheVars, budgetVars, statusVars, copyVars, slotVars, historyVars>>
    \/ /\ subject = "slots" /\ SlotsNext
       /\ UNCHANGED <<subject, cacheVars, budgetVars, statusVars, copyVars, tradeVars, historyVars>>
    \/ /\ subject = "history" /\ HistoryNext
       /\ UNCHANGED <<subject, cacheVars, budgetVars, statusVars, copyVars, tradeVars, slotVars>>

SourcesSpec == SourcesInit /\ [][SourcesNext]_sourceVars
----------------------------------------------------------------------------
(* Each part's variables have their types. *)
SourcesTyped ==
    /\ CacheTypeOK /\ BudgetTypeOK /\ StatusTypeOK /\ CopyTypeOK /\ TradesTypeOK /\ SlotsTypeOK
    /\ HistoryTypeOK
============================================================================
