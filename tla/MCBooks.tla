------------------------------ MODULE MCBooks ------------------------------
(***************************************************************************)
(* The accounts and what is booked to them, on small instances: the fills  *)
(* and positions of a live account, its equity series, a paper account     *)
(* under the copy engine, and a paper account under the risk loop.         *)
(*                                                                         *)
(* The four do not meet: each has rows of its own.  In a behaviour one of  *)
(* them moves, the part named by subject, and the variables of the others  *)
(* keep one value, so that a run explores the four side by side.           *)
(***************************************************************************)
EXTENDS LiveLedger, PaperCopy, PaperRisk, LivePerformance

VARIABLES subject

ledgerVars == vars
bookVars == <<subject, ledgerVars, paperVars, riskVars, perfVars>>

Subjects == {"ledger", "paper", "risk", "performance"}
----------------------------------------------------------------------------
(* Source 1 opens long and closes, source 2 opens short in the same coin.  *)
Opens(side) == [action |-> "open", side |-> side, pre |-> FALSE, whole |-> FALSE, tiny |-> FALSE]
Closes(side) == [action |-> "close", side |-> side, pre |-> TRUE, whole |-> TRUE, tiny |-> FALSE]
Fills == <<
    <<[parts |-> <<Opens("long")>>, after |-> "long"],
      [parts |-> <<Closes("long")>>, after |-> "none"]>>,
    <<[parts |-> <<Opens("short")>>, after |-> "short"]>> >>

(* An account of six in two coins, one of each margin mode; limits that    *)
(* one price move or one hour of funding can reach.                        *)
Leverages == [c \in Coins |-> 4]
----------------------------------------------------------------------------
(* A part that does not move is in one of its initial states.              *)
BooksInit ==
    /\ subject \in Subjects
    /\ Init /\ PaperInit
    /\ RiskInit /\ \A c \in Coins : price[c] = 4
    /\ PerfInit /\ (subject # "performance" => cashFlows = {})

BooksNext ==
    \/ /\ subject = "ledger" /\ Next
       /\ UNCHANGED <<subject, paperVars, riskVars, perfVars>>
    \/ /\ subject = "paper" /\ PaperNext
       /\ UNCHANGED <<subject, ledgerVars, riskVars, perfVars>>
    \/ /\ subject = "risk" /\ RiskNext
       /\ UNCHANGED <<subject, ledgerVars, paperVars, perfVars>>
    \/ /\ subject = "performance" /\ PerfNext
       /\ UNCHANGED <<subject, ledgerVars, paperVars, riskVars>>

BooksSpec == BooksInit /\ [][BooksNext]_bookVars
----------------------------------------------------------------------------
(* Each part's variables have their types. *)
BooksTyped == TypeOK /\ PaperTypeOK /\ RiskTypeOK /\ PerfTypeOK
============================================================================
