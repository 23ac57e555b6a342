---------------------------- MODULE MCPaperCopy ----------------------------
(***************************************************************************)
(* An instance of PaperCopy for TLC: source 1 opens long and turns its     *)
(* position around in one fill, source 2 opens short in the same coin.     *)
(***************************************************************************)
EXTENDS PaperCopy, TLC

opens(side) == [action |-> "open", side |-> side, pre |-> FALSE, whole |-> FALSE, tiny |-> FALSE]
Flip == <<[action |-> "flip_close", side |-> "long", pre |-> TRUE, whole |-> TRUE, tiny |-> FALSE],
          [action |-> "flip_open", side |-> "short", pre |-> FALSE, whole |-> FALSE, tiny |-> FALSE]>>
Fills == <<
    <<[parts |-> <<opens("long")>>, after |-> "long"], [parts |-> Flip, after |-> "short"]>>,
    <<[parts |-> <<opens("short")>>, after |-> "short"]>> >>
============================================================================
