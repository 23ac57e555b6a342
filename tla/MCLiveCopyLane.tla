--------------------------- MODULE MCLiveCopyLane ---------------------------
(***************************************************************************)
(* Instances of LiveCopyLane for TLC.                                      *)
(***************************************************************************)
EXTENDS LiveCopyLane

Part(a, s) == [action |-> a, side |-> s]

\* The source opens and closes.
MCOpenClose == <<<<Part("open", "long")>>, <<Part("close", "long")>>>>

\* The source opens and turns its position around in one fill.
MCFlip == <<<<Part("open", "long")>>, <<Part("flip_close", "long"), Part("flip_open", "short")>>>>
=============================================================================
