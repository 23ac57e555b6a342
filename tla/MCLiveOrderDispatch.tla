------------------------ MODULE MCLiveOrderDispatch ------------------------
(***************************************************************************)
(* Instances of LiveOrderDispatch for TLC.                                 *)
(***************************************************************************)
EXTENDS LiveOrderDispatch, TLC

Symmetry == Permutations(Workers)
=============================================================================
