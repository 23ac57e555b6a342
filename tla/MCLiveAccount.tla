--------------------------- MODULE MCLiveAccount ---------------------------
(***************************************************************************)
(* An instance of LiveAccount for TLC; requests and coins are alike.       *)
(***************************************************************************)
EXTENDS LiveAccount, TLC

Symmetry == Permutations(Tasks) \cup Permutations(Coins)
============================================================================
