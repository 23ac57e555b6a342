--------------------------- MODULE MCWorkerLease ---------------------------
(***************************************************************************)
(* An instance of WorkerLease for TLC: two trading workers, as during a    *)
(* handover.                                                               *)
(***************************************************************************)
EXTENDS WorkerLease, TLC

CONSTANTS w1, w2, trading, maintenance

MCHandover == w1 :> <<trading>> @@ w2 :> <<trading>>
=============================================================================
