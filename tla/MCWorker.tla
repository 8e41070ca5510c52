------------------------------ MODULE MCWorker ------------------------------
(***************************************************************************)
(* Two workers, one row of the queue and one delivery (MCWorker.cfg), and  *)
(* the claim by itself (MCClaims.cfg).                                     *)
(***************************************************************************)
EXTENDS Worker
=============================================================================
