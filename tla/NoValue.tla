------------------------------ MODULE NoValue ------------------------------
(***************************************************************************)
(* The missing value (NULL, undefined) of the modules that are composed.   *)
(***************************************************************************)
CONSTANT None
=============================================================================
