------------------------------ MODULE MCClaim ------------------------------
(***************************************************************************)
(* The model TLC checks Claim on: the instances and the bounds are in the  *)
(* configurations.                                                         *)
(***************************************************************************)
EXTENDS Claim
=============================================================================
