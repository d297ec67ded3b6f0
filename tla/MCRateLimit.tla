---------------------------- MODULE MCRateLimit ----------------------------
(***************************************************************************)
(* An instance of RateLimit for the model checker: an int wide enough for  *)
(* the sums of the run, which the proofs assume as well.                   *)
(***************************************************************************)
EXTENDS RateLimit

ASSUME NoOverflow
=============================================================================
