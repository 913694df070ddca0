------------------------------ MODULE MCStream ------------------------------
(***************************************************************************)
(* Instances of Stream for TLC.                                            *)
(***************************************************************************)
EXTENDS Stream, TLC

CONSTANTS t1, t2, claim, fail
=============================================================================
