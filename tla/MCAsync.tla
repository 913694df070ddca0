------------------------------ MODULE MCAsync ------------------------------
(***************************************************************************)
(* Instances of Async for TLC.                                             *)
(***************************************************************************)
EXTENDS Async, TLC

CONSTANTS ann, bob, c1, c2, op1, open, review, t1, t2

TwoAgents == (c1 :> ann) @@ (c2 :> bob)
=============================================================================
