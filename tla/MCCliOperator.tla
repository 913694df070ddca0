--------------------------- MODULE MCCliOperator ---------------------------
(***************************************************************************)
(* Instances of CliOperator for TLC.                                       *)
(***************************************************************************)
EXTENDS CliOperator, TLC

CONSTANTS ann, bob, w1, w2, w3, op1, open, review, t1, t2

TwoAgents == (w1 :> ann) @@ (w2 :> bob)

Symmetry == Permutations(Tasks)
=============================================================================
