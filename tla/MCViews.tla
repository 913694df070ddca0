------------------------------ MODULE MCViews ------------------------------
(***************************************************************************)
(* Instances of Views for TLC.                                             *)
(***************************************************************************)
EXTENDS Views, TLC

CONSTANTS ann, bob, w1, op1, c1, c2, open, t1, t2, t3

OneWorker == (w1 :> ann)

Symmetry == Permutations(Tasks) \cup Permutations(Clerks)
=============================================================================
