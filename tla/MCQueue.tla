------------------------------ MODULE MCQueue ------------------------------
(***************************************************************************)
(* Instances of Queue for TLC.                                             *)
(***************************************************************************)
EXTENDS Queue, TLC

CONSTANTS ann, bob, w1, w2, w3, open, review, t1, t2

(* One process per agent. *)
TwoAgents == (w1 :> ann) @@ (w2 :> bob)

(* Two processes share an agent_id, a third has its own. *)
ThreeWorkers == TwoAgents @@ (w3 :> ann)

Symmetry == Permutations(Tasks)
=============================================================================
