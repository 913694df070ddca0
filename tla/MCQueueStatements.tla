------------------------- MODULE MCQueueStatements -------------------------
(***************************************************************************)
(* Instances of QueueStatements for TLC.                                   *)
(***************************************************************************)
EXTENDS QueueStatements, TLC

CONSTANTS ann, bob, w1, w2, w3, open, review, t1, t2

TwoAgents == (w1 :> ann) @@ (w2 :> bob)
=============================================================================
