------------------------------ MODULE MCBudget ------------------------------
(***************************************************************************)
(* Instances of Budget for TLC.                                            *)
(***************************************************************************)
EXTENDS Budget, TLC

CONSTANTS w1, w2

Lifetime == [limit |-> 1, window |-> None, policy |-> "refuse_claim"]
Higher == [limit |-> 2, window |-> None, policy |-> "freeze"]
Windowed == [limit |-> 1, window |-> 2, policy |-> "freeze"]
Soft == [limit |-> 0, window |-> None, policy |-> "soft"]
Zero == [limit |-> 0, window |-> None, policy |-> "refuse_claim"]

Several == {Lifetime, Higher, Windowed, Soft, Zero}
=============================================================================
