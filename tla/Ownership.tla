----------------------------- MODULE Ownership -----------------------------
(***************************************************************************)
(* What the queue promises ("exactly one wins each task"), without saying  *)
(* how: a task is granted to one worker at a time, only that worker        *)
(* returns or closes it, a closed task stays closed, and a task whose      *)
(* owner is gone stays claimed for good.  Queue implements this module.    *)
(***************************************************************************)
CONSTANTS Tasks, Workers, None

VARIABLES
  phase,  \* "absent", "queued", "claimed", "done" or "failed"
  owner   \* the worker at work on each task, or None

Init ==
  /\ phase = [t \in Tasks |-> "absent"]
  /\ owner = [t \in Tasks |-> None]

Become(t, p, w) ==
  /\ phase' = [phase EXCEPT ![t] = p]
  /\ owner' = [owner EXCEPT ![t] = w]

Appear(t) == phase[t] = "absent" /\ Become(t, "queued", None)

Grant(t, w) ==
  /\ phase[t] = "queued"
  /\ \A u \in Tasks : owner[u] # w
  /\ Become(t, "claimed", w)

Return(t) == owner[t] # None /\ Become(t, "queued", None)
Close(t, p) == owner[t] # None /\ Become(t, p, None)
Abandon(t) == owner[t] # None /\ Become(t, "claimed", None)

Next ==
  \E t \in Tasks :
    \/ Appear(t)
    \/ \E w \in Workers : Grant(t, w)
    \/ Return(t)
    \/ \E p \in {"done", "failed"} : Close(t, p)
    \/ Abandon(t)

Spec == Init /\ [][Next]_<<phase, owner>>
=============================================================================
