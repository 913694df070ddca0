---------------------------- MODULE CliOperator ----------------------------
(***************************************************************************)
(* The command line of bounty_board/_cli.py beside the workers of Queue:   *)
(* "bounty-board complete|fail|decline --task T --agent A" settles any     *)
(* existing task in any status, in the name of any agent.  Each invocation *)
(* is a process: it looks the task up, reads the clock (and, for fail, the *)
(* attempts), then runs the same transaction as a Task handle.  "post" and *)
(* "claim" call Queue.post and Queue.claim: a "claim" process is a worker  *)
(* of Queue that exits (Crash) with its task claimed, and the "complete"   *)
(* that follows is an operator here.                                       *)
(***************************************************************************)
EXTENDS Queue

CONSTANT Operators   \* command-line processes running at a time

VARIABLE cli         \* the settling command each operator runs

cliVars == <<clock, db, proc, cli>>

NoCommand == [pc |-> "idle", task |-> None, agent |-> None, sig |-> None,
              now |-> 0, verdict |-> None]

CliInit == Init /\ cli = [o \in Operators |-> NoCommand]

(* _resolve_signature_for finds the row (else the command exits 1), then   *)
(* _mark_* reads the clock and _mark_fail the attempts.                    *)
CommandCall(o, kind, t, a) ==
  /\ cli[o].pc = "idle"
  /\ eventSeq < MaxEvents
  /\ Exists(t)
  /\ cli' = [cli EXCEPT ![o] =
       [pc |-> kind, task |-> t, agent |-> a, sig |-> tasks[t].sig, now |-> clock,
        verdict |-> IF kind = "fail" THEN Verdict(t) ELSE None]]
  /\ UNCHANGED <<clock, db, proc>>

CommandTxn(o) ==
  LET c == cli[o] IN
  /\ c.pc # "idle"
  /\ Settle(c.task, c.agent, c.sig, c.pc, c.now, c.verdict)
  /\ cli' = [cli EXCEPT ![o] = NoCommand]
  /\ UNCHANGED <<clock, proc>>

(* The transaction raised, or the process was killed: nothing is written. *)
CommandLost(o) ==
  /\ cli[o].pc # "idle"
  /\ cli' = [cli EXCEPT ![o] = NoCommand]
  /\ UNCHANGED <<clock, db, proc>>

OperatorStep(o) ==
  \/ \E kind \in SettleKinds, t \in Tasks, a \in Agents : CommandCall(o, kind, t, a)
  \/ CommandTxn(o)
  \/ CommandLost(o)

CliNext ==
  \/ Next /\ UNCHANGED cli
  \/ \E o \in Operators : OperatorStep(o)

CliSpec == CliInit /\ [][CliNext]_cliVars

(* "If attempts < max_attempts, the task returns to queued [...] Otherwise *)
(* it stays in failed": what a fail does to the row agrees with the row it *)
(* is applied to.                                                          *)
FailFollowsAttempts ==
  [][\A e \in events' \ events : e.kind = "fail" => e.post = Verdict(e.task)]_cliVars
=============================================================================
