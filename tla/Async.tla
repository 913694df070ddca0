------------------------------- MODULE Async -------------------------------
(***************************************************************************)
(* The async shell of aio.py: the workers of Queue are coroutines on one   *)
(* event loop, and their calls are jobs for the one thread that owns the   *)
(* connection, first come first served.  Command lines of other processes  *)
(* (CliOperator) run beside them.                                          *)
(*                                                                         *)
(* A coroutine that awaits a job can be cancelled (asyncio.wait_for does   *)
(* so on a timeout).  A job that has not started may then be taken out of  *)
(* the queue, unless the thread is faster; a job that runs is never        *)
(* stopped, and nobody hears its result.  A settler that was cancelled     *)
(* still has its AsyncTask and may settle again, as after an exception.    *)
(*                                                                         *)
(* close runs as a job too, then waits in ThreadPoolExecutor.shutdown,     *)
(* which blocks the loop, until the thread has worked off its queue.       *)
(***************************************************************************)
EXTENDS CliOperator, Sequences, SequencesExt

VARIABLES
  jobs,    \* the executor's queue: [co, kind, task, heard]
  thread,  \* the job that runs, with what it read first; of kind "idle" if none
  waiting, \* the coroutines that await a job
  closer,  \* how far close() has got
  opened,  \* the connection is open
  stray    \* history: a call was cancelled, or an operator came in between

async == <<jobs, thread, waiting, closer, opened>>
asyncVars == <<clock, db, proc, cli, async, stray>>

CloseJob == [co |-> None, kind |-> "close", task |-> None, heard |-> TRUE]
NoJob == [co |-> None, kind |-> "idle", task |-> None, heard |-> FALSE, now |-> 0,
          verdict |-> None]

AsyncInit ==
  /\ CliInit
  /\ jobs = <<>> /\ thread = NoJob /\ waiting = {}
  /\ closer = "none" /\ opened = TRUE
  /\ stray = FALSE

-----------------------------------------------------------------------------
(* On the event loop *)

LoopRuns == closer # "shutdown"

(* run_in_executor; it raises once the executor is shut down *)
Submit(c, kind) ==
  /\ LoopRuns /\ closer # "closed"
  /\ c \notin waiting
  /\ proc[c].pc = IF kind = "claim" THEN "idle" ELSE "working"
  /\ eventSeq + Len(jobs) < MaxEvents
  /\ jobs' = Append(jobs, [co |-> c, kind |-> kind, task |-> proc[c].task, heard |-> TRUE])
  /\ waiting' = waiting \cup {c}
  /\ UNCHANGED <<clock, db, proc, cli, thread, closer, opened, stray>>

IsCallOf(job, c) == job.co = c /\ job.heard

Unheard(job, c) == IF IsCallOf(job, c) THEN [job EXCEPT !.heard = FALSE] ELSE job

(* Task.cancel, or a timeout, strikes the coroutine at its await. *)
Cancel(c) ==
  /\ LoopRuns /\ c \in waiting
  /\ waiting' = waiting \ {c}
  /\ \/ /\ \E i \in DOMAIN jobs : IsCallOf(jobs[i], c) /\ jobs' = RemoveAt(jobs, i)
        /\ UNCHANGED thread
     \/ /\ jobs' = [i \in DOMAIN jobs |-> Unheard(jobs[i], c)]
        /\ thread' = Unheard(thread, c)
  /\ stray' = TRUE
  /\ UNCHANGED <<clock, db, proc, cli, closer, opened>>

CloseCall ==
  /\ closer = "none"
  /\ closer' = "awaiting"
  /\ jobs' = Append(jobs, CloseJob)
  /\ UNCHANGED <<clock, db, proc, cli, thread, waiting, opened, stray>>

(* _closed is set: return at once *)
CloseAgain ==
  /\ closer # "none" /\ LoopRuns
  /\ UNCHANGED asyncVars

(* A close that is cancelled is never taken up again. *)
CancelClose ==
  /\ closer = "awaiting"
  /\ closer' = "cancelled"
  /\ \/ UNCHANGED jobs
     \/ \E i \in DOMAIN jobs : jobs[i].kind = "close" /\ jobs' = RemoveAt(jobs, i)
  /\ stray' = TRUE
  /\ UNCHANGED <<clock, db, proc, cli, thread, waiting, opened>>

(* The close job is done: executor.shutdown(wait=True) *)
BeginShutdown ==
  /\ closer = "awaiting" /\ ~opened
  /\ closer' = "shutdown"
  /\ UNCHANGED <<clock, db, proc, cli, jobs, thread, waiting, opened, stray>>

ShutdownWithoutWait ==
  /\ closer = "shutdown"
  /\ closer' = "closed"
  /\ UNCHANGED <<clock, db, proc, cli, jobs, thread, waiting, opened, stray>>

EndShutdown ==
  /\ closer = "shutdown" /\ jobs = <<>> /\ thread.kind = "idle"
  /\ closer' = "closed"
  /\ UNCHANGED <<clock, db, proc, cli, jobs, thread, waiting, opened, stray>>

-----------------------------------------------------------------------------
(* On the thread *)

(* The next job reads the clock, and _mark_fail the row. *)
Begun(job) ==
  [co |-> job.co, kind |-> job.kind, task |-> job.task, heard |-> job.heard, now |-> clock,
   verdict |-> IF job.kind = "fail" THEN Verdict(job.task) ELSE None]

StartWhileOpen ==
  /\ thread.kind = "idle" /\ jobs # <<>> /\ opened
  /\ thread' = Begun(Head(jobs))
  /\ jobs' = Tail(jobs)
  /\ UNCHANGED <<clock, db, proc, cli, waiting, closer, opened, stray>>

Start ==
  /\ thread.kind = "idle" /\ jobs # <<>>
  /\ thread' = Begun(Head(jobs))
  /\ jobs' = Tail(jobs)
  /\ UNCHANGED <<clock, db, proc, cli, waiting, closer, opened, stray>>

(* The thread is free, and who still awaits the job goes on. *)
Return(handle) ==
  /\ thread' = NoJob
  /\ IF thread.heard
       THEN /\ waiting' = waiting \ {thread.co}
            /\ proc' = [proc EXCEPT ![thread.co] = handle]
       ELSE UNCHANGED <<waiting, proc>>

RunClaim(t) ==
  LET a == AgentOf[thread.co] IN
  /\ thread.kind = "claim" /\ opened
  /\ t \in First(Eligible(a, thread.now))
  /\ tasks' = [tasks EXCEPT ![t] = Claimed(@, a, thread.now)]
  /\ Log(t, "claim", thread.now, a, None)
  /\ Return(Working(t))
  /\ UNCHANGED track

RunClaimNone ==
  /\ thread.kind = "claim" /\ opened
  /\ Eligible(AgentOf[thread.co], thread.now) = {}
  /\ Return(Idle)
  /\ UNCHANGED db

RunSettle ==
  /\ thread.kind \in SettleKinds /\ opened
  /\ Settle(thread.task, AgentOf[thread.co], tasks[thread.task].sig,
            thread.kind, thread.now, thread.verdict)
  /\ Return(Idle)

RunRaisesDroppingHandle ==
  /\ thread.kind # "close"
  /\ Return(Idle)
  /\ UNCHANGED db

(* The transaction raised, or the connection is closed: ProgrammingError *)
RunRaises ==
  /\ thread.kind # "close"
  /\ Return(proc[thread.co])
  /\ UNCHANGED db

(* Queue.close *)
RunClose ==
  /\ thread.kind = "close"
  /\ opened' = FALSE
  /\ thread' = NoJob
  /\ UNCHANGED <<db, proc, waiting>>

Finish ==
  /\ thread.kind # "idle"
  /\ \/ /\ \/ \E t \in Tasks : RunClaim(t)
           \/ RunClaimNone \/ RunSettle \/ RunRaises
        /\ UNCHANGED opened
     \/ RunClose
  /\ UNCHANGED <<clock, cli, jobs, closer, stray>>

-----------------------------------------------------------------------------
Loop ==
  \/ \E c \in Workers : Cancel(c) \/ \E kind \in {"claim"} \cup SettleKinds : Submit(c, kind)
  \/ CloseCall \/ CloseAgain \/ CancelClose \/ BeginShutdown \/ EndShutdown

Others ==
  /\ \/ (Tick \/ Posting) /\ UNCHANGED <<cli, stray>>
     \/ (\E o \in Operators : OperatorStep(o)) /\ stray' = TRUE
  /\ UNCHANGED async

AsyncNext == Loop \/ Start \/ Finish \/ Others

(* The thread works, and the loop takes up close again. *)
AsyncSpec ==
  /\ AsyncInit /\ [][AsyncNext]_asyncVars
  /\ WF_asyncVars(Start) /\ WF_asyncVars(Finish)
  /\ WF_asyncVars(BeginShutdown) /\ WF_asyncVars(EndShutdown)

-----------------------------------------------------------------------------
(* "Semantics are identical": as long as no call is cancelled (and nobody  *)
(* uses the command line), claims and releases alternate, and a claimed    *)
(* task has exactly one coroutine to settle it, also around a close.       *)
SyncUnlessCancelled ==
  ~stray =>
    /\ LedgerAlternates
    /\ \A t \in Tasks : tasks[t].status = "claimed"
         => Cardinality({c \in Workers : Holds(c, t)}) = 1

(* close returns to its caller when the connection is closed and every     *)
(* call, also those submitted while it was closing, has been answered.     *)
CloseAnswersAll == closer = "closed" => ~opened /\ waiting = {}

(* Every call comes back or is cancelled, and so does close: no coroutine  *)
(* waits for a thread that is gone.                                        *)
AwaitsEnd ==
  /\ \A c \in Workers : c \in waiting ~> c \notin waiting
  /\ closer = "awaiting" ~> closer \in {"closed", "cancelled"}
=============================================================================
