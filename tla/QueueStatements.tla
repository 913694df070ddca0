-------------------------- MODULE QueueStatements --------------------------
(***************************************************************************)
(* The transactions of queue.py one SQL statement at a time.               *)
(*                                                                         *)
(* SQLite is external and modelled by what queue.py relies on: one write   *)
(* lock per file; what the lock holder wrote is seen by nobody else until  *)
(* COMMIT, and is gone after ROLLBACK or the death of the process; a read  *)
(* outside a transaction sees the last commit.  claim takes the lock with  *)
(* BEGIN IMMEDIATE before its SELECT; _mark_* take it with their UPDATE,   *)
(* before which Python's sqlite3 issues the implicit BEGIN; post is a      *)
(* single INSERT.                                                          *)
(*                                                                         *)
(* The tables of Queue hold what is committed.  AtomicQueue says that the  *)
(* statements, interleaved and cut short in every way, add up to the       *)
(* atomic transactions of Queue.                                           *)
(***************************************************************************)
EXTENDS Queue

VARIABLES
  lock,   \* the worker that holds the write lock, or None
  draft,  \* the tables as the lock holder sees them
  at,     \* how far the transaction of each worker has got
  pick    \* the id each claim's SELECT returned

txn == <<lock, draft, at, pick>>
stmtVars == <<clock, db, proc, lock, draft, at, pick>>

Tables == [tasks |-> tasks, events |-> events, eventSeq |-> eventSeq, track |-> track]
NoDraft == [tasks |-> <<>>, events |-> {}, eventSeq |-> 0, track |-> <<>>]

StmtInit ==
  /\ Init
  /\ lock = None
  /\ draft = NoDraft
  /\ at = [w \in Workers |-> "none"]
  /\ pick = [w \in Workers |-> None]

Advance(w, here, there) == at[w] = here /\ at' = [at EXCEPT ![w] = there]

(* Leave the transaction, by COMMIT or ROLLBACK or because the process died. *)
Release(w) ==
  /\ lock' = IF lock = w THEN None ELSE lock
  /\ draft' = IF lock = w THEN NoDraft ELSE draft
  /\ at' = [at EXCEPT ![w] = "none"]
  /\ pick' = [pick EXCEPT ![w] = None]

(* The first write: take the lock unless it is held already. *)
WriteRow(w, t, row) ==
  /\ lock \in {None, w}
  /\ lock' = w
  /\ draft' = [Tables EXCEPT !.tasks = [tasks EXCEPT ![t] = row]]

WithEvent(t, kind, post, w) ==
  [draft EXCEPT !.eventSeq = @ + 1,
                !.events = @ \cup {[id |-> draft.eventSeq + 1, task |-> t,
                                    kind |-> kind, ts |-> proc[w].now,
                                    agent |-> AgentOf[w], post |-> post]}]

-----------------------------------------------------------------------------
(* claim *)

SelectInAutocommit(w) ==
  /\ proc[w].pc = "claim" /\ eventSeq < MaxEvents
  /\ Advance(w, "none", "begun")
  /\ UNCHANGED <<clock, db, proc, lock, draft, pick>>

BeginImmediate(w) ==
  /\ proc[w].pc = "claim" /\ eventSeq < MaxEvents
  /\ lock = None /\ lock' = w
  /\ Advance(w, "none", "begun")
  /\ UNCHANGED <<clock, db, proc, draft, pick>>

ClaimSelect(w) ==
  /\ Advance(w, "begun", "selected")
  /\ \E t \in First(Eligible(AgentOf[w], proc[w].now)) : pick' = [pick EXCEPT ![w] = t]
  /\ UNCHANGED <<clock, db, proc, lock, draft>>

NoneWithoutRollback(w) ==
  /\ Advance(w, "begun", "none")
  /\ ClaimNone(w)
  /\ UNCHANGED <<lock, draft, pick>>

ClaimSelectNone(w) ==
  /\ at[w] = "begun"
  /\ ClaimNone(w)
  /\ Release(w)

(* UPDATE ... WHERE id = ? AND status = 'queued'; rowcount 0: ROLLBACK, None *)
ClaimUpdate(w) ==
  LET t == pick[w] IN
  /\ at[w] = "selected"
  /\ IF tasks[t].status = "queued"
       THEN /\ Advance(w, "selected", "updated")
            /\ WriteRow(w, t, Claimed(tasks[t], AgentOf[w], proc[w].now))
            /\ UNCHANGED <<proc, pick>>
       ELSE /\ Release(w)
            /\ proc' = [proc EXCEPT ![w] = Idle]
  /\ UNCHANGED <<clock, db>>

ClaimLog(w) ==
  /\ proc[w].pc = "claim"
  /\ Advance(w, "updated", "written")
  /\ draft' = WithEvent(pick[w], "claim", None, w)
  /\ UNCHANGED <<clock, db, proc, lock, pick>>

-----------------------------------------------------------------------------
(* _mark_complete, _mark_fail, _mark_decline *)

SettleUpdate(w) ==
  LET p == proc[w] IN
  /\ p.pc \in SettleKinds
  /\ Advance(w, "none", "updated")
  /\ WriteRow(w, p.task, Settled(tasks[p.task], p.pc, p.now, p.verdict))
  /\ UNCHANGED <<clock, db, proc, pick>>

SettleLog(w) ==
  LET p == proc[w] IN
  /\ p.pc \in SettleKinds
  /\ Advance(w, "updated", "logged")
  /\ draft.tasks[p.task].status # "absent"       \* foreign key
  /\ draft' = WithEvent(p.task, p.pc, p.verdict, w)
  /\ UNCHANGED <<clock, db, proc, lock, pick>>

SettleCredit(w) ==
  LET key == <<AgentOf[w], draft.tasks[proc[w].task].sig, proc[w].pc>> IN
  /\ Advance(w, "logged", "written")
  /\ draft' = [draft EXCEPT !.track = [draft.track EXCEPT ![key] = @ + 1]]
  /\ UNCHANGED <<clock, db, proc, lock, pick>>

-----------------------------------------------------------------------------
Commit(w) ==
  /\ at[w] = "written"
  /\ tasks' = draft.tasks /\ events' = draft.events
  /\ eventSeq' = draft.eventSeq /\ track' = draft.track
  /\ proc' = [proc EXCEPT ![w] =
       IF proc[w].pc = "claim" THEN Working(pick[w]) ELSE Idle]
  /\ Release(w)
  /\ UNCHANGED clock

Abort(w) == TxnError(w) /\ Release(w)
Die(w) == Crash(w) /\ Release(w)

TimeoutWithoutWaiting(w) == at[w] = "none" /\ lock = None /\ Abort(w)

(* Waiting for the lock ends after sqlite3.connect's default of 5 seconds. *)
BusyTimeout(w) == at[w] = "none" /\ Abort(w)

Statement(w) ==
  \/ BeginImmediate(w) \/ ClaimSelect(w) \/ ClaimSelectNone(w)
  \/ ClaimUpdate(w) \/ ClaimLog(w)
  \/ SettleUpdate(w) \/ SettleLog(w) \/ SettleCredit(w)
  \/ Commit(w)

StmtNext ==
  \/ (Tick \/ (lock = None /\ Posting)) /\ UNCHANGED txn
  \/ \E w \in Workers :
       \/ ClaimCall(w) /\ UNCHANGED txn
       \/ \E kind \in SettleKinds : SettleCall(w, kind) /\ UNCHANGED txn
       \/ Statement(w) \/ Abort(w) \/ Die(w)

StmtSpec == StmtInit /\ [][StmtNext]_stmtVars

(* A process in a transaction waits for nothing but the lock, and for that *)
(* no longer than the busy timeout.  It need not call again.               *)
FairStmtSpec ==
  StmtSpec /\ \A w \in Workers : WF_stmtVars(Statement(w) \/ BusyTimeout(w))

-----------------------------------------------------------------------------
(* Half a transaction is never seen: every behaviour of the statements is  *)
(* a behaviour of the atomic queue on the committed tables.                *)
AtomicQueue == Spec

(* No path through the code walks away with the write lock: whoever takes  *)
(* it gives it back, without waiting for its next call.                    *)
LockReleased == \A w \in Workers : lock = w ~> lock # w

(* Every call comes back, with an answer or an error. *)
CallsReturn ==
  \A w \in Workers :
    proc[w].pc \in {"claim"} \cup SettleKinds
      ~> proc[w].pc \notin {"claim"} \cup SettleKinds

(* Work goes on: from some time on no transaction raises and no process    *)
(* dies, every worker goes on calling, and whoever asks for the write lock *)
(* again and again gets it in the end.                                     *)
Fault == \E w \in Workers : (Abort(w) \/ Die(w)) /\ ~Statement(w)
Call(w) == (ClaimCall(w) \/ \E kind \in SettleKinds : SettleCall(w, kind)) /\ UNCHANGED txn

WorkGoesOn ==
  /\ <>[][~Fault]_stmtVars
  /\ \A w \in Workers : WF_stmtVars(Call(w)) /\ SF_stmtVars(BeginImmediate(w) \/ SettleUpdate(w))

(* A task that a worker may claim, and that ranks above all others it may  *)
Ready(t, w) == tasks[t].status = "queued" /\ Routed(t, AgentOf[w], clock)
Foremost(t, w) ==
  /\ Ready(t, w)
  /\ \A u \in Tasks \ {t} :
       \/ ~Ready(u, w) \/ tasks[u].priority < tasks[t].priority
       \/ tasks[u].priority = tasks[t].priority /\ tasks[u].createdAt > tasks[t].createdAt

(* "Returns None when no claimable task exists", and not otherwise: while  *)
(* work goes on, the foremost task of a worker is not passed over for      *)
(* ever, however often it was claimed, declined or failed before.  A task  *)
(* that ranks below another may starve: the other, declined, returns to    *)
(* the head of the queue each time.                                        *)
ForemostIsClaimed ==
  WorkGoesOn =>
    \A t \in Tasks, w \in Workers :
      Foremost(t, w) ~> (~Foremost(t, w) \/ eventSeq >= MaxEvents)
=============================================================================
