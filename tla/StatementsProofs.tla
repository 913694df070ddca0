-------------------------- MODULE StatementsProofs --------------------------
(***************************************************************************)
(* The statements of QueueStatements implement the atomic transactions of  *)
(* Queue: AtomicQueue holds for any number of workers and tasks.           *)
(***************************************************************************)
EXTENDS QueueStatements, QueueProofs

Stages == {"none", "begun", "selected", "updated", "logged", "written"}

TxnTypes ==
  /\ lock \in Workers \cup {None}
  /\ at \in [Workers -> Stages]
  /\ pick \in [Workers -> Tasks \cup {None}]

(* The row that the UPDATE of w leaves *)
Target(w) == IF proc[w].pc = "claim" THEN pick[w] ELSE proc[w].task
Written(w) ==
  IF proc[w].pc = "claim" THEN Claimed(tasks[pick[w]], AgentOf[w], proc[w].now)
  ELSE Settled(tasks[proc[w].task], proc[w].pc, proc[w].now, proc[w].verdict)

UpdateOf(w) == [tasks EXCEPT ![Target(w)] = Written(w)]
EventOf(w) ==
  [id |-> eventSeq + 1, task |-> Target(w), kind |-> proc[w].pc, ts |-> proc[w].now,
   agent |-> AgentOf[w], post |-> IF proc[w].pc = "claim" THEN None ELSE proc[w].verdict]
CreditOf(w) ==
  [track EXCEPT ![<<AgentOf[w], tasks[proc[w].task].sig, proc[w].pc>>] = @ + 1]

(* The draft is the committed tables and what the statements so far did.   *)
DraftAt(w) ==
  CASE at[w] = "updated" ->
         [tasks |-> UpdateOf(w), events |-> events, eventSeq |-> eventSeq, track |-> track]
    [] at[w] = "logged" \/ (at[w] = "written" /\ proc[w].pc = "claim") ->
         [tasks |-> UpdateOf(w), events |-> events \cup {EventOf(w)},
          eventSeq |-> eventSeq + 1, track |-> track]
    [] at[w] = "written" /\ proc[w].pc # "claim" ->
         [tasks |-> UpdateOf(w), events |-> events \cup {EventOf(w)},
          eventSeq |-> eventSeq + 1, track |-> CreditOf(w)]
    [] OTHER -> draft

(* Where a worker is in its transaction: it holds the lock from its first  *)
(* statement on, and what its SELECT chose still ranks first.              *)
StageOK(w) ==
  /\ at[w] = "none" <=> lock # w
  /\ at[w] # "none" => proc[w].pc \in {"claim"} \cup SettleKinds
  /\ at[w] \in {"begun", "selected"} => proc[w].pc = "claim"
  /\ at[w] = "logged" => proc[w].pc \in SettleKinds
  /\ at[w] # "none" /\ proc[w].pc = "claim" => eventSeq < MaxEvents
  /\ at[w] \in {"selected", "updated", "written"} /\ proc[w].pc = "claim" =>
       pick[w] \in First(Eligible(AgentOf[w], proc[w].now))
  /\ draft = DraftAt(w)

StmtInv == ClaimInv /\ TxnTypes /\ \A w \in Workers : StageOK(w)

LEMMA InitStmt == StmtInit => StmtInv
  <1> SUFFICES ASSUME StmtInit PROVE StmtInv
    OBVIOUS
  <1>1. ClaimInv /\ TxnTypes
    BY InitClaims DEF StmtInit, TxnTypes, Stages
  <1>2. ASSUME NEW w \in Workers PROVE StageOK(w)
    <2>1. at[w] = "none" /\ lock # w
      BY AgentsAssumption DEF StmtInit
    <2> QED BY <2>1 DEF StageOK, DraftAt
  <1> QED BY <1>1, <1>2 DEF StmtInv

-----------------------------------------------------------------------------
(* Every step of a statement is a step of Queue, or none. *)

(* The row a transaction is about exists, and its claim may take it. *)
LEMMA TargetExists ==
  ASSUME StmtInv, NEW w \in Workers, proc[w].pc \in SettleKinds
  PROVE  proc[w].task \in Tasks /\ Exists(proc[w].task) /\ tasks[proc[w].task] \in Row
  <1>1. proc[w].task \in Tasks
    BY DEF StmtInv, ClaimInv, TypeInv, TypeOK, HandleShape, Proc
  <1>2. tasks[proc[w].task].status = "claimed"
    BY <1>1 DEF StmtInv, ClaimInv, ExclusiveClaims, Holds
  <1> QED BY <1>1, <1>2 DEF Exists, StmtInv, ClaimInv, TypeInv, TypeOK

LEMMA CommitIsTxn ==
  ASSUME StmtInv, NEW w \in Workers, Commit(w)
  PROVE  \/ \E t \in Tasks : ClaimTxn(w, t)
         \/ \E kind \in SettleKinds : SettleTxn(w, kind)
  <1>1. at[w] = "written" /\ StageOK(w)
    BY DEF Commit, StmtInv
  <1>2. CASE proc[w].pc = "claim"
    <2>1. PICK t : t = pick[w]
      OBVIOUS
    <2>2. t \in Tasks /\ t \in First(Eligible(AgentOf[w], proc[w].now)) /\ eventSeq < MaxEvents
      BY <1>1, <1>2, <2>1 DEF StageOK, First, Eligible
    <2>3. draft = [tasks |-> UpdateOf(w), events |-> events \cup {EventOf(w)},
                   eventSeq |-> eventSeq + 1, track |-> track]
      BY <1>1, <1>2 DEF StageOK, DraftAt
    <2>4. /\ tasks' = [tasks EXCEPT ![t] = Claimed(tasks[t], AgentOf[w], proc[w].now)]
          /\ track' = track
      BY <1>2, <2>1, <2>3 DEF Commit, UpdateOf, Target, Written
    <2>5. Log(t, "claim", proc[w].now, AgentOf[w], None)
      BY <1>2, <2>1, <2>3 DEF Commit, EventOf, Target, Log
    <2>6. proc' = [proc EXCEPT ![w] = Working(t)] /\ UNCHANGED clock
      BY <1>2, <2>1 DEF Commit
    <2> QED BY <1>2, <2>2, <2>4, <2>5, <2>6 DEF ClaimTxn
  <1>3. CASE proc[w].pc # "claim"
    <2>1. PICK t, kind, now, verdict : /\ t = proc[w].task /\ kind = proc[w].pc
                                       /\ now = proc[w].now /\ verdict = proc[w].verdict
      OBVIOUS
    <2>2. kind \in SettleKinds /\ t \in Tasks /\ Exists(t)
      BY <1>1, <1>3, <2>1, TargetExists DEF StageOK
    <2>3. draft = [tasks |-> UpdateOf(w), events |-> events \cup {EventOf(w)},
                   eventSeq |-> eventSeq + 1, track |-> CreditOf(w)]
      BY <1>1, <1>3 DEF StageOK, DraftAt
    <2>4. tasks' = [tasks EXCEPT ![t] = Settled(tasks[t], kind, now, verdict)]
      BY <1>3, <2>1, <2>3 DEF Commit, UpdateOf, Target, Written
    <2>5. Log(t, kind, now, AgentOf[w], verdict)
      BY <1>3, <2>1, <2>3 DEF Commit, EventOf, Target, Log
    <2>6. Credit(AgentOf[w], tasks[t].sig, kind)
      BY <2>1, <2>3 DEF Commit, CreditOf, Credit
    <2>7. Settle(t, AgentOf[w], tasks[t].sig, kind, now, verdict)
      BY <2>2, <2>4, <2>5, <2>6 DEF Settle
    <2>8. proc' = [proc EXCEPT ![w] = Idle] /\ UNCHANGED clock
      BY <1>3 DEF Commit
    <2> QED BY <2>1, <2>2, <2>7, <2>8 DEF SettleTxn
  <1> QED BY <1>2, <1>3

(* The rowcount check of claim never fails: the SELECT held the lock. *)
LEMMA UpdateSucceeds ==
  ASSUME StmtInv, NEW w \in Workers, at[w] = "selected"
  PROVE  tasks[pick[w]].status = "queued"
  BY DEF StmtInv, StageOK, First, Eligible

LEMMA StatementIsStep ==
  ASSUME StmtInv, [StmtNext]_stmtVars PROVE [Next]_vars
  <1>1. CASE UNCHANGED stmtVars
    BY <1>1 DEF stmtVars, vars
  <1>2. CASE (Tick \/ (lock = None /\ Posting)) /\ UNCHANGED txn
    BY <1>2 DEF Next
  <1>3. ASSUME NEW w \in Workers, Statement(w) PROVE [Next]_vars
    <2>1. CASE \/ BeginImmediate(w) \/ ClaimSelect(w) \/ ClaimLog(w)
               \/ SettleUpdate(w) \/ SettleLog(w) \/ SettleCredit(w)
      BY <2>1 DEF BeginImmediate, ClaimSelect, ClaimLog, SettleUpdate, SettleLog,
         SettleCredit, vars
    <2>2. CASE ClaimSelectNone(w)
      BY <2>2 DEF ClaimSelectNone, Next, WorkerStep
    <2>3. CASE ClaimUpdate(w)
      BY <2>3, UpdateSucceeds DEF ClaimUpdate, vars
    <2>4. CASE Commit(w)
      BY <2>4, CommitIsTxn DEF Next, WorkerStep
    <2> QED BY <1>3, <2>1, <2>2, <2>3, <2>4 DEF Statement
  <1>4. ASSUME NEW w \in Workers,
               \/ ClaimCall(w) /\ UNCHANGED txn
               \/ \E kind \in SettleKinds : SettleCall(w, kind) /\ UNCHANGED txn
               \/ Abort(w) \/ Die(w)
        PROVE  Next
    BY <1>4 DEF Abort, Die, Next, WorkerStep
  <1> QED BY <1>1, <1>2, <1>3, <1>4 DEF StmtNext

-----------------------------------------------------------------------------
(* The invariant *)

LEMMA FirstKept ==
  ASSUME UNCHANGED <<tasks, track>>, NEW a, NEW now
  PROVE  First(Eligible(a, now))' = First(Eligible(a, now))
  BY DEF First, Eligible, Routed, Succeeded, Declined, RanksAtLeast

(* A worker out of its transaction may let others write; one in it, with   *)
(* the lock, sees the tables stand still.                                  *)
LEMMA StageKept ==
  ASSUME NEW v \in Workers, StageOK(v),
         proc'[v] = proc[v], at'[v] = at[v], pick'[v] = pick[v],
         \/ lock # v /\ lock' # v
         \/ lock' = lock /\ UNCHANGED <<tasks, events, eventSeq, track, draft>>
  PROVE  StageOK(v)'
  <1>1. CASE at[v] = "none"
    BY <1>1 DEF StageOK, DraftAt
  <1>2. CASE at[v] # "none"
    <2>1. lock' = lock /\ UNCHANGED <<tasks, events, eventSeq, track, draft>>
      BY <1>2 DEF StageOK
    <2>2. PICK a, now : a = AgentOf[v] /\ now = proc[v].now
      OBVIOUS
    <2>3. First(Eligible(a, now))' = First(Eligible(a, now))
      BY <2>1, FirstKept
    <2>4. DraftAt(v)' = DraftAt(v)
      BY <2>1 DEF DraftAt, UpdateOf, EventOf, CreditOf, Target, Written
    <2> QED BY <2>1, <2>2, <2>3, <2>4 DEF StageOK
  <1> QED BY <1>1, <1>2

CallOrFault(w) ==
  \/ ClaimCall(w) /\ UNCHANGED txn
  \/ \E kind \in SettleKinds : SettleCall(w, kind) /\ UNCHANGED txn
  \/ Abort(w) \/ Die(w)

LEMMA OthersKept ==
  ASSUME StmtInv, NEW w \in Workers, NEW v \in Workers, v # w,
         Statement(w) \/ CallOrFault(w)
  PROVE  StageOK(v)'
  <1>1. StageOK(v) /\ StageOK(w)
    BY DEF StmtInv
  <1>2. /\ proc \in [Workers -> Proc] /\ at \in [Workers -> Stages]
        /\ pick \in [Workers -> Tasks \cup {None}] /\ None \notin Workers
    BY AgentsAssumption DEF StmtInv, TxnTypes, ClaimInv, TypeInv, TypeOK
  <1> DEFINE Apart == /\ proc'[v] = proc[v] /\ at'[v] = at[v] /\ pick'[v] = pick[v]
                      /\ \/ lock # v /\ lock' # v
                         \/ lock' = lock /\ UNCHANGED <<tasks, events, eventSeq, track, draft>>
  <1>3. Release(w) => /\ at'[v] = at[v] /\ pick'[v] = pick[v]
                      /\ lock # v => lock' # v
                      /\ lock = v => lock' = v /\ draft' = draft
    BY <1>2 DEF Release
  <1>4. CASE ClaimSelectNone(w) \/ Abort(w) \/ Die(w)
    <2>1. UNCHANGED db /\ proc'[v] = proc[v] /\ Release(w)
      BY <1>2, <1>4 DEF ClaimSelectNone, Abort, Die, ClaimNone, TxnError, Crash
    <2>2. Apart
      BY <1>3, <2>1 DEF db
    <2> QED BY <1>1, <2>2, StageKept
  <1>5. CASE Commit(w)
    <2>1. lock = w
      BY <1>1, <1>5 DEF Commit, StageOK
    <2>2. proc'[v] = proc[v] /\ Release(w)
      BY <1>2, <1>5 DEF Commit
    <2> QED BY <1>1, <1>3, <2>1, <2>2, StageKept
  <1>6. CASE ClaimUpdate(w)
    <2>1. WriteRow(w, pick[w], Claimed(tasks[pick[w]], AgentOf[w], proc[w].now))
          /\ Advance(w, "selected", "updated") /\ UNCHANGED <<proc, pick>>
      BY <1>6, UpdateSucceeds DEF ClaimUpdate
    <2>2. lock # v /\ lock' # v
      BY <1>2, <2>1 DEF WriteRow
    <2> QED BY <1>1, <1>2, <2>1, <2>2, StageKept DEF Advance
  <1>7. CASE BeginImmediate(w) \/ ClaimSelect(w)
    <2>1. Apart
      BY <1>2, <1>7 DEF BeginImmediate, ClaimSelect, Advance, db
    <2> QED BY <1>1, <2>1, StageKept
  <1>8. CASE SettleUpdate(w)
    <2>1. Apart
      BY <1>2, <1>8 DEF SettleUpdate, Advance, WriteRow
    <2> QED BY <1>1, <2>1, StageKept
  <1>9. CASE ClaimLog(w) \/ SettleLog(w) \/ SettleCredit(w)
    <2>1. lock = w /\ lock' = lock
      BY <1>1, <1>9 DEF ClaimLog, SettleLog, SettleCredit, Advance, StageOK
    <2>2. Apart
      BY <1>2, <1>9, <2>1 DEF ClaimLog, SettleLog, SettleCredit, Advance
    <2> QED BY <1>1, <2>2, StageKept
  <1>10. CASE \/ ClaimCall(w) /\ UNCHANGED txn
              \/ \E kind \in SettleKinds : SettleCall(w, kind) /\ UNCHANGED txn
    <2>1. Apart
      BY <1>2, <1>10 DEF ClaimCall, SettleCall, Calling, txn, db
    <2> QED BY <1>1, <2>1, StageKept
  <1> QED BY <1>4, <1>5, <1>6, <1>7, <1>8, <1>9, <1>10 DEF Statement, CallOrFault

(* Back outside the transaction *)
LEMMA Left ==
  ASSUME StmtInv, NEW w \in Workers, Release(w) PROVE TxnTypes' /\ StageOK(w)'
  <1>1. /\ lock' \in Workers \cup {None} /\ lock' # w
        /\ at' = [at EXCEPT ![w] = "none"] /\ pick' = [pick EXCEPT ![w] = None]
    BY AgentsAssumption DEF Release, StmtInv, TxnTypes
  <1>2. TxnTypes' /\ at'[w] = "none"
    BY <1>1 DEF StmtInv, TxnTypes, Stages
  <1> QED BY <1>1, <1>2 DEF StageOK, DraftAt

(* One statement further *)
LEMMA StatementStage ==
  ASSUME StmtInv, NEW w \in Workers, Statement(w) PROVE TxnTypes' /\ StageOK(w)'
  <1> DEFINE p == proc[w]
  <1>1. StageOK(w) /\ TxnTypes /\ p \in Proc
    BY DEF StmtInv, ClaimInv, TypeInv, TypeOK
  <1>2. \A there \in Stages : at' = [at EXCEPT ![w] = there]
          => at'[w] = there /\ at' \in [Workers -> Stages]
    BY <1>1 DEF TxnTypes
  <1>3. CASE Commit(w) \/ ClaimSelectNone(w)
    BY <1>3, Left DEF Commit, ClaimSelectNone
  <1>4. CASE BeginImmediate(w)
    <2>1. /\ at'[w] = "begun" /\ at' \in [Workers -> Stages] /\ lock' = w
          /\ UNCHANGED <<clock, db, proc, draft, pick>> /\ p.pc = "claim" /\ eventSeq < MaxEvents
      BY <1>2, <1>4 DEF BeginImmediate, Advance, Stages
    <2> QED BY <1>1, <2>1 DEF TxnTypes, StageOK, DraftAt, db
  <1>5. CASE ClaimSelect(w)
    <2>1. PICK t \in First(Eligible(AgentOf[w], p.now)) : pick' = [pick EXCEPT ![w] = t]
      BY <1>5 DEF ClaimSelect
    <2>2. /\ at[w] = "begun" /\ at'[w] = "selected" /\ at' \in [Workers -> Stages]
          /\ UNCHANGED <<clock, tasks, events, eventSeq, track, proc, lock, draft>>
      BY <1>2, <1>5 DEF ClaimSelect, Advance, Stages, db
    <2>3. t \in Tasks /\ pick'[w] = t
      BY <1>1, <2>1 DEF First, Eligible, TxnTypes
    <2>4. PICK a, now : a = AgentOf[w] /\ now = p.now
      OBVIOUS
    <2>5. t \in First(Eligible(a, now))'
      BY <2>1, <2>2, <2>4, FirstKept
    <2> QED BY <1>1, <2>1, <2>2, <2>3, <2>4, <2>5 DEF TxnTypes, StageOK, DraftAt
  <1>6. CASE ClaimUpdate(w)
    <2>1. /\ WriteRow(w, pick[w], Claimed(tasks[pick[w]], AgentOf[w], p.now))
          /\ at[w] = "selected" /\ at'[w] = "updated" /\ at' \in [Workers -> Stages]
          /\ UNCHANGED <<clock, tasks, events, eventSeq, track, proc, pick>>
      BY <1>2, <1>6, UpdateSucceeds DEF ClaimUpdate, Advance, Stages, db
    <2>2. lock' = w /\ p.pc = "claim"
      BY <1>1, <2>1 DEF WriteRow, StageOK
    <2>3. draft' = [tasks |-> UpdateOf(w), events |-> events, eventSeq |-> eventSeq,
                    track |-> track]
      BY <2>1, <2>2 DEF WriteRow, Tables, UpdateOf, Target, Written
    <2>4. UpdateOf(w)' = UpdateOf(w)
      BY <2>1 DEF UpdateOf, Target, Written
    <2>5. PICK a, now : a = AgentOf[w] /\ now = p.now
      OBVIOUS
    <2>6. First(Eligible(a, now))' = First(Eligible(a, now))
      BY <2>1, FirstKept
    <2> QED BY <1>1, <2>1, <2>2, <2>3, <2>4, <2>5, <2>6 DEF TxnTypes, StageOK, DraftAt
  <1>7. CASE ClaimLog(w)
    <2>1. /\ p.pc = "claim" /\ at[w] = "updated" /\ at'[w] = "written"
          /\ at' \in [Workers -> Stages]
          /\ UNCHANGED <<clock, tasks, events, eventSeq, track, proc, lock, pick>>
      BY <1>2, <1>7 DEF ClaimLog, Advance, Stages, db
    <2>2. draft = [tasks |-> UpdateOf(w), events |-> events, eventSeq |-> eventSeq,
                   track |-> track]
      BY <1>1, <2>1 DEF StageOK, DraftAt
    <2>3. draft' = [tasks |-> UpdateOf(w), events |-> events \cup {EventOf(w)},
                    eventSeq |-> eventSeq + 1, track |-> track]
      BY <1>7, <2>1, <2>2 DEF ClaimLog, WithEvent, EventOf, Target
    <2>4. UpdateOf(w)' = UpdateOf(w) /\ EventOf(w)' = EventOf(w)
      BY <2>1 DEF UpdateOf, EventOf, Target, Written
    <2>5. PICK a, now : a = AgentOf[w] /\ now = p.now
      OBVIOUS
    <2>6. First(Eligible(a, now))' = First(Eligible(a, now))
      BY <2>1, FirstKept
    <2> QED BY <1>1, <2>1, <2>3, <2>4, <2>5, <2>6 DEF TxnTypes, StageOK, DraftAt
  <1>8. CASE SettleUpdate(w)
    <2>1. /\ WriteRow(w, p.task, Settled(tasks[p.task], p.pc, p.now, p.verdict))
          /\ p.pc \in SettleKinds /\ p.pc # "claim"
          /\ at'[w] = "updated" /\ at' \in [Workers -> Stages]
          /\ UNCHANGED <<clock, tasks, events, eventSeq, track, proc, pick>>
      BY <1>2, <1>8 DEF SettleUpdate, Advance, Stages, db, SettleKinds
    <2>2. lock' = w
      BY <2>1 DEF WriteRow
    <2>3. draft' = [tasks |-> UpdateOf(w), events |-> events, eventSeq |-> eventSeq,
                    track |-> track]
      BY <2>1 DEF WriteRow, Tables, UpdateOf, Target, Written
    <2>4. UpdateOf(w)' = UpdateOf(w)
      BY <2>1 DEF UpdateOf, Target, Written
    <2> QED BY <1>1, <2>1, <2>2, <2>3, <2>4 DEF TxnTypes, StageOK, DraftAt
  <1>9. CASE SettleLog(w)
    <2>1. /\ p.pc \in SettleKinds /\ p.pc # "claim" /\ at[w] = "updated"
          /\ at'[w] = "logged" /\ at' \in [Workers -> Stages]
          /\ UNCHANGED <<clock, tasks, events, eventSeq, track, proc, lock, pick>>
      BY <1>2, <1>9 DEF SettleLog, Advance, Stages, db, SettleKinds
    <2>2. draft = [tasks |-> UpdateOf(w), events |-> events, eventSeq |-> eventSeq,
                   track |-> track]
      BY <1>1, <2>1 DEF StageOK, DraftAt
    <2>3. draft' = [tasks |-> UpdateOf(w), events |-> events \cup {EventOf(w)},
                    eventSeq |-> eventSeq + 1, track |-> track]
      BY <1>9, <2>1, <2>2 DEF SettleLog, WithEvent, EventOf, Target
    <2>4. UpdateOf(w)' = UpdateOf(w) /\ EventOf(w)' = EventOf(w)
      BY <2>1 DEF UpdateOf, EventOf, Target, Written
    <2> QED BY <1>1, <2>1, <2>3, <2>4 DEF TxnTypes, StageOK, DraftAt
  <1>10. CASE SettleCredit(w)
    <2>1. /\ at[w] = "logged" /\ p.pc \in SettleKinds /\ p.pc # "claim"
          /\ at'[w] = "written" /\ at' \in [Workers -> Stages]
          /\ UNCHANGED <<clock, tasks, events, eventSeq, track, proc, lock, pick>>
      BY <1>1, <1>2, <1>10 DEF SettleCredit, Advance, Stages, db, SettleKinds, StageOK
    <2>2. draft = [tasks |-> UpdateOf(w), events |-> events \cup {EventOf(w)},
                   eventSeq |-> eventSeq + 1, track |-> track]
      BY <1>1, <2>1 DEF StageOK, DraftAt
    <2>3. UpdateOf(w)[p.task].sig = tasks[p.task].sig
      <3>1. p.task \in Tasks /\ tasks[p.task] \in Row /\ tasks \in [Tasks -> Row]
        BY <2>1, TargetExists DEF StmtInv, ClaimInv, TypeInv, TypeOK
      <3>2. p.now \in Nat /\ p.verdict \in {"queued", "failed", None}
        BY <1>1 DEF Proc
      <3>3. Settled(tasks[p.task], p.pc, p.now, p.verdict).sig = tasks[p.task].sig
        BY <2>1, <3>1, <3>2, SettledRow
      <3> QED BY <2>1, <3>1, <3>3 DEF UpdateOf, Target, Written
    <2>4. draft' = [tasks |-> UpdateOf(w), events |-> events \cup {EventOf(w)},
                    eventSeq |-> eventSeq + 1, track |-> CreditOf(w)]
      BY <1>10, <2>2, <2>3 DEF SettleCredit, CreditOf
    <2>5. UpdateOf(w)' = UpdateOf(w) /\ EventOf(w)' = EventOf(w) /\ CreditOf(w)' = CreditOf(w)
      BY <2>1 DEF UpdateOf, EventOf, CreditOf, Target, Written
    <2> QED BY <1>1, <2>1, <2>4, <2>5 DEF TxnTypes, StageOK, DraftAt
  <1> QED BY <1>3, <1>4, <1>5, <1>6, <1>7, <1>8, <1>9, <1>10 DEF Statement

LEMMA StmtInvPreserved ==
  ASSUME StmtInv, [StmtNext]_stmtVars PROVE StmtInv'
  <1>1. ClaimInv'
    BY StatementIsStep, ClaimInvPreserved DEF StmtInv
  <1>2. CASE (Tick /\ UNCHANGED txn) \/ UNCHANGED stmtVars
    <2>1. UNCHANGED <<tasks, events, eventSeq, track, proc, lock, draft, at, pick>>
      BY <1>2 DEF Tick, txn, db, stmtVars
    <2>2. ASSUME NEW v \in Workers PROVE StageOK(v)'
      <3>1. StageOK(v)
        BY DEF StmtInv
      <3> QED BY <2>1, <3>1, StageKept
    <2> QED BY <1>1, <2>1, <2>2 DEF StmtInv, TxnTypes
  <1>3. CASE lock = None /\ Posting /\ UNCHANGED txn
    <2>1. UNCHANGED <<proc, lock, draft, at, pick>> /\ lock = None /\ None \notin Workers
      BY <1>3, AgentsAssumption DEF Posting, Post, txn
    <2>2. ASSUME NEW v \in Workers PROVE StageOK(v)'
      <3>1. StageOK(v) /\ lock # v /\ lock' # v
        BY <2>1 DEF StmtInv
      <3> QED BY <2>1, <3>1, StageKept
    <2> QED BY <1>1, <2>1, <2>2 DEF StmtInv, TxnTypes
  <1>4. ASSUME NEW w \in Workers, Statement(w) \/ CallOrFault(w) PROVE StmtInv'
    <2>1. TxnTypes' /\ StageOK(w)'
      <3>1. CASE Statement(w)
        BY <3>1, StatementStage
      <3>2. CASE Abort(w) \/ Die(w)
        BY <3>2, Left DEF Abort, Die
      <3>3. CASE \/ ClaimCall(w) /\ UNCHANGED txn
                 \/ \E kind \in SettleKinds : SettleCall(w, kind) /\ UNCHANGED txn
        <4>1. UNCHANGED <<lock, draft, at, pick>> /\ at[w] = "none" /\ lock # w
          BY <3>3 DEF ClaimCall, SettleCall, txn, StmtInv, StageOK, SettleKinds
        <4> QED BY <4>1 DEF StageOK, DraftAt, TxnTypes, StmtInv
      <3> QED BY <1>4, <3>1, <3>2, <3>3 DEF CallOrFault
    <2>2. \A v \in Workers : StageOK(v)'
      BY <1>4, <2>1, OthersKept
    <2> QED BY <1>1, <2>1, <2>2 DEF StmtInv
  <1> QED BY <1>2, <1>3, <1>4 DEF StmtNext, CallOrFault

(* Half a transaction is never seen: however the statements of any number  *)
(* of workers interleave, and wherever they are cut short, the committed   *)
(* tables behave as Queue says.                                            *)
THEOREM StatementsAddUp == StmtSpec => AtomicQueue
  <1>1. StmtInit => Init
    BY DEF StmtInit
  <1>2. StmtInv /\ [StmtNext]_stmtVars => [Next]_vars
    BY StatementIsStep
  <1> QED BY <1>1, <1>2, InitStmt, StmtInvPreserved, PTL DEF StmtSpec, AtomicQueue, Spec
=============================================================================
