---------------------------- MODULE QueueProofs ----------------------------
(***************************************************************************)
(* Theorems about Queue, for all sets of tasks, agents and workers, all    *)
(* signatures, priorities and limits.                                      *)
(***************************************************************************)
EXTENDS Queue, FiniteSetTheorems, TLAPS, WellFoundedInduction

-----------------------------------------------------------------------------
(* Types, and which worker states carry a handle. *)

HandleShape ==
  \A w \in Workers :
    /\ proc[w].task # None <=> proc[w].pc \in {"working"} \cup SettleKinds
    /\ proc[w].pc # "fail" => proc[w].verdict = None
    /\ proc[w].pc = "fail" => proc[w].verdict \in {"queued", "failed"}

TypeInv == TypeOK /\ HandleShape

LEMMA InitTypes == Init => TypeInv
  BY AgentsAssumption, TasksAssumption, SignaturesAssumption
     DEF Init, TypeInv, TypeOK, HandleShape, NoRow, Idle, Row, Event, Proc, Statuses,
         SettleKinds, Exists

LEMMA PostTypes ==
  ASSUME TypeInv, Posting PROVE TypeInv'
  <1>1. PICK t \in Tasks, type \in TaskTypes, sigArg \in Signatures \cup {None},
             prio \in Priorities, limit \in AttemptLimits, created \in 0 .. clock :
               Post(t, type, sigArg, prio, limit, created)
    BY DEF Posting
  <1> DEFINE row == NewRow(type, sigArg, prio, limit, created)
  <1>2. row \in Row /\ row.sig \in Signatures
    BY SignaturesAssumption, NumbersAssumption
       DEF NewRow, SignatureOrType, Row, Statuses, TypeInv, TypeOK
  <1>3. tasks' = [tasks EXCEPT ![t] = row]
    BY <1>1 DEF Post
  <1>4. UNCHANGED <<clock, events, eventSeq, track, proc>>
    BY <1>1 DEF Post
  <1> HIDE DEF row
  <1>5. /\ tasks' \in [Tasks -> Row]
        /\ \A u \in Tasks : Exists(u)' => tasks'[u].sig \in Signatures
    BY <1>2, <1>3 DEF TypeInv, TypeOK, Exists
  <1> QED BY <1>4, <1>5 DEF TypeInv, TypeOK, HandleShape

(* What an appended event and a counted outcome do to the types. *)
LEMMA LogTypes ==
  ASSUME TypeOK, NEW t \in Tasks, NEW kind \in SettleKinds \cup {"claim"},
         NEW ts \in Nat, NEW a \in Agents, NEW post \in {"queued", "failed", None},
         Log(t, kind, ts, a, post)
  PROVE  events' \subseteq Event /\ eventSeq' \in Nat
  BY DEF TypeOK, Log, Event

LEMMA CreditTypes ==
  ASSUME TypeOK, NEW a \in Agents, NEW s \in Signatures, NEW kind \in SettleKinds,
         Credit(a, s, kind)
  PROVE  track' \in [Agents \X Signatures \X SettleKinds -> Nat]
  BY DEF TypeOK, Credit

(* The latest event of a set is the one with the highest id.               *)
LEMMA LatestIsHighest ==
  ASSUME NEW S, NEW e \in S,
         \A f \in S : f.id \in Nat /\ f.id <= e.id /\ (f.id = e.id => f = e)
  PROVE  LatestOf(S) = e
  BY DEF LatestOf

(* Naturals have a least one; ids that are bounded have a highest one. *)
LEMMA LeastNatural ==
  ASSUME NEW S, S \subseteq Nat, S # {} PROVE \E x \in S : \A y \in S : x <= y
  <1> DEFINE R == OpToRel(<, Nat)
  <1>1. IsWellFoundedOn(R, Nat)
    BY NatLessThanWellFounded
  <1>2. \A x, y \in Nat : x < y => <<x, y>> \in R
    BY DEF OpToRel
  <1> HIDE DEF R
  <1>3. PICK x \in S : \A y \in S : ~(<<y, x>> \in R)
    BY <1>1, WFMin
  <1>4. \A y \in S : ~(y < x)
    BY <1>2, <1>3
  <1>5. \A y \in S : x <= y
    BY <1>4
  <1> QED BY <1>5

LEMMA SomeLatest ==
  ASSUME NEW S, S # {}, NEW bound \in Nat, \A e \in S : e.id \in Nat /\ e.id <= bound,
         \A e, f \in S : e.id = f.id => e = f
  PROVE  LatestOf(S) \in S /\ \A f \in S : f.id <= LatestOf(S).id
  <1> DEFINE below == {bound - e.id : e \in S}
  <1>1. below \subseteq Nat /\ below # {}
    OBVIOUS
  <1>2. PICK x \in below : \A y \in below : x <= y
    BY <1>1, LeastNatural
  <1>3. PICK e \in S : x = bound - e.id
    BY <1>2
  <1>4. \A f \in S : f.id \in Nat /\ f.id <= e.id /\ (f.id = e.id => f = e)
    <2>1. \A f \in S : bound - e.id <= bound - f.id
      BY <1>2, <1>3
    <2> QED BY <2>1
  <1>5. LatestOf(S) = e
    BY <1>4, LatestIsHighest
  <1> QED BY <1>4, <1>5

(* The row a claim leaves. *)
LEMMA ClaimedRow ==
  ASSUME NEW row \in Row, NEW a \in Agents, NEW now \in Nat
  PROVE  /\ Claimed(row, a, now) \in Row
         /\ Claimed(row, a, now).sig = row.sig
         /\ Claimed(row, a, now).status = "claimed"
         /\ Claimed(row, a, now).claimedBy = a
  <1>1. row.attempts + 1 \in Nat
    BY DEF Row
  <1>2. Claimed(row, a, now) =
          [row EXCEPT !.status = "claimed", !.claimedBy = a, !.claimedAt = now,
                      !.attempts = row.attempts + 1]
    BY DEF Claimed
  <1> QED BY <1>1, <1>2 DEF Row, Statuses

(* The row a settling transaction leaves. *)
LEMMA SettledRow ==
  ASSUME NEW row \in Row, NEW kind \in SettleKinds, NEW now \in Nat,
         NEW verdict \in {"queued", "failed", None}
  PROVE  /\ Settled(row, kind, now, verdict) \in Row
         /\ Settled(row, kind, now, verdict).sig = row.sig
         /\ Settled(row, kind, now, verdict).status \in {"queued", "done", "failed"}
  BY DEF Settled, Requeued, Row, Statuses, SettleKinds

LEMMA TickTypes ==
  ASSUME TypeInv, Tick PROVE TypeInv'
  BY DEF TypeInv, TypeOK, HandleShape, Tick, db, Exists

LEMMA ClaimCallTypes ==
  ASSUME TypeInv, NEW w \in Workers, ClaimCall(w) PROVE TypeInv'
  BY DEF TypeInv, TypeOK, HandleShape, ClaimCall, Calling, db, Exists, Proc, SettleKinds

LEMMA ClaimTxnTypes ==
  ASSUME TypeInv, NEW w \in Workers, NEW t \in Tasks, ClaimTxn(w, t) PROVE TypeInv'
  <1> DEFINE a == AgentOf[w]
             row == Claimed(tasks[t], a, proc[w].now)
  <1>1. /\ a \in Agents /\ proc[w].now \in Nat /\ tasks[t] \in Row
        /\ tasks[t].status = "queued"
    BY AgentsAssumption DEF TypeInv, TypeOK, Proc, ClaimTxn, First, Eligible
  <1>2. row \in Row /\ row.sig = tasks[t].sig
    BY <1>1, ClaimedRow
  <1>3. tasks' = [tasks EXCEPT ![t] = row]
    BY DEF ClaimTxn, TypeInv, TypeOK
  <1> HIDE DEF row
  <1>4. /\ tasks' \in [Tasks -> Row]
        /\ \A u \in Tasks : Exists(u)' => tasks'[u].sig \in Signatures
    BY <1>1, <1>2, <1>3 DEF TypeInv, TypeOK, Exists
  <1>5. events' \subseteq Event /\ eventSeq' \in Nat
    BY <1>1, LogTypes DEF ClaimTxn, TypeInv
  <1>6. proc' = [proc EXCEPT ![w] = Working(t)] /\ UNCHANGED <<clock, track>>
    BY DEF ClaimTxn
  <1>7. proc' \in [Workers -> Proc] /\ HandleShape'
    BY <1>6, TasksAssumption DEF TypeInv, TypeOK, HandleShape, Working, Proc, SettleKinds
  <1> QED BY <1>4, <1>5, <1>6, <1>7 DEF TypeInv, TypeOK

LEMMA SettleCallTypes ==
  ASSUME TypeInv, NEW w \in Workers, NEW kind \in SettleKinds, SettleCall(w, kind)
  PROVE  TypeInv'
  <1>1. Verdict(proc[w].task) \in {"queued", "failed"}
    BY DEF Verdict
  <1>2. proc[w].task \in Tasks /\ UNCHANGED <<clock, tasks, events, eventSeq, track>>
    BY DEF TypeInv, TypeOK, HandleShape, SettleCall, db, Proc
  <1>3. proc' \in [Workers -> Proc] /\ HandleShape'
    BY <1>1, <1>2, TasksAssumption
       DEF TypeInv, TypeOK, HandleShape, SettleCall, Calling, Proc, SettleKinds
  <1> QED BY <1>2, <1>3 DEF TypeInv, TypeOK, Exists

LEMMA SettleTxnTypes ==
  ASSUME TypeInv, NEW w \in Workers, NEW kind \in SettleKinds, SettleTxn(w, kind)
  PROVE  TypeInv'
  <1> DEFINE t == proc[w].task
             a == AgentOf[w]
             row == Settled(tasks[t], kind, proc[w].now, proc[w].verdict)
  <1>1. /\ t \in Tasks /\ a \in Agents /\ proc[w].now \in Nat
        /\ proc[w].verdict \in {"queued", "failed", None}
    BY AgentsAssumption DEF TypeInv, TypeOK, HandleShape, Proc, SettleTxn, SettleKinds
  <1>2. tasks[t] \in Row /\ Exists(t) /\ tasks[t].sig \in Signatures
    BY <1>1 DEF TypeInv, TypeOK, SettleTxn, Settle
  <1>3. row \in Row /\ row.sig = tasks[t].sig
    BY <1>1, <1>2, SettledRow
  <1>4. tasks' = [tasks EXCEPT ![t] = row]
    BY <1>1 DEF SettleTxn, Settle, TypeInv, TypeOK
  <1>5. events' \subseteq Event /\ eventSeq' \in Nat
    BY <1>1, LogTypes DEF SettleTxn, Settle, TypeInv
  <1>6. track' \in [Agents \X Signatures \X SettleKinds -> Nat]
    BY <1>1, <1>2, CreditTypes DEF SettleTxn, Settle, TypeInv
  <1>7. proc' = [proc EXCEPT ![w] = Idle] /\ UNCHANGED clock
    BY DEF SettleTxn
  <1> HIDE DEF row
  <1>8. /\ tasks' \in [Tasks -> Row]
        /\ \A u \in Tasks : Exists(u)' => tasks'[u].sig \in Signatures
    BY <1>1, <1>2, <1>3, <1>4 DEF TypeInv, TypeOK, Exists
  <1>9. proc' \in [Workers -> Proc] /\ HandleShape'
    BY <1>7 DEF TypeInv, TypeOK, HandleShape, Idle, Proc, SettleKinds
  <1> QED BY <1>5, <1>6, <1>7, <1>8, <1>9 DEF TypeInv, TypeOK

LEMMA ReturnTypes ==
  ASSUME TypeInv, NEW w \in Workers, ClaimNone(w) \/ TxnError(w) \/ Crash(w)
  PROVE  TypeInv'
  <1>1. UNCHANGED <<clock, tasks, events, eventSeq, track>>
    BY DEF ClaimNone, TxnError, Crash, db
  <1>2. proc' \in [Workers -> Proc] /\ HandleShape'
    BY TasksAssumption DEF TypeInv, TypeOK, HandleShape, ClaimNone, TxnError, Crash,
       Idle, Working, Proc, SettleKinds
  <1> QED BY <1>1, <1>2 DEF TypeInv, TypeOK, Exists

LEMMA TypesPreserved ==
  ASSUME TypeInv, [Next]_vars PROVE TypeInv'
  <1>1. CASE Tick
    BY <1>1, TickTypes
  <1>2. CASE Posting
    BY <1>2, PostTypes
  <1>3. CASE \E w \in Workers : WorkerStep(w)
    <2>1. PICK w \in Workers : WorkerStep(w)
      BY <1>3
    <2> QED BY <2>1, ClaimCallTypes, ClaimTxnTypes, SettleCallTypes, SettleTxnTypes,
               ReturnTypes DEF WorkerStep
  <1>4. CASE UNCHANGED vars
    BY <1>4 DEF vars, db, TypeInv, TypeOK, HandleShape, Exists
  <1> QED BY <1>1, <1>2, <1>3, <1>4 DEF Next

(* In every reachable state each table row, event, counter and local       *)
(* variable has its type.                                                  *)
THEOREM TypeCorrect == Spec => []TypeOK
  <1>1. TypeInv => TypeOK
    BY DEF TypeInv
  <1> QED BY <1>1, InitTypes, TypesPreserved, PTL DEF Spec

-----------------------------------------------------------------------------
(* Exclusive claims.  The induction needs only the types: a claim takes a  *)
(* queued row, which no handle can point at, and a settler changes only    *)
(* the row its own handle points at, which no other handle does.           *)

ClaimInv == TypeInv /\ ExclusiveClaims

(* What a step does to the tasks and the handle of one worker v. *)
LEMMA HeldRows ==
  ASSUME ClaimInv, [Next]_vars, NEW v \in Workers, NEW t \in Tasks, Holds(v, t)'
  PROVE  \/ Holds(v, t) /\ tasks'[t] = tasks[t]
         \/ ClaimTxn(v, t)
  <1> USE TasksAssumption DEF Holds
  <1>1. CASE Tick \/ UNCHANGED vars
    BY <1>1 DEF Tick, vars, db
  <1>2. CASE Posting
    <2>1. PICK u \in Tasks : ~Exists(u) /\ tasks' = [tasks EXCEPT ![u] = tasks'[u]]
                            /\ proc' = proc
      BY <1>2 DEF Posting, Post, ClaimInv, TypeInv, TypeOK
    <2>2. u # t
      BY <2>1 DEF ClaimInv, ExclusiveClaims, Exists
    <2> QED BY <2>1, <2>2 DEF ClaimInv, TypeInv, TypeOK
  <1>3. ASSUME NEW w \in Workers, WorkerStep(w)
        PROVE  \/ proc[v].task = t /\ tasks'[t] = tasks[t]
               \/ ClaimTxn(v, t)
    <2> DEFINE G == \/ proc[v].task = t /\ tasks'[t] = tasks[t]
                    \/ ClaimTxn(v, t)
    <2>1. CASE ClaimCall(w) \/ ClaimNone(w) \/ TxnError(w) \/ Crash(w)
      BY <2>1 DEF ClaimCall, Calling, ClaimNone, TxnError, Crash, Idle, Working, db,
         ClaimInv, TypeInv, TypeOK
    <2>2. ASSUME NEW kind \in SettleKinds, SettleCall(w, kind) PROVE G
      BY <2>2 DEF SettleCall, Calling, db, ClaimInv, TypeInv, TypeOK
    <2>3. ASSUME NEW u \in Tasks, ClaimTxn(w, u) PROVE G
      <3>1. /\ tasks[u].status = "queued"
            /\ proc' = [proc EXCEPT ![w] = Working(u)]
            /\ \A x \in Tasks \ {u} : tasks'[x] = tasks[x]
        BY <2>3 DEF ClaimTxn, First, Eligible, ClaimInv, TypeInv, TypeOK
      <3>2. CASE v = w
        BY <2>3, <3>1, <3>2 DEF Working, ClaimInv, TypeInv, TypeOK
      <3>3. CASE v # w
        <4>1. proc[v].task = t
          BY <3>1, <3>3 DEF ClaimInv, TypeInv, TypeOK
        <4>2. t # u
          BY <3>1, <4>1 DEF ClaimInv, ExclusiveClaims
        <4> QED BY <3>1, <4>1, <4>2
      <3> QED BY <3>2, <3>3
    <2>4. ASSUME NEW kind \in SettleKinds, SettleTxn(w, kind) PROVE G
      <3>1. /\ proc' = [proc EXCEPT ![w] = Idle]
            /\ \A x \in Tasks : x # proc[w].task => tasks'[x] = tasks[x]
        BY <2>4 DEF SettleTxn, Settle, ClaimInv, TypeInv, TypeOK
      <3>2. v # w /\ proc[v].task = t
        BY <3>1 DEF Idle, ClaimInv, TypeInv, TypeOK
      <3>3. proc[w].task # t
        BY <3>2 DEF ClaimInv, ExclusiveClaims
      <3> QED BY <3>1, <3>2, <3>3
    <2> QED BY <1>3, <2>1, <2>2, <2>3, <2>4 DEF WorkerStep
  <1> QED BY <1>1, <1>2, <1>3 DEF Next

LEMMA ClaimInvPreserved ==
  ASSUME ClaimInv, [Next]_vars PROVE ClaimInv'
  <1>1. TypeInv'
    BY TypesPreserved DEF ClaimInv
  <1>2. ASSUME NEW v \in Workers, NEW t \in Tasks, Holds(v, t)'
        PROVE  tasks'[t].status = "claimed" /\ tasks'[t].claimedBy = AgentOf[v]
    <2>1. CASE Holds(v, t) /\ tasks'[t] = tasks[t]
      BY <2>1 DEF ClaimInv, ExclusiveClaims
    <2>2. CASE ClaimTxn(v, t)
      <3>1. /\ tasks[t] \in Row /\ AgentOf[v] \in Agents /\ proc[v].now \in Nat
            /\ tasks'[t] = Claimed(tasks[t], AgentOf[v], proc[v].now)
        BY <2>2, AgentsAssumption DEF ClaimTxn, ClaimInv, TypeInv, TypeOK, Proc
      <3> QED BY <3>1, ClaimedRow
    <2> QED BY <1>2, <2>1, <2>2, HeldRows
  <1>3. ASSUME NEW v \in Workers, NEW w \in Workers, NEW t \in Tasks,
               Holds(v, t)', Holds(w, t)'
        PROVE  v = w
    <2>1. \/ Holds(v, t)
          \/ ClaimTxn(v, t)
      BY <1>3, HeldRows
    <2>2. \/ Holds(w, t)
          \/ ClaimTxn(w, t)
      BY <1>3, HeldRows
    <2>3. ASSUME NEW x \in Workers, ClaimTxn(x, t) 
          PROVE  /\ \A y \in Workers : ~Holds(y, t)
                 /\ \A y \in Workers : Holds(y, t)' => y = x
      <3>1. tasks[t].status = "queued" /\ proc' = [proc EXCEPT ![x] = Working(t)]
        BY <2>3 DEF ClaimTxn, First, Eligible
      <3>2. \A y \in Workers : ~Holds(y, t)
        BY <3>1 DEF ClaimInv, ExclusiveClaims
      <3> QED BY <3>1, <3>2 DEF Holds, ClaimInv, TypeInv, TypeOK
    <2> QED BY <1>3, <2>1, <2>2, <2>3 DEF ClaimInv, ExclusiveClaims
  <1> QED BY <1>1, <1>2, <1>3 DEF ClaimInv, ExclusiveClaims, Holds

LEMMA InitClaims == Init => ClaimInv
  BY InitTypes, TasksAssumption DEF ClaimInv, ExclusiveClaims, Holds, Init, Idle

(* "Exactly one wins each task": a handle always points at a row claimed   *)
(* by its own agent, and no two workers ever hold the same task.           *)
THEOREM Exclusive == Spec => []ExclusiveClaims
  <1>1. ClaimInv => ExclusiveClaims
    BY DEF ClaimInv
  <1> QED BY <1>1, InitClaims, ClaimInvPreserved, PTL DEF Spec

-----------------------------------------------------------------------------
(* The decision of _mark_fail.  Its row is read outside the transaction,   *)
(* but a held row changes only through its handle.                         *)

FailInv == ClaimInv /\ FailDecisionFresh

LEMMA EnteringFail ==
  ASSUME ClaimInv, [Next]_vars, NEW v \in Workers, proc'[v].pc = "fail"
  PROVE  proc'[v] = proc[v] \/ SettleCall(v, "fail")
  <1>1. CASE Tick \/ Posting \/ UNCHANGED vars
    BY <1>1 DEF Tick, Posting, Post, vars
  <1>2. ASSUME NEW w \in Workers, WorkerStep(w)
        PROVE  proc'[v] = proc[v] \/ SettleCall(v, "fail")
    <2>1. CASE w # v
      <3>1. \E p : proc' = [proc EXCEPT ![w] = p]
        BY <1>2 DEF WorkerStep, ClaimCall, ClaimTxn, ClaimNone, SettleCall, SettleTxn,
           Calling, TxnError, Crash
      <3> QED BY <2>1, <3>1 DEF ClaimInv, TypeInv, TypeOK
    <2>2. CASE w = v
      BY <1>2, <2>2 DEF WorkerStep, ClaimCall, ClaimTxn, ClaimNone, SettleCall, SettleTxn,
         Calling, TxnError, Crash, Idle, Working, ClaimInv, TypeInv, TypeOK
    <2> QED BY <2>1, <2>2
  <1> QED BY <1>1, <1>2 DEF Next

LEMMA FailInvPreserved ==
  ASSUME FailInv, [Next]_vars PROVE FailInv'
  <1>1. ClaimInv'
    BY ClaimInvPreserved DEF FailInv
  <1>2. ASSUME NEW v \in Workers, proc'[v].pc = "fail"
        PROVE  proc'[v].verdict = Verdict(proc[v].task)'
    <2>1. CASE proc'[v] = proc[v]
      <3>0. PICK t \in Tasks : t = proc[v].task
        BY <1>2, <2>1 DEF FailInv, ClaimInv, TypeInv, TypeOK, HandleShape, Proc, SettleKinds
      <3>1. Holds(v, t)'
        BY <2>1, <3>0 DEF Holds
      <3>2. ~ClaimTxn(v, t)
        BY <1>2, <2>1 DEF ClaimTxn
      <3>3. tasks'[t] = tasks[t]
        BY <3>1, <3>2, HeldRows DEF FailInv
      <3> QED BY <1>2, <2>1, <3>0, <3>3 DEF FailInv, FailDecisionFresh, Verdict, Exists
    <2>2. CASE SettleCall(v, "fail")
      <3>1. /\ tasks' = tasks
            /\ proc'[v].task = proc[v].task
            /\ proc'[v].verdict = Verdict(proc[v].task)
        BY <2>2 DEF SettleCall, Calling, db, FailInv, ClaimInv, TypeInv, TypeOK
      <3> QED BY <3>1 DEF Verdict, Exists
    <2> QED BY <1>2, <2>1, <2>2, EnteringFail DEF FailInv
  <1> QED BY <1>1, <1>2 DEF FailInv, FailDecisionFresh

(* The SELECT of _mark_fail runs before its transaction, yet among workers *)
(* that keep to their handles the decision it leads to never goes stale.   *)
THEOREM FailFresh == Spec => []FailDecisionFresh
  <1>1. Init => FailInv
    BY InitClaims DEF FailInv, FailDecisionFresh, Init, Idle
  <1>2. FailInv => FailDecisionFresh
    BY DEF FailInv
  <1> QED BY <1>1, <1>2, FailInvPreserved, PTL DEF Spec

-----------------------------------------------------------------------------
(* Which step changes a row: posting it, claiming it, or settling it by    *)
(* its holder.                                                             *)
LEMMA RowChange ==
  ASSUME ClaimInv, [Next]_vars, NEW t \in Tasks, tasks'[t] # tasks[t]
  PROVE  \/ ~Exists(t)
         \/ \E w \in Workers : ClaimTxn(w, t)
         \/ \E w \in Workers, kind \in SettleKinds : Holds(w, t) /\ SettleTxn(w, kind)
  <1>1. CASE Tick \/ UNCHANGED vars
    BY <1>1 DEF Tick, vars, db
  <1>2. CASE Posting
    BY <1>2 DEF Posting, Post, ClaimInv, TypeInv, TypeOK
  <1>3. ASSUME NEW w \in Workers, WorkerStep(w)
        PROVE  \/ ClaimTxn(w, t)
               \/ \E kind \in SettleKinds : Holds(w, t) /\ SettleTxn(w, kind)
    <2>1. CASE ClaimCall(w) \/ ClaimNone(w) \/ TxnError(w) \/ Crash(w)
      BY <2>1 DEF ClaimCall, ClaimNone, TxnError, Crash, db
    <2>2. ASSUME NEW kind \in SettleKinds, SettleCall(w, kind) PROVE FALSE
      BY <2>2 DEF SettleCall, db
    <2>3. ASSUME NEW u \in Tasks, ClaimTxn(w, u) PROVE ClaimTxn(w, t)
      BY <2>3 DEF ClaimTxn, ClaimInv, TypeInv, TypeOK
    <2>4. ASSUME NEW kind \in SettleKinds, SettleTxn(w, kind) PROVE Holds(w, t)
      BY <2>4 DEF SettleTxn, Settle, Holds, ClaimInv, TypeInv, TypeOK
    <2> QED BY <1>3, <2>1, <2>2, <2>3, <2>4 DEF WorkerStep
  <1> QED BY <1>1, <1>2, <1>3 DEF Next

(* A task that is done or failed stays exactly as it is.                   *)
THEOREM Terminal == Spec => TerminalIsFinal
  <1>1. ASSUME ClaimInv, [Next]_vars, NEW t \in Tasks,
               tasks[t].status \in {"done", "failed"}
        PROVE  tasks'[t] = tasks[t]
    BY <1>1, RowChange DEF Exists, ClaimTxn, First, Eligible, ClaimInv, ExclusiveClaims
  <1>2. ClaimInv /\ [Next]_vars =>
          [\A t \in Tasks : tasks[t].status \in {"done", "failed"}
                             => tasks'[t] = tasks[t]]_vars
    BY <1>1
  <1> QED BY <1>2, InitClaims, ClaimInvPreserved, PTL DEF Spec, TerminalIsFinal

-----------------------------------------------------------------------------
(* The refinement of Ownership.  Exclusive claims make the owner of a task *)
(* unique, so the CHOOSE of Owner has one candidate at most.               *)

LEMMA OwnerUnique ==
  ASSUME ClaimInv, NEW t \in Tasks
  PROVE  /\ \A w \in Workers : Holds(w, t) => Owner(t) = w
         /\ (\A w \in Workers : ~Holds(w, t)) => Owner(t) = None
         /\ Owner(t) # None <=> \E w \in Workers : Holds(w, t)
  BY AgentsAssumption DEF Owner, ClaimInv, ExclusiveClaims

LEMMA OwnerUniqueNext ==
  ASSUME ClaimInv', NEW t \in Tasks
  PROVE  /\ \A w \in Workers : Holds(w, t)' => Owner(t)' = w
         /\ (\A w \in Workers : ~Holds(w, t)') => Owner(t)' = None
  BY AgentsAssumption DEF Owner, ClaimInv, ExclusiveClaims, Holds

LEMMA OwnerKept ==
  ASSUME ClaimInv, ClaimInv', NEW t \in Tasks,
         \A w \in Workers : Holds(w, t)' <=> Holds(w, t)
  PROVE  Owner(t)' = Owner(t)
  BY OwnerUnique, OwnerUniqueNext

Phase == [t \in Tasks |-> tasks[t].status]
Holder == [t \in Tasks |-> Owner(t)]

(* A step that changes the status and the holder of t alone is a Become.   *)
LEMMA OneTask ==
  ASSUME ClaimInv, ClaimInv', NEW t \in Tasks, NEW p, NEW o,
         tasks'[t].status = p, Owner(t)' = o,
         \A u \in Tasks \ {t} : tasks'[u].status = tasks[u].status,
         \A u \in Tasks \ {t}, w \in Workers : Holds(w, u)' <=> Holds(w, u)
  PROVE  Phase' = [Phase EXCEPT ![t] = p] /\ Holder' = [Holder EXCEPT ![t] = o]
  <1>1. \A u \in Tasks \ {t} : Owner(u)' = Owner(u)
    BY OwnerKept
  <1>2. Phase' = [Phase EXCEPT ![t] = p]
    BY DEF Phase
  <1>3. Holder' = [Holder EXCEPT ![t] = o]
    BY <1>1 DEF Holder
  <1> QED BY <1>2, <1>3

LEMMA NoTask ==
  ASSUME ClaimInv, ClaimInv', tasks' = tasks,
         \A u \in Tasks, w \in Workers : Holds(w, u)' <=> Holds(w, u)
  PROVE  Phase' = Phase /\ Holder' = Holder
  BY OwnerKept DEF Phase, Holder

PromiseStep == Promise!Next \/ (Phase' = Phase /\ Holder' = Holder)

(* The handles after a step of worker w, which touches no other handle.    *)
LEMMA OtherHandles ==
  ASSUME ClaimInv, NEW w \in Workers, NEW p, proc' = [proc EXCEPT ![w] = p]
  PROVE  /\ \A v \in Workers, t \in Tasks : v # w => (Holds(v, t)' <=> Holds(v, t))
         /\ \A t \in Tasks : Holds(w, t)' <=> p.task = t
  BY DEF Holds, ClaimInv, TypeInv, TypeOK

LEMMA PostKeepsPromise ==
  ASSUME ClaimInv, ClaimInv', Posting PROVE PromiseStep
  <1>1. PICK t \in Tasks :
          /\ ~Exists(t)
          /\ tasks'[t].status = "queued"
          /\ \A u \in Tasks \ {t} : tasks'[u] = tasks[u]
          /\ proc' = proc
    BY DEF Posting, Post, NewRow, ClaimInv, TypeInv, TypeOK
  <1>2. \A w \in Workers : ~Holds(w, t)
    BY <1>1 DEF ClaimInv, ExclusiveClaims, Exists
  <1>3. \A u \in Tasks, w \in Workers : Holds(w, u)' <=> Holds(w, u)
    BY <1>1 DEF Holds
  <1>4. Owner(t)' = None
    BY <1>2, <1>3, OwnerUniqueNext
  <1>5. Phase' = [Phase EXCEPT ![t] = "queued"] /\ Holder' = [Holder EXCEPT ![t] = None]
    BY <1>1, <1>3, <1>4, OneTask
  <1> QED BY <1>1, <1>5 DEF PromiseStep, Promise!Next, Promise!Appear, Promise!Become,
             Phase, Holder, Exists

LEMMA ClaimKeepsPromise ==
  ASSUME ClaimInv, ClaimInv', NEW w \in Workers, NEW t \in Tasks, ClaimTxn(w, t)
  PROVE  PromiseStep
  <1>1. /\ tasks[t].status = "queued"
        /\ proc[w].task = None
        /\ proc' = [proc EXCEPT ![w] = Working(t)]
        /\ \A u \in Tasks \ {t} : tasks'[u] = tasks[u]
    BY DEF ClaimTxn, First, Eligible, ClaimInv, TypeInv, TypeOK, HandleShape, SettleKinds
  <1>2. Working(t).task = t
    BY DEF Working
  <1>3. Holds(w, t)' /\ \A u \in Tasks : ~Holds(w, u)
    BY <1>1, <1>2, OtherHandles, TasksAssumption DEF Holds
  <1>4. tasks'[t].status = "claimed" /\ Owner(t)' = w
    BY <1>3, OwnerUniqueNext DEF ClaimInv, ExclusiveClaims
  <1>5. \A u \in Tasks \ {t}, v \in Workers : Holds(v, u)' <=> Holds(v, u)
    BY <1>1, <1>2, <1>3, OtherHandles
  <1>6. Phase' = [Phase EXCEPT ![t] = "claimed"] /\ Holder' = [Holder EXCEPT ![t] = w]
    BY <1>1, <1>4, <1>5, OneTask
  <1>7. \A u \in Tasks : Owner(u) # w
    BY <1>3, OwnerUnique, AgentsAssumption DEF Owner
  <1> QED BY <1>1, <1>6, <1>7 DEF PromiseStep, Promise!Next, Promise!Grant, Promise!Become,
             Phase, Holder

(* The step lets go of the task: it was settled, or the worker crashed.    *)
LEMMA ReleaseKeepsPromise ==
  ASSUME ClaimInv, ClaimInv', NEW w \in Workers, NEW t \in Tasks, Holds(w, t),
         proc' = [proc EXCEPT ![w] = Idle],
         tasks'[t].status \in {"queued", "claimed", "done", "failed"},
         \A u \in Tasks \ {t} : tasks'[u] = tasks[u]
  PROVE  PromiseStep
  <1>1. ASSUME NEW v \in Workers PROVE ~Holds(v, t)'
    <2>1. Idle.task # t
      BY TasksAssumption DEF Idle
    <2>2. CASE v = w
      BY <2>1, <2>2, OtherHandles
    <2>3. CASE v # w
      BY <2>3, OtherHandles DEF ClaimInv, ExclusiveClaims
    <2> QED BY <2>2, <2>3
  <1>2. \A u \in Tasks \ {t}, v \in Workers : Holds(v, u)' <=> Holds(v, u)
    BY OtherHandles, TasksAssumption DEF Idle, Holds
  <1>3. Owner(t)' = None /\ Owner(t) # None
    BY <1>1, OwnerUnique, OwnerUniqueNext
  <1>4. /\ Phase' = [Phase EXCEPT ![t] = tasks'[t].status]
        /\ Holder' = [Holder EXCEPT ![t] = None]
    BY <1>2, <1>3, OneTask
  <1> QED BY <1>3, <1>4 DEF PromiseStep, Promise!Next, Promise!Return, Promise!Close,
             Promise!Abandon, Promise!Become, Phase, Holder

LEMMA WorkerKeepsPromise ==
  ASSUME ClaimInv, ClaimInv', NEW w \in Workers, WorkerStep(w) PROVE PromiseStep
  <1>1. CASE ClaimCall(w) \/ ClaimNone(w) \/ TxnError(w)
    <2>1. tasks' = tasks
      BY <1>1 DEF ClaimCall, ClaimNone, TxnError, db
    <2>2. \A u \in Tasks, v \in Workers : Holds(v, u)' <=> Holds(v, u)
      BY <1>1, TasksAssumption DEF ClaimCall, Calling, ClaimNone, TxnError, Idle, Working,
         Holds, ClaimInv, TypeInv, TypeOK, HandleShape, SettleKinds
    <2> QED BY <2>1, <2>2, NoTask DEF PromiseStep
  <1>2. ASSUME NEW kind \in SettleKinds, SettleCall(w, kind) PROVE PromiseStep
    <2>1. tasks' = tasks
      BY <1>2 DEF SettleCall, db
    <2>2. \A u \in Tasks, v \in Workers : Holds(v, u)' <=> Holds(v, u)
      BY <1>2 DEF SettleCall, Calling, Holds, ClaimInv, TypeInv, TypeOK
    <2> QED BY <2>1, <2>2, NoTask DEF PromiseStep
  <1>3. CASE Crash(w)
    <2>1. tasks' = tasks /\ proc' = [proc EXCEPT ![w] = Idle]
      BY <1>3 DEF Crash, db
    <2>2. CASE proc[w].task = None
      <3>1. \A u \in Tasks, v \in Workers : Holds(v, u)' <=> Holds(v, u)
        BY <2>1, <2>2, OtherHandles, TasksAssumption DEF Idle, Holds
      <3> QED BY <2>1, <3>1, NoTask DEF PromiseStep
    <2>3. CASE proc[w].task # None
      <3>1. PICK t \in Tasks : Holds(w, t)
        BY <2>3 DEF Holds, ClaimInv, TypeInv, TypeOK, Proc
      <3>2. tasks'[t].status = "claimed"
        BY <2>1, <3>1 DEF ClaimInv, ExclusiveClaims
      <3> QED BY <2>1, <3>1, <3>2, ReleaseKeepsPromise
    <2> QED BY <2>2, <2>3
  <1>4. ASSUME NEW kind \in SettleKinds, SettleTxn(w, kind) PROVE PromiseStep
    <2>1. PICK t \in Tasks : proc[w].task = t
      BY <1>4 DEF SettleTxn, SettleKinds, ClaimInv, TypeInv, TypeOK, HandleShape, Proc
    <2>2. /\ proc' = [proc EXCEPT ![w] = Idle]
          /\ tasks' = [tasks EXCEPT ![t] = Settled(tasks[t], kind, proc[w].now, proc[w].verdict)]
      BY <1>4, <2>1 DEF SettleTxn, Settle, ClaimInv, TypeInv, TypeOK
    <2>3. /\ tasks[t] \in Row /\ proc[w].now \in Nat
          /\ proc[w].verdict \in {"queued", "failed", None}
      BY DEF ClaimInv, TypeInv, TypeOK, Proc
    <2>4. tasks'[t].status \in {"queued", "done", "failed"}
      BY <2>2, <2>3, SettledRow DEF ClaimInv, TypeInv, TypeOK
    <2>5. \A u \in Tasks \ {t} : tasks'[u] = tasks[u]
      BY <2>2 DEF ClaimInv, TypeInv, TypeOK
    <2> QED BY <2>1, <2>2, <2>4, <2>5, ReleaseKeepsPromise DEF Holds
  <1> QED BY <1>1, <1>2, <1>3, <1>4, ClaimKeepsPromise DEF WorkerStep

(* The queue keeps the promise of Ownership, whatever crashes and errors.  *)
THEOREM QueueKeepsPromise == Spec => OwnershipKept
  <1>1. Init => Promise!Init
    BY TasksAssumption DEF Init, Promise!Init, NoRow, Idle, Owner, Holds
  <1>2. ClaimInv /\ ClaimInv' /\ [Next]_vars => PromiseStep
    <2> SUFFICES ASSUME ClaimInv, ClaimInv', [Next]_vars PROVE PromiseStep
      OBVIOUS
    <2>1. CASE Tick \/ UNCHANGED vars
      BY <2>1, NoTask DEF PromiseStep, Tick, vars, db, Holds
    <2> QED BY <2>1, PostKeepsPromise, WorkerKeepsPromise DEF Next
  <1>3. PromiseStep => [Promise!Next]_<<Phase, Holder>>
    BY DEF PromiseStep
  <1>4. ClaimInv /\ ClaimInv' /\ [Next]_vars
          => [Promise!Next]_<<[t \in Tasks |-> tasks[t].status], [t \in Tasks |-> Owner(t)]>>
    BY <1>2, <1>3 DEF Phase, Holder
  <1> QED BY <1>1, <1>4, InitClaims, ClaimInvPreserved, PTL
          DEF Spec, OwnershipKept, Promise!Spec

-----------------------------------------------------------------------------
(* The ledger that Queue keeps in task_events: what it says of rows, of    *)
(* track records and of retries.                                           *)

Completions(t) == {e \in History(t) : e.kind = "complete"}
Handovers(t) == {e \in History(t) : StatusAfter(e) \in {"claimed", "queued"}}
Fails(t) == {e \in History(t) : e.kind = "fail"}
Counted(a, s, kind) == {e \in events : e.agent = a /\ e.kind = kind /\ tasks[e.task].sig = s}

(* AUTOINCREMENT gives every event an id of its own, below all later ones; *)
(* every event has the row its foreign key names; fails say what they      *)
(* decided.                                                                *)
LedgerIds ==
  /\ IsFiniteSet(events)
  /\ \A e \in events : e.id <= eventSeq /\ Exists(e.task)
  /\ \A e, f \in events : e.id = f.id => e = f
  /\ \A e \in events : e.kind = "fail" => e.post \in {"queued", "failed"}

RowTold(t) ==
  /\ tasks[t].attempts = Cardinality(Claims(t))
  /\ tasks[t].status = IF History(t) = {} THEN "queued" ELSE StatusAfter(LatestOf(History(t)))
  /\ tasks[t].completedAt = IF Completions(t) = {} THEN None ELSE LatestOf(Completions(t)).ts
  /\ IF Handovers(t) # {} /\ LatestOf(Handovers(t)).kind = "claim"
       THEN /\ tasks[t].claimedBy = LatestOf(Handovers(t)).agent
            /\ tasks[t].claimedAt = LatestOf(Handovers(t)).ts
       ELSE tasks[t].claimedBy = None /\ tasks[t].claimedAt = None

(* An open task has failed fewer times than it may, and than it was        *)
(* claimed before the claim that is open; a parked one has used its limit  *)
(* up.                                                                     *)
RetryCount(t) ==
  LET n == Cardinality(Fails(t)) IN
  /\ n <= tasks[t].attempts
  /\ tasks[t].status = "claimed" => n < tasks[t].attempts
  /\ tasks[t].status # "failed" => n = 0 \/ n < tasks[t].maxAttempts
  /\ tasks[t].status = "failed" =>
       /\ n <= tasks[t].maxAttempts \/ n <= 1
       /\ tasks[t].attempts >= tasks[t].maxAttempts

(* What holds whoever settles what *)
LedgerTold ==
  /\ TypeOK
  /\ LedgerIds
  /\ \A t \in Tasks : Exists(t) => RowTold(t)

LedgerOK ==
  /\ LedgerTold
  /\ \A t \in Tasks : Exists(t) => RetryCount(t)
  /\ LedgerAlternates
  /\ TrackRecordIsLedger

LEMMA ToldIsDetermined ==
  (\A t \in Tasks : Exists(t) => RowTold(t)) <=> LedgerDeterminesRow
  BY DEF RowTold, LedgerDeterminesRow, Completions, Handovers

-----------------------------------------------------------------------------
(* Operators *)

(* The latest event of a task that has any *)
LEMMA LatestEvent ==
  ASSUME LedgerTold, NEW t \in Tasks, History(t) # {}
  PROVE  /\ LatestOf(History(t)) \in History(t)
         /\ \A f \in History(t) : f.id <= LatestOf(History(t)).id
  <1>1. /\ eventSeq \in Nat
        /\ \A e \in History(t) : e.id \in Nat /\ e.id <= eventSeq
        /\ \A e, f \in History(t) : e.id = f.id => e = f
    BY DEF LedgerTold, LedgerIds, History, TypeOK, Event
  <1> QED BY <1>1, SomeLatest

(* A claimed task was claimed by its latest event, by its claimant.        *)
LEMMA ClaimedByLatest ==
  ASSUME LedgerTold, NEW t \in Tasks, tasks[t].status = "claimed"
  PROVE  /\ History(t) # {}
         /\ LatestOf(History(t)).kind = "claim"
         /\ LatestOf(History(t)).agent = tasks[t].claimedBy
         /\ Handovers(t) # {} /\ LatestOf(Handovers(t)).kind = "claim"
  <1> DEFINE e == LatestOf(History(t))
  <1>1. RowTold(t)
    BY DEF LedgerTold, Exists
  <1>2. History(t) # {} /\ StatusAfter(e) = "claimed"
    BY <1>1 DEF RowTold
  <1>3. e \in History(t) /\ \A f \in History(t) : f.id <= e.id
    BY <1>2, LatestEvent
  <1>4. e \in Event /\ (e.kind = "fail" => e.post \in {"queued", "failed"})
        /\ (\A f \in History(t) : f.id \in Nat /\ (f.id = e.id => f = e))
    BY <1>3 DEF LedgerTold, LedgerIds, History, TypeOK, Event
  <1> HIDE DEF e
  <1>5. e.kind = "claim"
    BY <1>2, <1>4 DEF StatusAfter, Event, SettleKinds
  <1>6. e \in Handovers(t)
    BY <1>2, <1>3 DEF Handovers
  <1>7. LatestOf(Handovers(t)) = e
    BY <1>3, <1>4, <1>6, LatestIsHighest DEF Handovers
  <1>8. tasks[t].claimedBy = e.agent
    BY <1>1, <1>5, <1>6, <1>7 DEF RowTold
  <1> QED BY <1>2, <1>5, <1>6, <1>7, <1>8 DEF e

(* One event more *)
LEMMA Appended ==
  ASSUME LedgerTold, NEW t \in Tasks, NEW kind, NEW ts, NEW a, NEW post,
         Log(t, kind, ts, a, post)
  PROVE  \E n : /\ n = [id |-> eventSeq + 1, task |-> t, kind |-> kind, ts |-> ts,
                        agent |-> a, post |-> post]
                /\ events' = events \cup {n} /\ eventSeq' = n.id
                /\ eventSeq' = eventSeq + 1
                /\ n \notin events
                /\ \A e \in events : e.id < n.id /\ e.id \in Nat
                /\ History(t)' = History(t) \cup {n}
                /\ \A u \in Tasks : u # t => History(u)' = History(u)
  <1> DEFINE n == [id |-> eventSeq + 1, task |-> t, kind |-> kind, ts |-> ts,
                   agent |-> a, post |-> post]
  <1>1. events' = events \cup {n} /\ eventSeq' = eventSeq + 1
    BY DEF Log
  <1>2. \A e \in events : e.id \in Nat /\ e.id < n.id
    BY DEF LedgerTold, LedgerIds, TypeOK, Event
  <1>3. n.task = t /\ n.id = eventSeq + 1
    OBVIOUS
  <1> HIDE DEF n
  <1>4. n \notin events
    BY <1>2
  <1>5. History(t)' = History(t) \cup {n}
    BY <1>1, <1>3 DEF History
  <1>6. \A u \in Tasks : u # t => History(u)' = History(u)
    BY <1>1, <1>3 DEF History
  <1> QED BY <1>1, <1>2, <1>3, <1>4, <1>5, <1>6 DEF n
-----------------------------------------------------------------------------
(* What an appended event leaves of the invariant's parts about events *)

LEMMA IdsKept ==
  ASSUME LedgerTold, NEW t \in Tasks, NEW kind \in SettleKinds \cup {"claim"}, NEW ts \in Nat,
         NEW a \in Agents, NEW post \in {"queued", "failed", None},
         Log(t, kind, ts, a, post), kind = "fail" => post \in {"queued", "failed"},
         Exists(t)', \A u \in Tasks : Exists(u) => Exists(u)'
  PROVE  LedgerIds'
  <1>1. PICK n :
          /\ n.id = eventSeq + 1 /\ n.task = t /\ n.kind = kind /\ n.post = post
          /\ events' = events \cup {n} /\ eventSeq' = n.id
          /\ n \notin events
          /\ \A e \in events : e.id < n.id /\ e.id \in Nat
          /\ History(t)' = History(t) \cup {n}
          /\ \A u \in Tasks : u # t => History(u)' = History(u)
    BY Appended
  <1>2. n.id \in Nat
    BY <1>1 DEF LedgerTold, TypeOK
  <1>3. IsFiniteSet(events')
    BY <1>1, FS_AddElement DEF LedgerTold, LedgerIds
  <1>4. \A e \in events' : e.id <= eventSeq' /\ Exists(e.task)'
    <2>1. \A e \in events : e.task \in Tasks
      BY DEF LedgerTold, TypeOK, Event
    <2> QED BY <1>1, <1>2, <2>1 DEF LedgerTold, LedgerIds
  <1>5. /\ \A e, f \in events' : e.id = f.id => e = f
        /\ \A e \in events' : e.kind = "fail" => e.post \in {"queued", "failed"}
    BY <1>1 DEF LedgerTold, LedgerIds
  <1> QED BY <1>3, <1>4, <1>5 DEF LedgerIds

LEMMA AlternatesKept ==
  ASSUME LedgerTold, LedgerAlternates, NEW t \in Tasks, NEW kind, NEW ts, NEW a, NEW post,
         Log(t, kind, ts, a, post),
         kind = "claim" => History(t) = {} \/ StatusAfter(LatestOf(History(t))) = "queued",
         kind # "claim" => /\ History(t) # {}
                           /\ LatestOf(History(t)).kind = "claim"
                           /\ LatestOf(History(t)).agent = a
  PROVE  LedgerAlternates'
  <1>1. PICK n :
          /\ n.task = t /\ n.kind = kind /\ n.agent = a
          /\ events' = events \cup {n}
          /\ \A e \in events : e.id < n.id /\ e.id \in Nat
          /\ History(t)' = History(t) \cup {n}
          /\ \A u \in Tasks : u # t => History(u)' = History(u)
          /\ n.id = eventSeq + 1
    BY Appended
  <1>2. n.id \in Nat
    BY <1>1 DEF LedgerTold, TypeOK
  <1> DEFINE Before(H, e) == {f \in H : f.id < e.id}
             Turn(e, before) ==
               IF e.kind = "claim"
                 THEN before = {} \/ StatusAfter(LatestOf(before)) = "queued"
                 ELSE /\ before # {} /\ LatestOf(before).kind = "claim"
                      /\ LatestOf(before).agent = e.agent
  <1>3. ASSUME NEW e \in events PROVE Turn(e, Before(History(e.task)', e))
    <2>1. Turn(e, Before(History(e.task), e))
      BY DEF LedgerTold, LedgerAlternates
    <2>2. e.task \in Tasks
      BY DEF LedgerTold, TypeOK, Event
    <2>3. Before(History(e.task)', e) = Before(History(e.task), e)
      BY <1>1, <1>2, <2>2
    <2> QED BY <2>1, <2>3
  <1>4. Turn(n, Before(History(n.task)', n))
    <2>1. Before(History(t)', n) = History(t)
      BY <1>1, <1>2 DEF History
    <2> QED BY <1>1, <2>1
  <1>5. \A e \in events' : Turn(e, Before(History(e.task)', e))
    BY <1>1, <1>3, <1>4
  <1> QED BY <1>5 DEF LedgerAlternates

(* Counters and ledger grow together.                                      *)
LEMMA TrackKept ==
  ASSUME LedgerTold, TrackRecordIsLedger, NEW t \in Tasks, NEW kind, NEW ts, NEW a, NEW post,
         Log(t, kind, ts, a, post), Exists(t),
         \A u \in Tasks : Exists(u) => tasks'[u].sig = tasks[u].sig,
         \/ kind \notin SettleKinds /\ UNCHANGED track
         \/ kind \in SettleKinds /\ a \in Agents /\ Credit(a, tasks[t].sig, kind)
  PROVE  TrackRecordIsLedger'
  <1>1. PICK n :
          /\ n.task = t /\ n.kind = kind /\ n.agent = a
          /\ events' = events \cup {n} /\ n \notin events
    BY Appended
  <1>2. \A e \in events : e.task \in Tasks /\ tasks'[e.task].sig = tasks[e.task].sig
    BY DEF LedgerTold, LedgerIds, TypeOK, Event
  <1>3. tasks[t].sig \in Signatures /\ tasks'[t].sig = tasks[t].sig
    BY DEF LedgerTold, TypeOK
  <1>4. SUFFICES ASSUME NEW b \in Agents, NEW s \in Signatures, NEW k \in SettleKinds
                 PROVE  track'[<<b, s, k>>] = Cardinality(Counted(b, s, k)')
    BY DEF TrackRecordIsLedger, Counted
  <1>5. /\ IsFiniteSet(Counted(b, s, k))
        /\ track[<<b, s, k>>] = Cardinality(Counted(b, s, k))
        /\ track[<<b, s, k>>] \in Nat
    <2>1. Counted(b, s, k) \in SUBSET events
      BY DEF Counted
    <2>2. track[<<b, s, k>>] \in Nat
      BY DEF LedgerTold, TypeOK
    <2> QED BY <2>1, <2>2, FS_Subset DEF LedgerTold, LedgerIds, TrackRecordIsLedger, Counted
  <1>6. CASE b = a /\ s = tasks[t].sig /\ k = kind
    <2>1. Counted(b, s, k)' = Counted(b, s, k) \cup {n} /\ n \notin Counted(b, s, k)
      BY <1>1, <1>2, <1>3, <1>6 DEF Counted
    <2>2. Cardinality(Counted(b, s, k)') = Cardinality(Counted(b, s, k)) + 1
      BY <1>5, <2>1, FS_AddElement
    <2>3. track'[<<b, s, k>>] = track[<<b, s, k>>] + 1
      BY <1>6 DEF Credit, LedgerTold, TypeOK
    <2> QED BY <1>5, <2>2, <2>3
  <1>7. CASE ~(b = a /\ s = tasks[t].sig /\ k = kind)
    <2>1. Counted(b, s, k)' = Counted(b, s, k)
      BY <1>1, <1>2, <1>3, <1>7 DEF Counted
    <2>2. track'[<<b, s, k>>] = track[<<b, s, k>>]
      BY <1>7 DEF Credit, LedgerTold, TypeOK
    <2> QED BY <1>5, <2>1, <2>2
  <1> QED BY <1>6, <1>7
-----------------------------------------------------------------------------
(* Rows *)

LEMMA OtherRows ==
  ASSUME NEW u \in Tasks, tasks'[u] = tasks[u], History(u)' = History(u)
  PROVE  /\ RowTold(u) => RowTold(u)'
         /\ RetryCount(u) => RetryCount(u)'
  <1>1. /\ Claims(u)' = Claims(u) /\ Completions(u)' = Completions(u)
        /\ Handovers(u)' = Handovers(u) /\ Fails(u)' = Fails(u)
    BY DEF Claims, Completions, Handovers, Fails
  <1>2. LatestOf(History(u))' = LatestOf(History(u))
    BY DEF LatestOf
  <1>3. RowTold(u) => RowTold(u)'
    BY <1>1, <1>2 DEF RowTold
  <1>4. RetryCount(u) => RetryCount(u)'
    BY <1>1 DEF RetryCount
  <1> QED BY <1>3, <1>4

LEMMA HistoryFinite ==
  ASSUME LedgerTold, NEW t \in Tasks
  PROVE  /\ IsFiniteSet(Claims(t)) /\ IsFiniteSet(Fails(t))
         /\ Cardinality(Claims(t)) \in Nat /\ Cardinality(Fails(t)) \in Nat
  <1>1. Claims(t) \in SUBSET events /\ Fails(t) \in SUBSET events
    BY DEF Claims, Fails, History
  <1>2. IsFiniteSet(Claims(t)) /\ IsFiniteSet(Fails(t))
    BY <1>1, FS_Subset DEF LedgerTold, LedgerIds
  <1> QED BY <1>2, FS_CardinalityType

(* The new event is the latest of everything it belongs to.                *)
LEMMA NewestHistory ==
  ASSUME LedgerTold, NEW t \in Tasks, NEW kind, NEW ts, NEW a, NEW post,
         Log(t, kind, ts, a, post)
  PROVE  \E n :
           /\ n.kind = kind /\ n.ts = ts /\ n.agent = a /\ n.post = post
           /\ History(t)' = History(t) \cup {n} /\ n \notin History(t)
           /\ LatestOf(History(t)') = n
           /\ n \in Handovers(t)' => LatestOf(Handovers(t)') = n
           /\ n \in Completions(t)' => LatestOf(Completions(t)') = n
           /\ Cardinality(Claims(t)')
                = Cardinality(Claims(t)) + (IF kind = "claim" THEN 1 ELSE 0)
           /\ Cardinality(Fails(t)')
                = Cardinality(Fails(t)) + (IF kind = "fail" THEN 1 ELSE 0)
  <1>1. PICK n :
          /\ n.id = eventSeq + 1 /\ n.kind = kind /\ n.ts = ts /\ n.agent = a /\ n.post = post
          /\ n \notin events
          /\ \A e \in events : e.id < n.id /\ e.id \in Nat
          /\ History(t)' = History(t) \cup {n}
    BY Appended
  <1>2. n.id \in Nat
    BY <1>1 DEF LedgerTold, TypeOK
  <1>3. \A f \in History(t)' : f.id \in Nat /\ f.id <= n.id /\ (f.id = n.id => f = n)
    BY <1>1, <1>2 DEF History
  <1>4. \A S \in SUBSET (History(t)') : n \in S => LatestOf(S) = n
    BY <1>3, LatestIsHighest
  <1>5. Handovers(t)' \subseteq History(t)' /\ Completions(t)' \subseteq History(t)'
    BY DEF Handovers, Completions
  <1>6. n \notin History(t)
    BY <1>1 DEF History
  <1>7. Cardinality(Claims(t)') = Cardinality(Claims(t)) + (IF kind = "claim" THEN 1 ELSE 0)
    <2>1. CASE kind = "claim"
      <3>1. Claims(t)' = Claims(t) \cup {n} /\ n \notin Claims(t)
        BY <1>1, <1>6, <2>1 DEF Claims
      <3> QED BY <2>1, <3>1, HistoryFinite, FS_AddElement
    <2>2. CASE kind # "claim"
      <3>1. Claims(t)' = Claims(t)
        BY <1>1, <2>2 DEF Claims
      <3> QED BY <2>2, <3>1, HistoryFinite
    <2> QED BY <2>1, <2>2
  <1>8. Cardinality(Fails(t)') = Cardinality(Fails(t)) + (IF kind = "fail" THEN 1 ELSE 0)
    <2>1. CASE kind = "fail"
      <3>1. Fails(t)' = Fails(t) \cup {n} /\ n \notin Fails(t)
        BY <1>1, <1>6, <2>1 DEF Fails
      <3> QED BY <2>1, <3>1, HistoryFinite, FS_AddElement
    <2>2. CASE kind # "fail"
      <3>1. Fails(t)' = Fails(t)
        BY <1>1, <2>2 DEF Fails
      <3> QED BY <2>2, <3>1, HistoryFinite
    <2> QED BY <2>1, <2>2
  <1> QED BY <1>1, <1>4, <1>5, <1>6, <1>7, <1>8

(* A task is posted with an empty history.                                 *)
LEMMA PostTold ==
  ASSUME LedgerTold, NEW t \in Tasks, NEW row, ~Exists(t),
         row.status = "queued", row.attempts = 0, row.claimedBy = None,
         row.claimedAt = None, row.completedAt = None,
         tasks' = [tasks EXCEPT ![t] = row], UNCHANGED <<events, eventSeq>>, TypeOK'
  PROVE  /\ LedgerTold' /\ RowTold(t)' /\ History(t)' = {}
         /\ \A u \in Tasks : History(u)' = History(u)
         /\ Exists(t)' /\ \A u \in Tasks : u # t => tasks'[u] = tasks[u]
  <1>1. /\ tasks'[t] = row /\ \A u \in Tasks : u # t => tasks'[u] = tasks[u]
    BY DEF LedgerTold, TypeOK
  <1>2. Exists(t)' /\ \A u \in Tasks : Exists(u) => u # t /\ Exists(u)'
    BY <1>1 DEF Exists
  <1>3. History(t) = {} /\ \A u \in Tasks : History(u)' = History(u)
    BY DEF History, LedgerTold, LedgerIds
  <1>4. LedgerIds'
    <2>1. \A e \in events : e.task \in Tasks
      BY DEF LedgerTold, TypeOK, Event
    <2> QED BY <1>2, <1>3, <2>1 DEF LedgerTold, LedgerIds
  <1>5. RowTold(t)'
    <2>1. /\ History(t)' = {} /\ Claims(t)' = {} /\ Completions(t)' = {}
          /\ Handovers(t)' = {}
      BY <1>3 DEF Claims, Completions, Handovers
    <2>2. Cardinality({}) = 0
      BY FS_EmptySet
    <2> QED BY <1>1, <2>1, <2>2 DEF RowTold
  <1>6. \A u \in Tasks : Exists(u)' => RowTold(u)'
    <2>1. ASSUME NEW u \in Tasks, Exists(u)', u # t PROVE RowTold(u)'
      BY <1>1, <1>3, <2>1, OtherRows DEF LedgerTold, Exists
    <2> QED BY <1>5, <2>1
  <1> QED BY <1>1, <1>2, <1>3, <1>4, <1>5, <1>6 DEF LedgerTold

LEMMA PostLedger ==
  ASSUME LedgerOK, NEW t \in Tasks, NEW row, ~Exists(t),
         row.status = "queued", row.attempts = 0, row.claimedBy = None,
         row.claimedAt = None, row.completedAt = None,
         tasks' = [tasks EXCEPT ![t] = row], UNCHANGED <<events, eventSeq, track>>, TypeOK'
  PROVE  LedgerOK'
  <1>1. LedgerTold
    BY DEF LedgerOK
  <1>2. /\ LedgerTold' /\ History(t)' = {}
        /\ \A u \in Tasks : History(u)' = History(u)
        /\ Exists(t)' /\ \A u \in Tasks : u # t => tasks'[u] = tasks[u]
    BY <1>1, PostTold
  <1>3. tasks'[t] = row
    BY <1>1 DEF LedgerTold, TypeOK
  <1>4. LedgerAlternates'
    <2>1. \A e \in events : e.task \in Tasks
      BY <1>1 DEF LedgerTold, TypeOK, Event
    <2> QED BY <1>2, <2>1 DEF LedgerOK, LedgerAlternates
  <1>5. RetryCount(t)'
    <2>1. Fails(t)' = {}
      BY <1>2 DEF Fails
    <2>2. Cardinality({}) = 0
      BY FS_EmptySet
    <2> QED BY <1>3, <2>1, <2>2 DEF RetryCount
  <1>6. \A u \in Tasks : Exists(u)' => RetryCount(u)'
    <2>1. ASSUME NEW u \in Tasks, Exists(u)', u # t PROVE RetryCount(u)'
      BY <1>2, <2>1, OtherRows DEF LedgerOK, Exists
    <2> QED BY <1>5, <2>1
  <1>7. TrackRecordIsLedger'
    <2>1. \A e \in events : tasks'[e.task] = tasks[e.task]
      BY <1>1, <1>2 DEF LedgerTold, LedgerIds, TypeOK, Event
    <2>2. \A a \in Agents, s \in Signatures, kind \in SettleKinds :
            Counted(a, s, kind)' = Counted(a, s, kind)
      BY <2>1 DEF Counted
    <2>3. ASSUME NEW a \in Agents, NEW s \in Signatures, NEW kind \in SettleKinds
          PROVE  track'[<<a, s, kind>>] = Cardinality(Counted(a, s, kind)')
      BY <2>2 DEF LedgerOK, TrackRecordIsLedger, Counted
    <2> QED BY <2>3 DEF TrackRecordIsLedger, Counted
  <1> QED BY <1>2, <1>4, <1>6, <1>7 DEF LedgerOK

(* A claim of an open task, by whatever agent                              *)
LEMMA ClaimTold ==
  ASSUME LedgerTold, NEW t \in Tasks, NEW a \in Agents, NEW now \in Nat,
         tasks[t].status = "queued",
         tasks' = [tasks EXCEPT ![t] = Claimed(tasks[t], a, now)],
         Log(t, "claim", now, a, None), TypeOK'
  PROVE  LedgerTold'
  <1>1. tasks[t] \in Row
    BY DEF LedgerTold, TypeOK
  <1>2. /\ tasks'[t].status = "claimed" /\ tasks'[t].claimedBy = a /\ tasks'[t].claimedAt = now
        /\ tasks'[t].attempts = tasks[t].attempts + 1
        /\ tasks'[t].completedAt = tasks[t].completedAt
        /\ tasks'[t].sig = tasks[t].sig /\ tasks'[t].maxAttempts = tasks[t].maxAttempts
        /\ \A u \in Tasks : u # t => tasks'[u] = tasks[u]
    BY <1>1 DEF Claimed, Row, LedgerTold, TypeOK
  <1>3. /\ Exists(t) /\ \A u \in Tasks : Exists(u)' <=> Exists(u)
        /\ \A u \in Tasks : tasks'[u].sig = tasks[u].sig
    BY <1>2 DEF Exists
  <1>4. RowTold(t)
    BY <1>3 DEF LedgerTold
  <1>5. PICK n :
          /\ n.kind = "claim" /\ n.ts = now /\ n.agent = a /\ n.post = None
          /\ History(t)' = History(t) \cup {n}
          /\ LatestOf(History(t)') = n
          /\ n \in Handovers(t)' => LatestOf(Handovers(t)') = n
          /\ Cardinality(Claims(t)') = Cardinality(Claims(t)) + 1
    BY NewestHistory
  <1>6. StatusAfter(n) = "claimed" /\ n \in Handovers(t)'
    BY <1>5 DEF StatusAfter, Handovers
  <1>7. Completions(t)' = Completions(t)
    BY <1>5 DEF Completions
  <1>8. RowTold(t)'
    <2>1. tasks'[t].attempts = Cardinality(Claims(t)')
      BY <1>2, <1>4, <1>5 DEF RowTold
    <2>2. tasks'[t].status = StatusAfter(LatestOf(History(t)')) /\ History(t)' # {}
      BY <1>2, <1>5, <1>6
    <2>3. tasks'[t].completedAt
            = IF Completions(t)' = {} THEN None ELSE LatestOf(Completions(t)').ts
      BY <1>2, <1>4, <1>7 DEF RowTold
    <2>4. /\ Handovers(t)' # {} /\ LatestOf(Handovers(t)').kind = "claim"
          /\ tasks'[t].claimedBy = LatestOf(Handovers(t)').agent
          /\ tasks'[t].claimedAt = LatestOf(Handovers(t)').ts
      BY <1>2, <1>5, <1>6
    <2> QED BY <2>1, <2>2, <2>3, <2>4 DEF RowTold
  <1>9. \A u \in Tasks : u # t => History(u)' = History(u)
    BY Appended
  <1>10. \A u \in Tasks : Exists(u)' => RowTold(u)'
    <2>1. ASSUME NEW u \in Tasks, Exists(u)', u # t PROVE RowTold(u)'
      BY <1>2, <1>3, <1>9, <2>1, OtherRows DEF LedgerTold
    <2> QED BY <1>8, <2>1
  <1>11. LedgerIds'
    BY <1>3, IdsKept
  <1> QED BY <1>10, <1>11 DEF LedgerTold

LEMMA ClaimLedger ==
  ASSUME LedgerOK, NEW t \in Tasks, NEW a \in Agents, NEW now \in Nat,
         tasks[t].status = "queued",
         tasks' = [tasks EXCEPT ![t] = Claimed(tasks[t], a, now)],
         Log(t, "claim", now, a, None), UNCHANGED track, TypeOK'
  PROVE  LedgerOK'
  <1>1. LedgerTold /\ LedgerTold'
    BY ClaimTold DEF LedgerOK
  <1>2. /\ tasks'[t].status = "claimed"
        /\ tasks'[t].attempts = tasks[t].attempts + 1 /\ tasks[t].attempts \in Nat
        /\ tasks'[t].sig = tasks[t].sig /\ tasks'[t].maxAttempts = tasks[t].maxAttempts
        /\ \A u \in Tasks : u # t => tasks'[u] = tasks[u]
    BY <1>1 DEF Claimed, Row, LedgerTold, TypeOK
  <1>3. /\ Exists(t) /\ \A u \in Tasks : Exists(u)' <=> Exists(u)
        /\ \A u \in Tasks : tasks'[u].sig = tasks[u].sig
    BY <1>2 DEF Exists
  <1>4. RowTold(t) /\ RetryCount(t)
    BY <1>1, <1>3 DEF LedgerTold, LedgerOK
  <1>5. RetryCount(t)'
    <2>1. /\ Cardinality(Fails(t)') = Cardinality(Fails(t)) + 0
          /\ Cardinality(Fails(t)) \in Nat
      BY <1>1, HistoryFinite, NewestHistory
    <2> QED BY <1>2, <1>4, <2>1 DEF RetryCount
  <1>6. \A u \in Tasks : u # t => History(u)' = History(u)
    BY <1>1, Appended
  <1>7. \A u \in Tasks : Exists(u)' => RetryCount(u)'
    <2>1. ASSUME NEW u \in Tasks, Exists(u)', u # t PROVE RetryCount(u)'
      BY <1>2, <1>3, <1>6, <2>1, OtherRows DEF LedgerOK
    <2> QED BY <1>5, <2>1
  <1>8. LedgerAlternates'
    <2>1. History(t) = {} \/ StatusAfter(LatestOf(History(t))) = "queued"
      BY <1>4 DEF RowTold
    <2> QED BY <1>1, <2>1, AlternatesKept DEF LedgerOK
  <1>9. TrackRecordIsLedger'
    BY <1>1, <1>3, TrackKept DEF SettleKinds, LedgerOK
  <1> QED BY <1>1, <1>7, <1>8, <1>9 DEF LedgerOK

(* Any settlement that finds its row, whoever runs it, whatever the status *)
LEMMA SettleTold ==
  ASSUME LedgerTold, NEW t \in Tasks, NEW a \in Agents, NEW sig, NEW now \in Nat,
         NEW kind \in SettleKinds, NEW verdict \in {"queued", "failed", None},
         kind = "fail" => verdict \in {"queued", "failed"},
         Settle(t, a, sig, kind, now, verdict), TypeOK'
  PROVE  LedgerTold'
  <1> DEFINE row == Settled(tasks[t], kind, now, verdict)
  <1>1. tasks[t] \in Row /\ Exists(t)
    BY DEF Settle, LedgerTold, TypeOK
  <1>2. Log(t, kind, now, a, verdict)
    BY DEF Settle
  <1>3. tasks'[t] = row /\ \A u \in Tasks : u # t => tasks'[u] = tasks[u]
    BY DEF Settle, LedgerTold, TypeOK
  <1>4. /\ row.attempts = tasks[t].attempts /\ row.sig = tasks[t].sig
        /\ row.maxAttempts = tasks[t].maxAttempts
        /\ row.status \in {"queued", "done", "failed"}
    BY <1>1 DEF Settled, Requeued, Row, SettleKinds
  <1>5. RowTold(t)
    BY <1>1 DEF LedgerTold
  <1>6. PICK n :
          /\ n.kind = kind /\ n.ts = now /\ n.agent = a /\ n.post = verdict
          /\ History(t)' = History(t) \cup {n}
          /\ LatestOf(History(t)') = n
          /\ n \in Handovers(t)' => LatestOf(Handovers(t)') = n
          /\ n \in Completions(t)' => LatestOf(Completions(t)') = n
          /\ Cardinality(Claims(t)')
               = Cardinality(Claims(t)) + (IF kind = "claim" THEN 1 ELSE 0)
    BY <1>2, NewestHistory
  <1>7. Exists(t)' /\ \A u \in Tasks : Exists(u) => Exists(u)'
    BY <1>3, <1>4 DEF Exists
  <1>8. LedgerIds'
    BY <1>2, <1>7, IdsKept
  <1>9. Cardinality(Claims(t)') = Cardinality(Claims(t))
    BY <1>6, HistoryFinite DEF SettleKinds
  <1>10. RowTold(t)'
    <2>1. tasks'[t].attempts = Cardinality(Claims(t)')
      BY <1>3, <1>4, <1>5, <1>9 DEF RowTold
    <2>2. History(t)' # {}
      BY <1>6
    <2>3. CASE kind = "complete"
      <3>1. /\ tasks'[t].status = "done" /\ tasks'[t].completedAt = now
            /\ tasks'[t].claimedBy = tasks[t].claimedBy
            /\ tasks'[t].claimedAt = tasks[t].claimedAt
        BY <1>1, <1>3, <2>3 DEF Settled, Row
      <3>2. StatusAfter(n) = "done" /\ n \in Completions(t)'
        BY <1>6, <2>3 DEF StatusAfter, Completions
      <3>3. Handovers(t)' = Handovers(t)
        BY <1>6, <3>2 DEF Handovers
      <3> QED BY <1>5, <1>6, <2>1, <2>2, <3>1, <3>2, <3>3 DEF RowTold
    <2>4. CASE kind = "fail" /\ verdict = "failed"
      <3>1. /\ tasks'[t].status = "failed" /\ tasks'[t].completedAt = tasks[t].completedAt
            /\ tasks'[t].claimedBy = tasks[t].claimedBy
            /\ tasks'[t].claimedAt = tasks[t].claimedAt
        BY <1>1, <1>3, <2>4 DEF Settled, Row
      <3>2. StatusAfter(n) = "failed"
        BY <1>6, <2>4 DEF StatusAfter
      <3>3. Handovers(t)' = Handovers(t) /\ Completions(t)' = Completions(t)
        BY <1>6, <2>4, <3>2 DEF Handovers, Completions
      <3> QED BY <1>5, <1>6, <2>1, <2>2, <3>1, <3>2, <3>3 DEF RowTold
    <2>5. CASE kind = "decline" \/ (kind = "fail" /\ verdict = "queued")
      <3>1. /\ tasks'[t].status = "queued" /\ tasks'[t].completedAt = tasks[t].completedAt
            /\ tasks'[t].claimedBy = None /\ tasks'[t].claimedAt = None
        BY <1>1, <1>3, <2>5 DEF Settled, Requeued, Row
      <3>2. StatusAfter(n) = "queued" /\ n \in Handovers(t)' /\ n.kind # "claim"
        BY <1>6, <2>5 DEF StatusAfter, Handovers
      <3>3. Completions(t)' = Completions(t)
        BY <1>6, <2>5 DEF Completions
      <3>4. tasks'[t].completedAt
              = IF Completions(t)' = {} THEN None ELSE LatestOf(Completions(t)').ts
        BY <1>5, <3>1, <3>3 DEF RowTold
      <3>5. ~ (Handovers(t)' # {} /\ LatestOf(Handovers(t)').kind = "claim")
        <4>1. LatestOf(Handovers(t)') = n
          BY <1>6, <3>2
        <4> QED BY <3>2, <4>1
      <3>6. tasks'[t].status = StatusAfter(LatestOf(History(t)'))
        BY <1>6, <3>1, <3>2
      <3> QED BY <2>1, <2>2, <3>1, <3>4, <3>5, <3>6 DEF RowTold
    <2>6. \/ kind = "complete"
          \/ kind = "fail" /\ verdict = "failed"
          \/ kind = "decline" \/ (kind = "fail" /\ verdict = "queued")
      BY DEF SettleKinds
    <2> QED BY <2>3, <2>4, <2>5, <2>6
  <1>11. \A u \in Tasks : u # t => History(u)' = History(u)
    BY <1>2, Appended
  <1>12. \A u \in Tasks : Exists(u)' => RowTold(u)'
    <2>1. ASSUME NEW u \in Tasks, Exists(u)', u # t PROVE RowTold(u)'
      BY <1>3, <1>11, <2>1, OtherRows DEF LedgerTold, Exists
    <2> QED BY <1>10, <2>1
  <1> QED BY <1>8, <1>12 DEF LedgerTold

(* A settlement by the claimant, of a task that is claimed, whose verdict  *)
(* is that of the row it finds                                             *)
LEMMA SettleLedger ==
  ASSUME LedgerOK, NEW t \in Tasks, NEW a \in Agents, NEW now \in Nat,
         NEW kind \in SettleKinds, NEW verdict,
         tasks[t].status = "claimed", tasks[t].claimedBy = a,
         verdict = IF kind = "fail" THEN Verdict(t) ELSE None,
         Settle(t, a, tasks[t].sig, kind, now, verdict), TypeOK'
  PROVE  LedgerOK'
  <1> DEFINE row == Settled(tasks[t], kind, now, verdict)
  <1>1. LedgerTold /\ tasks[t] \in Row /\ Exists(t)
    BY DEF LedgerOK, LedgerTold, TypeOK, Exists
  <1>2. Log(t, kind, now, a, verdict) /\ Credit(a, tasks[t].sig, kind)
    BY DEF Settle
  <1>3. tasks'[t] = row /\ \A u \in Tasks : u # t => tasks'[u] = tasks[u]
    BY <1>1 DEF Settle, LedgerTold, TypeOK
  <1>4. /\ row.attempts = tasks[t].attempts /\ row.sig = tasks[t].sig
        /\ row.maxAttempts = tasks[t].maxAttempts
    BY <1>1 DEF Settled, Requeued, Row, SettleKinds
  <1>5. /\ verdict \in {"queued", "failed", None}
        /\ kind = "fail" => verdict \in {"queued", "failed"}
    BY DEF Verdict
  <1>6. RetryCount(t)
    BY <1>1 DEF LedgerOK
  <1>7. LedgerTold'
    BY <1>1, <1>5, SettleTold
  <1>8. LedgerAlternates'
    BY <1>1, <1>2, ClaimedByLatest, AlternatesKept DEF SettleKinds, LedgerOK
  <1>9. TrackRecordIsLedger'
    BY <1>1, <1>2, <1>3, <1>4, TrackKept DEF LedgerOK
  <1>10. Cardinality(Fails(t)')
           = Cardinality(Fails(t)) + (IF kind = "fail" THEN 1 ELSE 0)
    BY <1>1, <1>2, NewestHistory
  <1>11. RetryCount(t)'
    <2> DEFINE m == Cardinality(Fails(t))
    <2>1. m \in Nat /\ m < tasks[t].attempts /\ (m = 0 \/ m < tasks[t].maxAttempts)
      BY <1>1, <1>6, HistoryFinite DEF RetryCount
    <2>2. tasks[t].attempts \in Nat /\ tasks[t].maxAttempts \in Int
      BY <1>1 DEF Row
    <2>3. CASE kind # "fail"
      <3>1. Cardinality(Fails(t)') = m
        BY <1>10, <2>1, <2>3
      <3>2. tasks'[t].status \in {"queued", "done"}
        BY <1>1, <1>3, <2>3 DEF Settled, Requeued, Row, SettleKinds
      <3> QED BY <1>3, <1>4, <2>1, <2>2, <3>1, <3>2 DEF RetryCount
    <2>4. CASE kind = "fail"
      <3>1. Cardinality(Fails(t)') = m + 1
        BY <1>10, <2>1, <2>4
      <3>2. CASE verdict = "queued"
        <4>1. tasks[t].attempts < tasks[t].maxAttempts
          BY <2>4, <3>2 DEF Verdict
        <4>2. tasks'[t].status = "queued"
          BY <1>1, <1>3, <2>4, <3>2 DEF Settled, Requeued, Row
        <4> QED BY <1>3, <1>4, <2>1, <2>2, <3>1, <4>1, <4>2 DEF RetryCount
      <3>3. CASE verdict = "failed"
        <4>1. ~(tasks[t].attempts < tasks[t].maxAttempts)
          BY <1>1, <2>4, <3>3 DEF Verdict
        <4>2. tasks'[t].status = "failed"
          BY <1>1, <1>3, <2>4, <3>3 DEF Settled, Row
        <4> QED BY <1>3, <1>4, <2>1, <2>2, <3>1, <4>1, <4>2 DEF RetryCount
      <3> QED BY <1>5, <2>4, <3>2, <3>3
    <2> QED BY <2>3, <2>4
  <1>12. \A u \in Tasks : u # t => History(u)' = History(u)
    BY <1>1, <1>2, Appended
  <1>13. \A u \in Tasks : Exists(u)' => RetryCount(u)'
    <2>1. ASSUME NEW u \in Tasks, Exists(u)', u # t PROVE RetryCount(u)'
      BY <1>3, <1>12, <2>1, OtherRows DEF LedgerOK, Exists
    <2> QED BY <1>11, <2>1
  <1> QED BY <1>7, <1>8, <1>9, <1>13 DEF LedgerOK
-----------------------------------------------------------------------------
(* The queue *)

LEMMA ToldUntouched ==
  ASSUME LedgerTold, UNCHANGED db, TypeOK' PROVE LedgerTold'
  <1>1. UNCHANGED <<tasks, events, eventSeq, track>>
    BY DEF db
  <1>2. \A t \in Tasks : History(t)' = History(t) /\ Exists(t)' = Exists(t)
    BY <1>1 DEF History, Exists
  <1>3. LedgerIds'
    BY <1>1 DEF LedgerTold, LedgerIds, Exists
  <1>4. \A t \in Tasks : Exists(t)' => RowTold(t)'
    BY <1>1, <1>2, OtherRows DEF LedgerTold
  <1> QED BY <1>3, <1>4 DEF LedgerTold

LEMMA LedgerUntouched ==
  ASSUME LedgerOK, UNCHANGED db, TypeOK' PROVE LedgerOK'
  <1>1. UNCHANGED <<tasks, events, eventSeq, track>>
    BY DEF db
  <1>2. \A t \in Tasks : History(t)' = History(t) /\ Exists(t)' = Exists(t)
    BY <1>1 DEF History, Exists
  <1>3. LedgerAlternates' /\ TrackRecordIsLedger'
    BY <1>1 DEF LedgerOK, LedgerAlternates, TrackRecordIsLedger, History
  <1>4. \A t \in Tasks : Exists(t)' => RetryCount(t)'
    BY <1>1, <1>2, OtherRows DEF LedgerOK
  <1> QED BY <1>3, <1>4, ToldUntouched DEF LedgerOK

QueueLedger == FailInv /\ LedgerOK

LEMMA InitLedger == Init => QueueLedger
  <1> SUFFICES ASSUME Init PROVE QueueLedger
    OBVIOUS
  <1>1. FailInv /\ TypeOK
    BY InitClaims DEF FailInv, ClaimInv, TypeInv, FailDecisionFresh, Init, Idle
  <1>2. \A t \in Tasks : ~Exists(t) /\ History(t) = {}
    BY DEF Init, Exists, NoRow, History
  <1>3. LedgerIds
    BY FS_EmptySet DEF Init, LedgerIds
  <1>4. LedgerAlternates
    BY <1>2 DEF Init, LedgerAlternates
  <1>5. TrackRecordIsLedger
    <2>1. \A a, s, kind : Counted(a, s, kind) = {}
      BY DEF Init, Counted
    <2> QED BY <2>1, FS_EmptySet DEF Init, TrackRecordIsLedger, Counted
  <1> QED BY <1>1, <1>2, <1>3, <1>4, <1>5 DEF QueueLedger, LedgerOK, LedgerTold

LEMMA QueueLedgerPreserved ==
  ASSUME QueueLedger, [Next]_vars PROVE QueueLedger'
  <1>1. FailInv' /\ TypeOK'
    BY FailInvPreserved DEF QueueLedger, FailInv, ClaimInv, TypeInv
  <1>2. CASE UNCHANGED db
    BY <1>1, <1>2, LedgerUntouched DEF QueueLedger
  <1>3. CASE Posting
    <2>1. PICK t \in Tasks, type \in TaskTypes, sigArg \in Signatures \cup {None},
               prio \in Priorities, limit \in AttemptLimits, created \in 0 .. clock :
                 Post(t, type, sigArg, prio, limit, created)
      BY <1>3 DEF Posting
    <2> QED BY <1>1, <2>1, PostLedger DEF Post, NewRow, QueueLedger
  <1>4. ASSUME NEW w \in Workers, NEW t \in Tasks, ClaimTxn(w, t) PROVE LedgerOK'
    <2>1. AgentOf[w] \in Agents /\ proc[w].now \in Nat
      BY AgentsAssumption DEF QueueLedger, LedgerOK, LedgerTold, TypeOK, Proc
    <2> QED BY <1>1, <1>4, <2>1, ClaimLedger
            DEF QueueLedger, LedgerOK, LedgerTold, TypeOK, ClaimTxn, First, Eligible
  <1>5. ASSUME NEW w \in Workers, NEW kind \in SettleKinds, SettleTxn(w, kind)
        PROVE  LedgerOK'
    <2> DEFINE t == proc[w].task
    <2>1. /\ t \in Tasks /\ AgentOf[w] \in Agents /\ proc[w].now \in Nat
          /\ proc[w].verdict = IF kind = "fail" THEN Verdict(t) ELSE None
      BY <1>5, AgentsAssumption
         DEF QueueLedger, FailInv, ClaimInv, TypeInv, TypeOK, HandleShape, FailDecisionFresh,
             Proc, SettleTxn, SettleKinds
    <2>2. tasks[t].status = "claimed" /\ tasks[t].claimedBy = AgentOf[w]
      BY <2>1 DEF QueueLedger, FailInv, ClaimInv, ExclusiveClaims, Holds
    <2>3. Settle(t, AgentOf[w], tasks[t].sig, kind, proc[w].now, proc[w].verdict)
      BY <1>5 DEF SettleTxn
    <2> HIDE DEF t
    <2> QED BY <1>1, <2>1, <2>2, <2>3, SettleLedger DEF QueueLedger
  <1>6. ASSUME NEW w \in Workers, WorkerStep(w) PROVE LedgerOK' \/ UNCHANGED db
    BY <1>4, <1>5, <1>6 DEF WorkerStep, ClaimCall, ClaimNone, SettleCall, TxnError, Crash
  <1>7. LedgerOK'
    BY <1>2, <1>3, <1>6, <1>1, LedgerUntouched DEF Next, Tick, vars, QueueLedger
  <1> QED BY <1>1, <1>7 DEF QueueLedger

(* The ledger, read by id, accounts for every row: its attempts, status,   *)
(* completion time and claimant.                                           *)
THEOREM LedgerTells == Spec => []LedgerDeterminesRow
  <1>1. QueueLedger => LedgerDeterminesRow
    BY ToldIsDetermined DEF QueueLedger, LedgerOK, LedgerTold
  <1> QED BY <1>1, InitLedger, QueueLedgerPreserved, PTL DEF Spec

(* Claims and releases of a task take turns, each release by the claimant. *)
THEOREM Alternation == Spec => []LedgerAlternates
  <1>1. QueueLedger => LedgerAlternates
    BY DEF QueueLedger, LedgerOK, LedgerTold
  <1> QED BY <1>1, InitLedger, QueueLedgerPreserved, PTL DEF Spec

(* The track record is the ledger, counted, for every agent and signature. *)
THEOREM TrackRecordTrue == Spec => []TrackRecordIsLedger
  <1>1. QueueLedger => TrackRecordIsLedger
    BY DEF QueueLedger, LedgerOK, LedgerTold
  <1> QED BY <1>1, InitLedger, QueueLedgerPreserved, PTL DEF Spec

(* No task fails more often than its limit, and none is parked before.     *)
THEOREM Retries == Spec => []RetriesWithinLimit
  <1>1. QueueLedger => RetriesWithinLimit
    <2>1. ASSUME QueueLedger, NEW t \in Tasks, Exists(t)
          PROVE  /\ Cardinality(Fails(t)) <= tasks[t].maxAttempts \/ Cardinality(Fails(t)) <= 1
                 /\ tasks[t].status = "failed" => tasks[t].attempts >= tasks[t].maxAttempts
      <3>1. RetryCount(t) /\ Cardinality(Fails(t)) \in Nat
        BY <2>1, HistoryFinite DEF QueueLedger, LedgerOK, LedgerTold
      <3>2. tasks[t].maxAttempts \in Int
        BY <2>1 DEF QueueLedger, LedgerOK, LedgerTold, TypeOK, Row
      <3> QED BY <3>1, <3>2 DEF RetryCount
    <2> QED BY <2>1 DEF RetriesWithinLimit, Fails
  <1> QED BY <1>1, InitLedger, QueueLedgerPreserved, PTL DEF Spec

-----------------------------------------------------------------------------
(* Routing, step by step *)

(* Only a claim makes a row claimed, and it leaves the claimant in it.     *)
LEMMA BecomesClaimed ==
  ASSUME QueueLedger, [Next]_vars, NEW t \in Tasks,
         tasks[t].status # "claimed", tasks'[t].status = "claimed"
  PROVE  \E w \in Workers :
           /\ ClaimTxn(w, t)
           /\ tasks'[t].claimedBy = AgentOf[w] /\ tasks'[t].claimedAt = proc[w].now
           /\ AgentOf[w] \in Agents
  <1>1. ASSUME NEW w \in Workers, ClaimTxn(w, t)
        PROVE  /\ tasks'[t].claimedBy = AgentOf[w] /\ tasks'[t].claimedAt = proc[w].now
               /\ AgentOf[w] \in Agents
    BY <1>1, AgentsAssumption DEF ClaimTxn, Claimed, QueueLedger, LedgerOK, LedgerTold, TypeOK, Row
  <1>2. CASE \E w \in Workers : ClaimTxn(w, t)
    BY <1>1, <1>2
  <1>3. CASE \E w \in Workers, kind \in SettleKinds : Holds(w, t) /\ SettleTxn(w, kind)
    BY <1>3 DEF QueueLedger, FailInv, ClaimInv, ExclusiveClaims
  <1>4. CASE ~Exists(t) /\ ~\E w \in Workers : ClaimTxn(w, t)
    <2>1. CASE Posting
      BY <2>1 DEF Posting, Post, NewRow, QueueLedger, LedgerOK, LedgerTold, TypeOK
    <2>2. CASE UNCHANGED tasks
      BY <2>2
    <2>3. ASSUME NEW w \in Workers, NEW u \in Tasks, ClaimTxn(w, u) PROVE FALSE
      BY <1>4, <2>3 DEF ClaimTxn, QueueLedger, LedgerOK, LedgerTold, TypeOK
    <2>4. ASSUME NEW w \in Workers, NEW kind \in SettleKinds, SettleTxn(w, kind) PROVE FALSE
      <3>1. Exists(proc[w].task) /\ \A u \in Tasks : u # proc[w].task => tasks'[u] = tasks[u]
        BY <2>4 DEF SettleTxn, Settle, QueueLedger, LedgerOK, LedgerTold, TypeOK
      <3> QED BY <1>4, <3>1
    <2> QED BY <2>1, <2>2, <2>3, <2>4
            DEF Next, WorkerStep, Tick, ClaimCall, ClaimNone, SettleCall, TxnError, Crash, vars, db
  <1> QED BY <1>2, <1>3, <1>4, RowChange DEF QueueLedger, FailInv

(* Nobody claims a task that is not open without a success to show for it, *)
(* unless it was stale and the agent never declined its signature.         *)
THEOREM Earned == Spec => EarnedRouting
  <1> DEFINE Right(t) ==
        LET a == tasks'[t].claimedBy
            s == tasks[t].sig
            did(kind) == \E e \in events :
                           e.agent = a /\ e.kind = kind /\ tasks[e.task].sig = s
        IN  \/ s = Open
            \/ did("complete")
            \/ ~did("decline") /\ tasks[t].createdAt + StaleOpen < tasks'[t].claimedAt
  <1>1. ASSUME QueueLedger, [Next]_vars, NEW t \in Tasks,
               tasks[t].status # "claimed", tasks'[t].status = "claimed"
        PROVE  Right(t)
    <2>1. PICK w \in Workers :
            /\ ClaimTxn(w, t)
            /\ tasks'[t].claimedBy = AgentOf[w] /\ tasks'[t].claimedAt = proc[w].now
            /\ AgentOf[w] \in Agents
      BY <1>1, BecomesClaimed
    <2> DEFINE a == AgentOf[w]
               s == tasks[t].sig
    <2>2. /\ s \in Signatures /\ proc[w].now \in Nat /\ tasks[t].createdAt \in Nat
          /\ Routed(t, a, proc[w].now)
      BY <1>1, <2>1
         DEF ClaimTxn, First, Eligible, Exists, QueueLedger, LedgerOK, LedgerTold, TypeOK, Row, Proc
    <2>3. ASSUME NEW kind \in SettleKinds
          PROVE  /\ track[<<a, s, kind>>] = Cardinality(Counted(a, s, kind))
                 /\ track[<<a, s, kind>>] \in Nat
                 /\ track[<<a, s, kind>>] > 0 <=> Counted(a, s, kind) # {}
      <3>1. /\ track[<<a, s, kind>>] = Cardinality(Counted(a, s, kind))
            /\ track[<<a, s, kind>>] \in Nat
        BY <1>1, <2>1, <2>2
           DEF QueueLedger, LedgerOK, LedgerTold, TypeOK, TrackRecordIsLedger, Counted
      <3>2. IsFiniteSet(Counted(a, s, kind))
        <4>1. Counted(a, s, kind) \in SUBSET events
          BY DEF Counted
        <4> QED BY <1>1, <4>1, FS_Subset DEF QueueLedger, LedgerOK, LedgerTold, LedgerIds
      <3> QED BY <3>1, <3>2, FS_EmptySet
    <2>4. CASE Succeeded(a, s)
      BY <2>1, <2>3, <2>4 DEF Succeeded, Counted, SettleKinds
    <2>5. CASE s = Open
      BY <2>5
    <2>6. CASE tasks[t].createdAt < proc[w].now - StaleOpen /\ ~Declined(a, s)
      <3>1. Counted(a, s, "decline") = {}
        BY <2>3, <2>6 DEF Declined, SettleKinds
      <3>2. tasks[t].createdAt + StaleOpen < proc[w].now
        BY <2>2, <2>6, NumbersAssumption
      <3> QED BY <2>1, <3>1, <3>2 DEF Counted
    <2> QED BY <2>2, <2>4, <2>5, <2>6 DEF Routed
  <1> HIDE DEF Right
  <1>2. QueueLedger /\ [Next]_vars =>
          [\A t \in Tasks :
             tasks[t].status # "claimed" /\ tasks'[t].status = "claimed" => Right(t)]_vars
    BY <1>1
  <1> USE DEF Right
  <1> QED BY <1>2, InitLedger, QueueLedgerPreserved, PTL DEF Spec, EarnedRouting

(* A claim passes over no open task that ranks above the one it takes.     *)
THEOREM Order == Spec => ClaimOrder
  <1> DEFINE Passes(t, u) ==
        /\ tasks[t].status # "claimed" /\ tasks'[t].status = "claimed"
        /\ tasks[u].status = "queued" /\ tasks[u].sig = Open
        => \/ tasks[t].priority > tasks[u].priority
           \/ /\ tasks[t].priority = tasks[u].priority
              /\ tasks[t].createdAt <= tasks[u].createdAt
  <1>1. ASSUME QueueLedger, [Next]_vars, NEW t \in Tasks, NEW u \in Tasks
        PROVE  Passes(t, u)
    BY <1>1, BecomesClaimed DEF ClaimTxn, First, Eligible, Routed, RanksAtLeast
  <1>2. QueueLedger /\ [Next]_vars => [\A t, u \in Tasks : Passes(t, u)]_vars
    BY <1>1
  <1> QED BY <1>2, InitLedger, QueueLedgerPreserved, PTL DEF Spec, ClaimOrder
=============================================================================
