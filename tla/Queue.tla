------------------------------- MODULE Queue -------------------------------
(***************************************************************************)
(* The task queue of bounty_board/queue.py: one SQLite file, any number of *)
(* worker processes that claim a task, work on it and settle it with       *)
(* complete, fail or decline.                                              *)
(*                                                                         *)
(* Each SQL transaction is one atomic action: SQLite serialises writers,   *)
(* and QueueStatements.tla shows that the statements add up to this.  What *)
(* the code does outside a transaction is a step of its own: reading       *)
(* time.time() before waiting for the write lock, and the SELECT of        *)
(* _mark_fail, which Python's sqlite3 runs in autocommit mode, before the  *)
(* implicit BEGIN.                                                         *)
(*                                                                         *)
(* The workers are those of the Queue docstring: a handle is settled once, *)
(* and again only if settling it raised.  Calls that bypass a handle (the  *)
(* command line) are added by CliOperator.tla.                             *)
(*                                                                         *)
(* Left out: payloads, results, stacks, token counts, parent_id and        *)
(* last_seen_at, none of which this file's code reads back.                *)
(***************************************************************************)
EXTENDS Integers, FiniteSets

CONSTANTS
  Tasks,          \* the uuid4 ids that post may draw
  Agents,         \* agent_id values
  Workers,        \* connections / processes that call claim
  AgentOf,        \* the agent_id each worker passes to claim
  Signatures,     \* payload_signature values
  Open,           \* OPEN_SIGNATURE
  TaskTypes,      \* task_type values, also the default signature
  Priorities,     \* the priorities posters use
  AttemptLimits,  \* the max_attempts posters use
  StaleOpen,      \* stale_open_seconds, in clock ticks
  None,           \* SQL NULL
  MaxTime,        \* bound: the clock stops here
  MaxEvents       \* bound: no claim commits once the ledger is this long

ASSUME AgentsAssumption ==
  AgentOf \in [Workers -> Agents] /\ None \notin Agents /\ None \notin Workers
ASSUME TasksAssumption == None \notin Tasks
ASSUME SignaturesAssumption ==
  Open \in Signatures /\ TaskTypes \subseteq Signatures /\ None \notin Signatures
ASSUME NumbersAssumption ==
  /\ Priorities \subseteq Int
  /\ AttemptLimits \subseteq Int
  /\ StaleOpen \in Nat /\ MaxTime \in Nat /\ MaxEvents \in Nat

VARIABLES
  clock,    \* time.time()
  tasks,    \* table tasks, by id; status "absent" where no row exists
  events,   \* table task_events
  eventSeq, \* AUTOINCREMENT: the last task_events.id handed out
  track,    \* table agent_track_record: [agent, signature, kind] -> count
  proc      \* the call each worker is in, with its local variables

db == <<tasks, events, eventSeq, track>>
vars == <<clock, db, proc>>

Statuses == {"absent", "queued", "claimed", "done", "failed"}
SettleKinds == {"complete", "fail", "decline"}

Row == [status: Statuses, type: TaskTypes \cup {None},
        sig: Signatures \cup {None}, priority: Int, attempts: Nat, maxAttempts: Int,
        claimedBy: Agents \cup {None}, claimedAt: Nat \cup {None}, completedAt: Nat \cup {None},
        createdAt: Nat]

Event == [id: Nat, task: Tasks, kind: SettleKinds \cup {"claim"}, ts: Nat,
          agent: Agents, post: {"queued", "failed", None}]

Proc == [pc: {"idle", "claim", "working"} \cup SettleKinds,
         task: Tasks \cup {None}, now: Nat,
         verdict: {"queued", "failed", None}]

NoRow == [status |-> "absent", type |-> None, sig |-> None, priority |-> 0,
          attempts |-> 0, maxAttempts |-> 0, claimedBy |-> None, claimedAt |-> None,
          completedAt |-> None, createdAt |-> 0]
Idle == [pc |-> "idle", task |-> None, now |-> 0, verdict |-> None]
Working(t) == [pc |-> "working", task |-> t, now |-> 0, verdict |-> None]

(* A worker that holds the Task object of t, to settle it once. *)
Holds(w, t) == proc[w].task = t
Exists(t) == tasks[t].status # "absent"

Init ==
  /\ clock = 0
  /\ tasks = [t \in Tasks |-> NoRow]
  /\ events = {}
  /\ eventSeq = 0
  /\ track = [x \in Agents \X Signatures \X SettleKinds |-> 0]
  /\ proc = [w \in Workers |-> Idle]

Tick ==
  /\ clock < MaxTime
  /\ clock' = clock + 1
  /\ UNCHANGED <<db, proc>>

-----------------------------------------------------------------------------
(* Posting.  The poster reads the clock, then may wait for the write lock, *)
(* so created_at is any time up to now.                                    *)

SignatureWithoutDefault(type, sigArg) == sigArg

SignatureOrType(type, sigArg) == IF sigArg = None THEN type ELSE sigArg

(* INSERT INTO tasks *)
NewRow(type, sigArg, prio, limit, created) ==
  [status |-> "queued", type |-> type, sig |-> SignatureOrType(type, sigArg),
   priority |-> prio, attempts |-> 0, maxAttempts |-> limit, claimedBy |-> None,
   claimedAt |-> None, completedAt |-> None, createdAt |-> created]

Post(t, type, sigArg, prio, limit, created) ==
  /\ ~Exists(t)
  /\ tasks' = [tasks EXCEPT ![t] = NewRow(type, sigArg, prio, limit, created)]
  /\ UNCHANGED <<clock, events, eventSeq, track, proc>>

-----------------------------------------------------------------------------
(* Which task a claim takes. *)

Succeeded(a, s) == track[<<a, s, "complete">>] > 0
Declined(a, s) == track[<<a, s, "decline">>] > 0

RoutedIgnoringDeclines(t, a, now) ==
  LET s == tasks[t].sig IN
    s = Open \/ Succeeded(a, s) \/ tasks[t].createdAt < now - StaleOpen

Routed(t, a, now) ==
  LET s == tasks[t].sig IN
    \/ s = Open                                   \* rule (a)
    \/ Succeeded(a, s)                            \* earned
    \/ /\ tasks[t].createdAt < now - StaleOpen    \* rule (d)
       /\ ~Declined(a, s)

EligibleAnyStatus(a, now) == {t \in Tasks : Exists(t) /\ Routed(t, a, now)}
EligibleUnlessDone(a, now) ==
  {t \in Tasks : tasks[t].status \in {"queued", "failed"} /\ Routed(t, a, now)}

EligibleWithinLimit(a, now) ==
  {t \in Tasks : /\ tasks[t].status = "queued" /\ Routed(t, a, now)
                 /\ tasks[t].attempts < tasks[t].maxAttempts}

Eligible(a, now) == {t \in Tasks : tasks[t].status = "queued" /\ Routed(t, a, now)}

RanksBelow(t, u) ==
  \/ tasks[t].priority < tasks[u].priority
  \/ tasks[t].priority = tasks[u].priority /\ tasks[t].createdAt <= tasks[u].createdAt

(* ORDER BY priority DESC, created_at ASC *)
RanksAtLeast(t, u) ==
  \/ tasks[t].priority > tasks[u].priority
  \/ tasks[t].priority = tasks[u].priority /\ tasks[t].createdAt <= tasks[u].createdAt

(* LIMIT 1; SQL leaves the order of ties open. *)
First(S) == {t \in S : \A u \in S : RanksAtLeast(t, u)}

(* INSERT INTO task_events *)
Log(t, kind, ts, a, post) ==
  /\ eventSeq' = eventSeq + 1
  /\ events' = events \cup {[id |-> eventSeq + 1, task |-> t, kind |-> kind,
                             ts |-> ts, agent |-> a, post |-> post]}

Calling(w, pc, t, verdict) ==
  proc' = [proc EXCEPT ![w] =
             [pc |-> pc, task |-> t, now |-> clock, verdict |-> verdict]]

(* now = time.time(), before BEGIN IMMEDIATE is granted *)
ClaimCall(w) ==
  /\ proc[w].pc = "idle"
  /\ Calling(w, "claim", None, None)
  /\ UNCHANGED <<clock, db>>

Claimed(row, a, now) ==
  [row EXCEPT !.status = "claimed", !.claimedBy = a, !.claimedAt = now,
              !.attempts = @ + 1]

(* BEGIN IMMEDIATE ... COMMIT *)
ClaimTxn(w, t) ==
  LET a == AgentOf[w] IN
  /\ proc[w].pc = "claim"
  /\ eventSeq < MaxEvents
  /\ t \in First(Eligible(a, proc[w].now))
  /\ tasks' = [tasks EXCEPT ![t] = Claimed(@, a, proc[w].now)]
  /\ Log(t, "claim", proc[w].now, a, None)
  /\ proc' = [proc EXCEPT ![w] = Working(t)]
  /\ UNCHANGED <<clock, track>>

(* No row: ROLLBACK, return None *)
ClaimNone(w) ==
  /\ proc[w].pc = "claim"
  /\ Eligible(AgentOf[w], proc[w].now) = {}
  /\ proc' = [proc EXCEPT ![w] = Idle]
  /\ UNCHANGED <<clock, db>>

-----------------------------------------------------------------------------
(* Settling a handle.  UPDATE ... WHERE id = ? checks neither the status   *)
(* nor claimed_by; the INSERT of the event needs the row (foreign key).    *)

VerdictAllowingEqual(t) ==
  IF tasks[t].attempts <= tasks[t].maxAttempts THEN "queued" ELSE "failed"

(* The SELECT at the top of _mark_fail *)
Verdict(t) ==
  IF Exists(t) /\ tasks[t].attempts < tasks[t].maxAttempts
  THEN "queued" ELSE "failed"

SettleCall(w, kind) ==
  /\ proc[w].pc = "working"
  /\ Calling(w, kind, proc[w].task,
             IF kind = "fail" THEN Verdict(proc[w].task) ELSE None)
  /\ UNCHANGED <<clock, db>>

RequeuedKeepingClaimant(row) == [row EXCEPT !.status = "queued"]

Requeued(row) ==
  [row EXCEPT !.status = "queued", !.claimedBy = None, !.claimedAt = None]

(* The row after _mark_complete, _mark_fail and _mark_decline *)
Settled(row, kind, now, verdict) ==
  CASE kind = "complete" -> [row EXCEPT !.status = "done", !.completedAt = now]
    [] kind = "fail" /\ verdict = "failed" -> [row EXCEPT !.status = "failed"]
    [] OTHER -> Requeued(row)

CreditFailAsSuccess(a, s, kind) ==
  track' = [track EXCEPT ![<<a, s, IF kind = "fail" THEN "complete" ELSE kind>>] = @ + 1]

(* The upsert of agent_track_record *)
Credit(a, s, kind) == track' = [track EXCEPT ![<<a, s, kind>>] = @ + 1]

(* The transaction of _mark_complete, _mark_fail or _mark_decline, whoever *)
(* calls it: on task t, as agent a, with the arguments read before.        *)
Settle(t, a, sig, kind, now, verdict) ==
  /\ Exists(t)
  /\ tasks' = [tasks EXCEPT ![t] = Settled(@, kind, now, verdict)]
  /\ Log(t, kind, now, a, verdict)
  /\ Credit(a, sig, kind)

SettleTxn(w, kind) ==
  LET p == proc[w] IN
  /\ p.pc = kind
  /\ Settle(p.task, AgentOf[w], tasks[p.task].sig, kind, p.now, p.verdict)
  /\ proc' = [proc EXCEPT ![w] = Idle]
  /\ UNCHANGED clock

-----------------------------------------------------------------------------
(* Failures. *)

(* The transaction raised (the 5 s busy timeout, an I/O error) and was     *)
(* rolled back: a claim returns nothing, a settler still has its handle.   *)
TxnError(w) ==
  /\ proc[w].pc \in {"claim"} \cup SettleKinds
  /\ proc' = [proc EXCEPT ![w] =
       IF proc[w].pc = "claim" THEN Idle ELSE Working(proc[w].task)]
  /\ UNCHANGED <<clock, db>>

(* The process dies and restarts, or drops its handle: the row stays as is. *)
Crash(w) ==
  /\ proc[w].pc # "idle"
  /\ proc' = [proc EXCEPT ![w] = Idle]
  /\ UNCHANGED <<clock, db>>

WorkerStep(w) ==
  \/ ClaimCall(w)
  \/ \E t \in Tasks : ClaimTxn(w, t)
  \/ ClaimNone(w)
  \/ \E kind \in SettleKinds : SettleCall(w, kind) \/ SettleTxn(w, kind)
  \/ TxnError(w)
  \/ Crash(w)

Posting ==
  \E t \in Tasks, type \in TaskTypes, sigArg \in Signatures \cup {None},
     prio \in Priorities, limit \in AttemptLimits, created \in 0 .. clock :
       Post(t, type, sigArg, prio, limit, created)

Next ==
  \/ Tick
  \/ Posting
  \/ \E w \in Workers : WorkerStep(w)

Spec == Init /\ [][Next]_vars

-----------------------------------------------------------------------------
(* Properties. *)

(* Every table and every local variable holds a value of its type; a row   *)
(* that was posted has a signature.                                        *)
TypeOK ==
  /\ clock \in Nat
  /\ tasks \in [Tasks -> Row]
  /\ \A t \in Tasks : Exists(t) => tasks[t].sig \in Signatures
  /\ events \subseteq Event
  /\ eventSeq \in Nat
  /\ track \in [Agents \X Signatures \X SettleKinds -> Nat]
  /\ proc \in [Workers -> Proc]

(* "Exactly one agent wins each task": a live handle points at a row that  *)
(* is claimed by the holder's agent, and no two workers hold one task.     *)
ExclusiveClaims ==
  \A w \in Workers, t \in Tasks : Holds(w, t) =>
    /\ tasks[t].status = "claimed"
    /\ tasks[t].claimedBy = AgentOf[w]
    /\ \A v \in Workers : Holds(v, t) => v = w

(* _mark_fail decides from a row it read before its transaction began: when *)
(* the transaction runs, that decision still agrees with the row.          *)
FailDecisionFresh ==
  \A w \in Workers : proc[w].pc = "fail" => proc[w].verdict = Verdict(proc[w].task)

History(t) == {e \in events : e.task = t}
Claims(t) == {e \in History(t) : e.kind = "claim"}
LatestOf(S) == CHOOSE e \in S : \A f \in S : f.id <= e.id

StatusAfter(e) ==
  CASE e.kind = "claim" -> "claimed"
    [] e.kind = "complete" -> "done"
    [] e.kind = "decline" -> "queued"
    [] e.kind = "fail" -> e.post

(* The ledger tells the whole truth about a row: its status, claimant,     *)
(* claim time, attempts and completion time are those its events, read by  *)
(* id, lead to.                                                            *)
LedgerDeterminesRow ==
  \A t \in {u \in Tasks : Exists(u)} :
    LET row         == tasks[t]
        completions == {e \in History(t) : e.kind = "complete"}
        handovers   == {e \in History(t) : StatusAfter(e) \in {"claimed", "queued"}}
        owner       == LatestOf(handovers)
    IN
    /\ row.attempts = Cardinality(Claims(t))
    /\ row.status = IF History(t) = {} THEN "queued"
                                      ELSE StatusAfter(LatestOf(History(t)))
    /\ row.completedAt = IF completions = {} THEN None
                                            ELSE LatestOf(completions).ts
    /\ IF handovers # {} /\ owner.kind = "claim"
         THEN row.claimedBy = owner.agent /\ row.claimedAt = owner.ts
         ELSE row.claimedBy = None /\ row.claimedAt = None

(* The earned-capability counters are the ledger, counted: what routing    *)
(* believes of an agent is what the agent did.                             *)
TrackRecordIsLedger ==
  \A a \in Agents, s \in Signatures, kind \in SettleKinds :
    track[<<a, s, kind>>] =
      Cardinality({e \in events : e.agent = a /\ e.kind = kind /\ tasks[e.task].sig = s})

(* Along the ids, claims and releases of a task alternate: each release is *)
(* by the agent of the claim before it, each claim but the first follows a *)
(* release that requeued the task.                                         *)
LedgerAlternates ==
  \A e \in events :
    LET before == {f \in History(e.task) : f.id < e.id}
        prior  == LatestOf(before)
    IN  IF e.kind = "claim"
          THEN before = {} \/ StatusAfter(prior) = "queued"
          ELSE before # {} /\ prior.kind = "claim" /\ prior.agent = e.agent

(* A task fails at most max_attempts times (once, if the limit is below 1) *)
(* and is parked only when the limit is used up.                           *)
RetriesWithinLimit ==
  \A t \in {u \in Tasks : Exists(u)} :
    /\ \/ Cardinality({e \in History(t) : e.kind = "fail"}) <= tasks[t].maxAttempts
       \/ Cardinality({e \in History(t) : e.kind = "fail"}) <= 1
    /\ tasks[t].status = "failed" => tasks[t].attempts >= tasks[t].maxAttempts

(* A claim of a task that is not open is earned, by a success the ledger   *)
(* shows on that signature, or the task was stale when the claimant looked *)
(* at the clock and the agent never declined the signature.                *)
EarnedRouting ==
  [][\A t \in Tasks :
       tasks[t].status # "claimed" /\ tasks'[t].status = "claimed" =>
         LET a == tasks'[t].claimedBy
             s == tasks[t].sig
             did(kind) == \E e \in events :
                            e.agent = a /\ e.kind = kind /\ tasks[e.task].sig = s
         IN  \/ s = Open
             \/ did("complete")
             \/ ~did("decline") /\ tasks[t].createdAt + StaleOpen < tasks'[t].claimedAt
    ]_vars

(* A claim passes over no queued open task of higher priority, nor an      *)
(* older one of the same priority.                                         *)
ClaimOrder ==
  [][\A t, u \in Tasks :
       /\ tasks[t].status # "claimed" /\ tasks'[t].status = "claimed"
       /\ tasks[u].status = "queued" /\ tasks[u].sig = Open
       => \/ tasks[t].priority > tasks[u].priority
          \/ /\ tasks[t].priority = tasks[u].priority
             /\ tasks[t].createdAt <= tasks[u].createdAt]_vars

(* A task that is done or failed is never touched again.                   *)
TerminalIsFinal ==
  [][\A t \in Tasks : tasks[t].status \in {"done", "failed"} => tasks'[t] = tasks[t]]_vars

(* "Exactly one wins each task", step by step: the queue implements        *)
(* Ownership.  Only its holder moves a claimed task, nobody moves a closed *)
(* one, and without a lease or a reaper a task whose holder died stays     *)
(* claimed.                                                                *)
Owner(t) == IF \E w \in Workers : Holds(w, t)
              THEN CHOOSE w \in Workers : Holds(w, t) ELSE None

Promise == INSTANCE Ownership WITH
  phase <- [t \in Tasks |-> tasks[t].status],
  owner <- [t \in Tasks |-> Owner(t)]

OwnershipKept == Promise!Spec
=============================================================================
