---------------------------- MODULE BoardProofs ----------------------------
(***************************************************************************)
(* Theorems about the board: references, provenance, the dossier, and what *)
(* readers put together.  They are about ViewsSpec, which has every step   *)
(* of Board and the readers besides.                                       *)
(***************************************************************************)
EXTENDS Views, QueueProofs

MovesOf(t) == {e \in History(t) : e.kind \in Moves}
DoneOf(t) == {e \in MovesOf(t) : e.kind = "complete"}
ClaimsOf(t) == {e \in MovesOf(t) : e.kind = "claim"}
HonorsOf(i) == {e \in events : e.kind = "intervene" /\ e.post = i}
ReplaysOf(t) == {e \in History(t) : e.kind = "replay"}

TablesOK ==
  /\ clock \in Nat
  /\ tasks \in [Tasks -> Row]
  /\ \A t \in Tasks : Exists(t) => tasks[t].sig \in Signatures /\ tasks[t].createdAt <= clock
  /\ \A t \in purged : ~Exists(t)
  /\ purged \subseteq Tasks
  /\ parent \in [Tasks -> Tasks \cup {None}]
  /\ noteSeq \in Nat
  /\ notes \in [Notes -> [task: Tasks \cup {None}, honoredAt: Nat \cup {None}]]
  /\ \A i \in Notes : i > noteSeq \/ notes[i].task = None => notes[i] = NoNote

(* Ids are drawn in order and used once; a fail says what it decided; an   *)
(* honor is about the task of its intervention.                            *)
EventsOK ==
  /\ eventSeq \in Nat
  /\ IsFiniteSet(events)
  /\ \A e \in events : e.id \in Nat /\ e.id <= eventSeq /\ e.task \in Tasks
  /\ \A e, f \in events : e.id = f.id => e = f
  /\ \A e \in events : e.kind = "fail" => e.post \in {"queued", "failed"}
  /\ \A e \in events : e.kind = "intervene" => e.post \in Notes /\ notes[e.post].task = e.task

(* The workers and the command lines *)
CallersOK ==
  /\ proc \in [Workers -> Proc]
  /\ HandleShape
  /\ cli = [o \in Operators |-> cli[o]]
  /\ \A o \in Operators : cli[o].pc # "idle" =>
       /\ cli[o].pc \in SettleKinds /\ cli[o].task \in Tasks /\ cli[o].now \in Nat
       /\ cli[o].verdict \in {"queued", "failed", None}
       /\ cli[o].pc = "fail" => cli[o].verdict \in {"queued", "failed"}

(* Status, attempts and completion time of a row, as its claims and        *)
(* releases tell them                                                      *)
Told(t) ==
  /\ tasks[t].status = IF MovesOf(t) = {} THEN "queued" ELSE StatusAfter(LatestOf(MovesOf(t)))
  /\ tasks[t].attempts = Cardinality(ClaimsOf(t))
  /\ tasks[t].completedAt = IF DoneOf(t) = {} THEN None ELSE LatestOf(DoneOf(t)).ts

(* A piece in a reader's hand: a row as it was, of a ledger that has grown *)
(* since.                                                                  *)
InHand(t, first) ==
  /\ t \in Tasks
  /\ first = [row |-> first.row]
  /\ t \in purged \/ Explains(History(t), first.row)

CallOK(call) ==
  /\ call.pc = "replay" =>
       /\ call.task \in Tasks /\ call.row \in Row /\ call.row.sig \in Signatures
       /\ call.now \in Nat /\ call.row.createdAt <= call.now /\ call.now <= clock
  /\ call.pc = "purge" => call.ids \subseteq Tasks
  /\ call.pc = "intervene" => call.task \in Tasks
  /\ call.pc = "honor" => call.note \in Notes /\ notes[call.note] # NoNote /\ call.now \in Nat
  /\ call.pc \in {"page", "entry"} => InHand(call.task, call.first)
  /\ call.pc \in {"dossier", "diagnose"} => call.task \in Tasks

(* What is stable while nobody uses the command line: a row that is done,  *)
(* or failed and not purged, stays what it was.                            *)
StillFailed(t, row) == t \in purged \/ (tasks[t] = row /\ row.status = "failed")

CallFresh(call) ==
  /\ call.pc = "replay" => StillFailed(call.task, call.row)
  /\ call.pc = "entry" => StillFailed(call.task, call.first.row)
  /\ call.pc = "purge" => \A t \in call.ids : t \in purged \/ tasks[t].status = "failed"
  /\ call.pc = "dossier" /\ call.base # None =>
       /\ call.base \in Tasks /\ call.base # call.task
       /\ tasks[call.base].status = "done" /\ call.first = [row |-> tasks[call.base]]
       /\ \/ call.task \in purged
          \/ call.task \in Tasks /\ Exists(call.task) /\ tasks[call.task].sig = tasks[call.base].sig

Undisturbed ==
  /\ ExclusiveClaims
  /\ ReplayProvenance
  /\ \A c \in Clerks : CallFresh(desk[c])

LedgerPart ==
  /\ TablesOK
  /\ EventsOK
  /\ NoDanglingReference
  /\ HonoredHasEvent
  /\ \A t \in Tasks : Exists(t) => Told(t)

DeskPart == desk = [c \in Clerks |-> desk[c]] /\ \A c \in Clerks : CallOK(desk[c])

BoardInv ==
  /\ LedgerPart
  /\ CallersOK
  /\ DeskPart
  /\ Operators = {} => Undisturbed
-----------------------------------------------------------------------------
(* One event more, of task t *)
Grown(n) ==
  /\ events' = events \cup {n} /\ n \notin events
  /\ n.id = eventSeq + 1 /\ eventSeq' = eventSeq + 1
  /\ n.task \in Tasks
  /\ n.kind = "fail" => n.post \in {"queued", "failed"}

LEMMA LogGrows ==
  ASSUME EventsOK, NEW t \in Tasks, NEW kind, NEW ts, NEW a, NEW post, Log(t, kind, ts, a, post),
         kind = "fail" => post \in {"queued", "failed"}
  PROVE  \E n : /\ Grown(n) /\ n.task = t /\ n.kind = kind /\ n.ts = ts /\ n.post = post
                /\ n.agent = a
  <1> DEFINE n == [id |-> eventSeq + 1, task |-> t, kind |-> kind, ts |-> ts,
                   agent |-> a, post |-> post]
  <1>1. /\ n.id = eventSeq + 1 /\ n.task = t /\ n.kind = kind /\ n.ts = ts /\ n.post = post
        /\ n.agent = a
    OBVIOUS
  <1>2. events' = events \cup {n} /\ eventSeq' = eventSeq + 1
    BY DEF Log
  <1> HIDE DEF n
  <1>3. n \notin events
    BY <1>1 DEF EventsOK
  <1> QED BY <1>1, <1>2, <1>3 DEF Grown

LEMMA GrownEvents ==
  ASSUME EventsOK, NEW n, Grown(n),
         n.kind = "intervene" => n.post \in Notes /\ notes[n.post].task = n.task,
         \A i \in Notes : notes'[i].task = notes[i].task
  PROVE  EventsOK'
  <1>1. IsFiniteSet(events')
    BY FS_AddElement DEF EventsOK, Grown
  <1>2. \A e \in events : e.id < n.id
    BY DEF EventsOK, Grown
  <1>3. \A e \in events' : e.id \in Nat /\ e.id <= eventSeq' /\ e.task \in Tasks
    BY DEF EventsOK, Grown
  <1>4. \A e, f \in events' : e.id = f.id => e = f
    BY <1>2 DEF EventsOK, Grown
  <1>5. \A e \in events' : e.kind = "intervene" => e.post \in Notes /\ notes'[e.post].task = e.task
    BY DEF EventsOK, Grown
  <1>6. \A e \in events' : e.kind = "fail" => e.post \in {"queued", "failed"}
    BY DEF EventsOK, Grown
  <1>7. eventSeq' \in Nat
    BY DEF EventsOK, Grown
  <1> QED BY <1>1, <1>3, <1>4, <1>5, <1>6, <1>7 DEF EventsOK

(* The histories it leaves *)
LEMMA GrownHistory ==
  ASSUME EventsOK, NEW n, Grown(n), NEW t \in Tasks
  PROVE  /\ History(t)' = IF t = n.task THEN History(t) \cup {n} ELSE History(t)
         /\ MovesOf(t)' = IF t = n.task /\ n.kind \in Moves THEN MovesOf(t) \cup {n}
                                                            ELSE MovesOf(t)
         /\ DoneOf(t)' = IF t = n.task /\ n.kind = "complete" THEN DoneOf(t) \cup {n}
                                                              ELSE DoneOf(t)
         /\ ClaimsOf(t)' = IF t = n.task /\ n.kind = "claim" THEN ClaimsOf(t) \cup {n}
                                                             ELSE ClaimsOf(t)
         /\ ReplaysOf(t)' = IF t = n.task /\ n.kind = "replay" THEN ReplaysOf(t) \cup {n}
                                                               ELSE ReplaysOf(t)
  <1>1. History(t)' = IF t = n.task THEN History(t) \cup {n} ELSE History(t)
    BY DEF History, Grown
  <1>2. MovesOf(t)' = IF t = n.task /\ n.kind \in Moves THEN MovesOf(t) \cup {n} ELSE MovesOf(t)
    BY <1>1 DEF MovesOf
  <1>3. "complete" \in Moves /\ "claim" \in Moves
    BY DEF Moves, SettleKinds
  <1>4. DoneOf(t)' = IF t = n.task /\ n.kind = "complete" THEN DoneOf(t) \cup {n} ELSE DoneOf(t)
    BY <1>2, <1>3 DEF DoneOf
  <1>5. ClaimsOf(t)' = IF t = n.task /\ n.kind = "claim" THEN ClaimsOf(t) \cup {n} ELSE ClaimsOf(t)
    BY <1>2, <1>3 DEF ClaimsOf
  <1>6. ReplaysOf(t)' = IF t = n.task /\ n.kind = "replay" THEN ReplaysOf(t) \cup {n}
                                                           ELSE ReplaysOf(t)
    BY <1>1 DEF ReplaysOf
  <1> QED BY <1>1, <1>2, <1>4, <1>5, <1>6

(* It is the latest of any set of events that it joins. *)
LEMMA GrownLatest ==
  ASSUME EventsOK, NEW n, Grown(n), NEW S, S \subseteq events
  PROVE  LatestOf(S \cup {n}) = n
  <1>1. \A f \in S \cup {n} : f.id \in Nat /\ f.id <= n.id /\ (f.id = n.id => f = n)
    BY DEF EventsOK, Grown
  <1> QED BY <1>1, LatestIsHighest

LEMMA PartsOfLedger ==
  ASSUME NEW t \in Tasks
  PROVE  /\ History(t) \subseteq events /\ MovesOf(t) \subseteq events
         /\ DoneOf(t) \subseteq events /\ ClaimsOf(t) \subseteq events
  BY DEF History, MovesOf, DoneOf, ClaimsOf

(* A row whose part of the ledger stands still is told as before. *)
LEMMA ToldKept ==
  ASSUME NEW t \in Tasks, Told(t),
         tasks'[t].status = tasks[t].status, tasks'[t].attempts = tasks[t].attempts,
         tasks'[t].completedAt = tasks[t].completedAt,
         MovesOf(t)' = MovesOf(t), DoneOf(t)' = DoneOf(t), ClaimsOf(t)' = ClaimsOf(t)
  PROVE  Told(t)'
  BY DEF Told, LatestOf

(* A claim or a release of the row that it is about *)
LEMMA MoveTold ==
  ASSUME EventsOK, NEW t \in Tasks, Told(t), tasks[t] \in Row,
         NEW n, Grown(n), n.task = t, n.kind \in Moves,
         tasks'[t].status = StatusAfter(n),
         tasks'[t].attempts = tasks[t].attempts + (IF n.kind = "claim" THEN 1 ELSE 0),
         tasks'[t].completedAt = IF n.kind = "complete" THEN n.ts ELSE tasks[t].completedAt
  PROVE  Told(t)'
  <1>1. /\ MovesOf(t)' = MovesOf(t) \cup {n}
        /\ DoneOf(t)' = IF n.kind = "complete" THEN DoneOf(t) \cup {n} ELSE DoneOf(t)
        /\ ClaimsOf(t)' = IF n.kind = "claim" THEN ClaimsOf(t) \cup {n} ELSE ClaimsOf(t)
    BY GrownHistory
  <1>2. LatestOf(MovesOf(t) \cup {n}) = n /\ LatestOf(DoneOf(t) \cup {n}) = n
    BY GrownLatest, PartsOfLedger
  <1>3. Cardinality(ClaimsOf(t)') = Cardinality(ClaimsOf(t)) + (IF n.kind = "claim" THEN 1 ELSE 0)
    <2>1. IsFiniteSet(ClaimsOf(t))
      BY FS_Subset, PartsOfLedger DEF EventsOK
    <2>2. Cardinality(ClaimsOf(t)) \in Nat /\ n \notin ClaimsOf(t)
      BY <2>1, FS_CardinalityType, PartsOfLedger DEF Grown
    <2>3. CASE n.kind = "claim"
      <3>1. ClaimsOf(t)' = ClaimsOf(t) \cup {n}
        BY <1>1, <2>3
      <3>2. Cardinality(ClaimsOf(t) \cup {n}) = Cardinality(ClaimsOf(t)) + 1
        BY <2>1, <2>2, FS_AddElement
      <3> QED BY <2>3, <3>1, <3>2
    <2>4. CASE n.kind # "claim"
      BY <1>1, <2>2, <2>4
    <2> QED BY <2>3, <2>4
  <1>4. tasks'[t].status = IF MovesOf(t)' = {} THEN "queued" ELSE StatusAfter(LatestOf(MovesOf(t)'))
    BY <1>1, <1>2
  <1>5. tasks'[t].completedAt = IF DoneOf(t)' = {} THEN None ELSE LatestOf(DoneOf(t)').ts
    <2>1. CASE n.kind = "complete"
      BY <1>1, <1>2, <2>1
    <2>2. CASE n.kind # "complete"
      BY <1>1, <2>2 DEF Told
    <2> QED BY <2>1, <2>2
  <1>6. tasks'[t].attempts = Cardinality(ClaimsOf(t)')
    BY <1>3 DEF Told
  <1> QED BY <1>4, <1>5, <1>6 DEF Told

(* What a piece in hand shows stays explained while the ledger grows. *)
LEMMA StillExplained ==
  ASSUME eventSeq \in Nat, NEW ledger, NEW row, Explains(ledger, row),
         NEW more, ledger \subseteq more, \A e \in more \ ledger : e.id = eventSeq + 1,
         eventSeq' \in Nat, eventSeq' >= eventSeq
  PROVE  Explains(more, row)'
  <1>1. PICK n \in 0 .. eventSeq : LeadsTo(ledger, n, row)
    BY DEF Explains
  <1>2. {e \in more : e.id <= n /\ e.kind \in Moves}
          = {e \in ledger : e.id <= n /\ e.kind \in Moves}
    <2>1. \A e \in more : e.id <= n => e \in ledger
      OBVIOUS
    <2> QED BY <2>1
  <1>3. LeadsTo(more, n, row)'
    BY <1>1, <1>2 DEF LeadsTo, LatestOf
  <1> QED BY <1>1, <1>3 DEF Explains

(* A row, read now, is told by the ledger as it is now. *)
LEMMA ReadIsExplained ==
  ASSUME EventsOK, NEW t \in Tasks, Told(t)
  PROVE  Explains(History(t), tasks[t])
  <1>1. {e \in History(t) : e.id <= eventSeq /\ e.kind \in Moves} = MovesOf(t)
    BY DEF EventsOK, History, MovesOf
  <1>2. LeadsTo(History(t), eventSeq, tasks[t])
    BY <1>1 DEF LeadsTo, Told, DoneOf, ClaimsOf
  <1> QED BY <1>2 DEF Explains, EventsOK
-----------------------------------------------------------------------------
(* What a step does to the tables *)

SameBut(t) ==
  /\ tasks' \in [Tasks -> Row]
  /\ \A u \in Tasks : u # t => tasks'[u] = tasks[u]

Quiet ==
  /\ UNCHANGED <<tasks, events, eventSeq, parent, purged, notes, noteSeq>>
  /\ clock' \in Nat /\ clock' >= clock

(* A new row *)
Posted(t) ==
  /\ ~Exists(t) /\ t \notin purged
  /\ SameBut(t)
  /\ tasks'[t].status = "queued" /\ tasks'[t].attempts = 0 /\ tasks'[t].completedAt = None
  /\ tasks'[t].sig \in Signatures /\ tasks'[t].createdAt <= clock

(* A claim or a release of the row t, with its event n *)
Moved(t, n) ==
  /\ Exists(t) /\ Exists(t)'
  /\ SameBut(t)
  /\ Grown(n) /\ n.task = t /\ n.kind \in Moves
  /\ tasks'[t].status = StatusAfter(n)
  /\ tasks'[t].attempts = tasks[t].attempts + (IF n.kind = "claim" THEN 1 ELSE 0)
  /\ tasks'[t].completedAt = (IF n.kind = "complete" THEN n.ts ELSE tasks[t].completedAt)
  /\ tasks'[t].type = tasks[t].type /\ tasks'[t].sig = tasks[t].sig
  /\ tasks'[t].priority = tasks[t].priority /\ tasks'[t].maxAttempts = tasks[t].maxAttempts
  /\ tasks'[t].createdAt = tasks[t].createdAt
  /\ UNCHANGED <<clock, parent, purged, notes, noteSeq>>

LEMMA ClaimMoves ==
  ASSUME TablesOK, EventsOK, CallersOK, NEW w \in Workers, NEW t \in Tasks, ClaimTxn(w, t),
         UNCHANGED <<parent, purged, notes, noteSeq>>
  PROVE  \E n : Moved(t, n)
  <1>1. /\ tasks[t] \in Row /\ tasks[t].status = "queued" /\ tasks \in [Tasks -> Row]
        /\ AgentOf[w] \in Agents /\ proc[w].now \in Nat
    BY AgentsAssumption DEF TablesOK, CallersOK, Proc, ClaimTxn, First, Eligible
  <1> DEFINE row == Claimed(tasks[t], AgentOf[w], proc[w].now)
  <1>2. row \in Row
    BY <1>1, ClaimedRow
  <1>3. /\ row.status = "claimed" /\ row.attempts = tasks[t].attempts + 1
        /\ row.completedAt = tasks[t].completedAt /\ row.type = tasks[t].type
        /\ row.sig = tasks[t].sig /\ row.priority = tasks[t].priority
        /\ row.maxAttempts = tasks[t].maxAttempts /\ row.createdAt = tasks[t].createdAt
    BY <1>1 DEF Claimed, Row
  <1>4. tasks' = [tasks EXCEPT ![t] = row] /\ UNCHANGED clock
    BY <1>1 DEF ClaimTxn
  <1> HIDE DEF row
  <1>5. tasks'[t] = row /\ SameBut(t)
    BY <1>1, <1>2, <1>4 DEF SameBut
  <1>6. PICK n : Grown(n) /\ n.task = t /\ n.kind = "claim"
    BY LogGrows DEF ClaimTxn
  <1>7. StatusAfter(n) = "claimed" /\ n.kind \in Moves /\ n.kind # "complete"
    BY <1>6 DEF StatusAfter, Moves
  <1>8. Exists(t) /\ Exists(t)'
    BY <1>1, <1>3, <1>5 DEF Exists
  <1>9. UNCHANGED <<clock, parent, purged, notes, noteSeq>>
    BY <1>4
  <1> QED BY <1>3, <1>5, <1>6, <1>7, <1>8, <1>9 DEF Moved

LEMMA SettleMoves ==
  ASSUME TablesOK, EventsOK, NEW t \in Tasks, NEW a, NEW sig, NEW kind \in SettleKinds,
         NEW now \in Nat, NEW verdict \in {"queued", "failed", None},
         kind = "fail" => verdict \in {"queued", "failed"},
         Settle(t, a, sig, kind, now, verdict),
         UNCHANGED <<clock, parent, purged, notes, noteSeq>>
  PROVE  \E n : Moved(t, n) /\ n.kind = kind
  <1>1. tasks[t] \in Row /\ Exists(t) /\ tasks \in [Tasks -> Row]
    BY DEF TablesOK, Settle
  <1> DEFINE row == Settled(tasks[t], kind, now, verdict)
  <1>2. row \in Row /\ row.status \in {"queued", "done", "failed"} /\ row.sig = tasks[t].sig
    BY <1>1, SettledRow
  <1>3. /\ row.attempts = tasks[t].attempts /\ row.type = tasks[t].type
        /\ row.priority = tasks[t].priority /\ row.maxAttempts = tasks[t].maxAttempts
        /\ row.createdAt = tasks[t].createdAt
        /\ row.completedAt = IF kind = "complete" THEN now ELSE tasks[t].completedAt
    BY <1>1 DEF Settled, Requeued, Row, SettleKinds
  <1>4. tasks' = [tasks EXCEPT ![t] = row]
    BY <1>1 DEF Settle
  <1>5. row.status = CASE kind = "complete" -> "done" [] kind = "decline" -> "queued"
                       [] kind = "fail" -> verdict
    BY <1>1 DEF Settled, Requeued, Row, SettleKinds
  <1> HIDE DEF row
  <1>6. tasks'[t] = row /\ SameBut(t)
    BY <1>1, <1>2, <1>4 DEF SameBut
  <1>7. PICK n : Grown(n) /\ n.task = t /\ n.kind = kind /\ n.ts = now /\ n.post = verdict
    BY LogGrows DEF Settle
  <1>8. n.kind \in Moves /\ n.kind # "claim" /\ StatusAfter(n) = row.status
    BY <1>5, <1>7 DEF StatusAfter, Moves, SettleKinds
  <1>9. Exists(t)'
    BY <1>2, <1>6 DEF Exists
  <1>10. tasks'[t].attempts \in Nat /\ tasks[t].attempts \in Nat
    BY <1>1, <1>2, <1>6 DEF Row
  <1>11. Moved(t, n)
    BY <1>1, <1>2, <1>3, <1>6, <1>7, <1>8, <1>9, <1>10 DEF Moved
  <1> QED BY <1>7, <1>11
LEMMA HandleSettles ==
  ASSUME TablesOK, EventsOK, CallersOK, NEW w \in Workers, NEW kind \in SettleKinds,
         SettleTxn(w, kind), UNCHANGED board
  PROVE  proc[w].task \in Tasks /\ \E n : Moved(proc[w].task, n) /\ n.kind = kind
  <1>1. PICK t, now, verdict : t = proc[w].task /\ now = proc[w].now /\ verdict = proc[w].verdict
    OBVIOUS
  <1>2. /\ t \in Tasks /\ now \in Nat /\ verdict \in {"queued", "failed", None}
        /\ kind = "fail" => verdict \in {"queued", "failed"}
    BY <1>1 DEF CallersOK, HandleShape, Proc, SettleTxn
  <1>3. Settle(t, AgentOf[w], tasks[t].sig, kind, now, verdict)
    BY <1>1 DEF SettleTxn
  <1>4. UNCHANGED <<clock, parent, purged, notes, noteSeq>>
    BY DEF SettleTxn, board
  <1> QED BY <1>1, <1>2, <1>3, <1>4, SettleMoves

LEMMA CommandSettles ==
  ASSUME TablesOK, EventsOK, CallersOK, NEW o \in Operators, CommandTxn(o), UNCHANGED board
  PROVE  \E t \in Tasks : \E n : Moved(t, n)
  <1>1. PICK t, a, sig, kind, now, verdict :
          /\ t = cli[o].task /\ a = cli[o].agent /\ sig = cli[o].sig
          /\ kind = cli[o].pc /\ now = cli[o].now /\ verdict = cli[o].verdict
    OBVIOUS
  <1>2. /\ t \in Tasks /\ kind \in SettleKinds /\ now \in Nat
        /\ verdict \in {"queued", "failed", None}
        /\ kind = "fail" => verdict \in {"queued", "failed"}
    BY <1>1 DEF CallersOK, CommandTxn
  <1>3. Settle(t, a, sig, kind, now, verdict)
    BY <1>1 DEF CommandTxn
  <1>4. UNCHANGED <<clock, parent, purged, notes, noteSeq>>
    BY DEF CommandTxn, board
  <1> QED BY <1>2, <1>3, <1>4, SettleMoves

LEMMA PostIsPosted ==
  ASSUME TablesOK, Posting, \A t \in purged : ~Exists(t)', UNCHANGED board
  PROVE  /\ \E t \in Tasks : Posted(t)
         /\ UNCHANGED <<clock, events, eventSeq, proc, board>>
  <1>1. PICK t \in Tasks, type \in TaskTypes, sigArg \in Signatures \cup {None},
             prio \in Priorities, limit \in AttemptLimits, created \in 0 .. clock :
               Post(t, type, sigArg, prio, limit, created)
    BY DEF Posting
  <1> DEFINE row == NewRow(type, sigArg, prio, limit, created)
  <1>2. /\ row \in Row /\ row.sig \in Signatures /\ row.status = "queued" /\ row.attempts = 0
        /\ row.completedAt = None /\ row.createdAt <= clock
    BY SignaturesAssumption, NumbersAssumption
       DEF NewRow, SignatureOrType, Row, Statuses, TablesOK
  <1>3. ~Exists(t) /\ tasks' = [tasks EXCEPT ![t] = row]
    BY <1>1 DEF Post
  <1> HIDE DEF row
  <1>4. tasks'[t] = row /\ SameBut(t)
    BY <1>2, <1>3 DEF TablesOK, SameBut
  <1>5. t \notin purged
    BY <1>2, <1>4 DEF Exists
  <1> QED BY <1>1, <1>2, <1>3, <1>4, <1>5 DEF Posted, Post

(* Who writes what *)
Writes ==
  \/ Quiet
  \/ (\E t \in Tasks : Posted(t)) /\ UNCHANGED <<clock, events, eventSeq, proc, board>>
  \/ (\E w \in Workers, t \in Tasks : ClaimTxn(w, t)) /\ UNCHANGED board
  \/ (\E w \in Workers, kind \in SettleKinds : SettleTxn(w, kind)) /\ UNCHANGED board
  \/ (\E o \in Operators : CommandTxn(o)) /\ UNCHANGED board
  \/ \E c \in Clerks, t \in Tasks : ReplayTxn(c, t)
  \/ \E c \in Clerks : PurgeTxn(c) \/ InterveneTxn(c) \/ HonorTxn(c)
  \/ \E c \in Clerks, a \in Agents : DiagnoseTxn(c, a)

LEMMA StepWrites ==
  ASSUME TablesOK, [ViewsNext]_boardVars PROVE Writes
  <1> USE DEF Quiet, db, board
  <1>1. clock \in Nat
    BY DEF TablesOK
  <1>2. CASE UNCHANGED boardVars
    BY <1>1, <1>2 DEF Writes, boardVars
  <1>3. CASE QueueStep
    <2>1. UNCHANGED board /\ (\A t \in purged : ~Exists(t)') /\ CliNext
      BY <1>3 DEF QueueStep
    <2>2. CASE Tick
      BY <1>1, <2>1, <2>2 DEF Writes, Tick
    <2>3. CASE Posting
      BY <2>1, <2>3, PostIsPosted DEF Writes
    <2>4. ASSUME NEW w \in Workers, WorkerStep(w) PROVE Writes
      BY <1>1, <2>1, <2>4 DEF Writes, WorkerStep, ClaimCall, ClaimNone, SettleCall, TxnError, Crash
    <2>5. ASSUME NEW o \in Operators, OperatorStep(o) PROVE Writes
      BY <1>1, <2>1, <2>5 DEF Writes, OperatorStep, CommandCall, CommandLost
    <2> QED BY <2>1, <2>2, <2>3, <2>4, <2>5 DEF CliNext, Next
  <1>4. ASSUME NEW c \in Clerks, ClerkStep(c) PROVE Writes
    BY <1>1, <1>4 DEF Writes, ClerkStep, ReplayCall, InterveneCall, PurgeCall, HonorCall,
       ClerkLost, Begin
  <1>5. ASSUME NEW c \in Clerks, ReaderStep(c) PROVE Writes
    BY <1>1, <1>5 DEF Writes, ReaderStep, PageCall, PageEvents, EntryCall, DossierBaseline,
       DiagnoseCall, Begin
  <1> QED BY <1>2, <1>3, <1>4, <1>5 DEF ViewsNext, BoardNext
-----------------------------------------------------------------------------
(* What every write keeps of the ledger and the tables *)

LEMMA QuietLedger ==
  ASSUME LedgerPart, Quiet PROVE LedgerPart'
  <1> USE DEF Quiet, LedgerPart
  <1>1. TablesOK'
    BY DEF TablesOK, Exists, Row
  <1>2. EventsOK' /\ NoDanglingReference' /\ HonoredHasEvent'
    BY DEF EventsOK, NoDanglingReference, HonoredHasEvent, Exists, LatestOf
  <1>3. \A t \in Tasks : Exists(t)' => Told(t)'
    <2>1. \A t \in Tasks : /\ MovesOf(t)' = MovesOf(t) /\ DoneOf(t)' = DoneOf(t)
                           /\ ClaimsOf(t)' = ClaimsOf(t) /\ Exists(t)' = Exists(t)
      BY DEF MovesOf, DoneOf, ClaimsOf, History, Exists
    <2> QED BY <2>1, ToldKept
  <1> QED BY <1>1, <1>2, <1>3

(* A row that is there stays there, and a new event names one. *)
LEMMA ReferencesKept ==
  ASSUME EventsOK, NoDanglingReference, TablesOK, \A u \in Tasks : Exists(u) => Exists(u)',
         UNCHANGED <<parent, notes>>, NEW n, n.task \in Tasks => Exists(n.task)',
         events' \subseteq events \cup {n}, \A e \in events' : e.task \in Tasks
  PROVE  NoDanglingReference'
  <1>1. \A e \in events' : Exists(e.task)'
    BY DEF NoDanglingReference, EventsOK
  <1>2. \A t \in Tasks : parent'[t] # None => Exists(t)' /\ Exists(parent[t])'
    BY DEF NoDanglingReference, TablesOK
  <1>3. \A i \in Notes : notes'[i] # NoNote => Exists(notes[i].task)'
    BY DEF NoDanglingReference, TablesOK
  <1> QED BY <1>1, <1>2, <1>3 DEF NoDanglingReference

LEMMA HonorsKept ==
  ASSUME HonoredHasEvent, UNCHANGED notes, \A i \in Notes : HonorsOf(i)' = HonorsOf(i)
  PROVE  HonoredHasEvent'
  BY DEF HonoredHasEvent, HonorsOf, LatestOf

LEMMA MovedLedger ==
  ASSUME LedgerPart, NEW t \in Tasks, NEW n, Moved(t, n) PROVE LedgerPart'
  <1>1. /\ Exists(t) /\ Exists(t)' /\ SameBut(t) /\ Grown(n) /\ n.task = t /\ n.kind \in Moves
        /\ UNCHANGED <<clock, parent, purged, notes, noteSeq>>
    BY DEF Moved
  <1>2. \A u \in Tasks : Exists(u)' <=> Exists(u)
    BY <1>1 DEF SameBut, Exists
  <1>3. TablesOK'
    BY <1>1, <1>2 DEF LedgerPart, TablesOK, SameBut, Moved
  <1>4. n.kind # "intervene"
    BY <1>1 DEF Moves, SettleKinds
  <1>5. EventsOK'
    BY <1>1, <1>4, GrownEvents DEF LedgerPart
  <1>6. NoDanglingReference'
    BY <1>1, <1>2, <1>5, ReferencesKept DEF LedgerPart, Grown, EventsOK
  <1>7. HonoredHasEvent'
    BY <1>1, <1>4, HonorsKept DEF LedgerPart, Grown, HonorsOf
  <1>8. ASSUME NEW u \in Tasks, Exists(u)' PROVE Told(u)'
    <2>1. CASE u = t
      BY <1>1, <2>1, MoveTold DEF LedgerPart, TablesOK, Moved
    <2>2. CASE u # t
      BY <1>1, <1>2, <1>8, <2>2, GrownHistory, ToldKept DEF LedgerPart, SameBut
    <2> QED BY <2>1, <2>2
  <1> QED BY <1>3, <1>5, <1>6, <1>7, <1>8 DEF LedgerPart

(* A task without a row has no history. *)
LEMMA NoRowNoHistory ==
  ASSUME LedgerPart, NEW t \in Tasks, ~Exists(t)
  PROVE  History(t) = {} /\ MovesOf(t) = {} /\ DoneOf(t) = {} /\ ClaimsOf(t) = {}
         /\ ReplaysOf(t) = {}
  BY DEF LedgerPart, NoDanglingReference, History, MovesOf, DoneOf, ClaimsOf, ReplaysOf

(* A new row, without an event or with one that is no move *)
LEMMA NewRowLedger ==
  ASSUME LedgerPart, NEW t \in Tasks, Posted(t), UNCHANGED <<clock, purged, notes, noteSeq>>,
         \/ UNCHANGED <<events, eventSeq, parent>>
         \/ \E n, src :
              /\ src \in Tasks /\ Grown(n) /\ n.task = t /\ n.kind = "replay"
              /\ Exists(src) /\ parent' = [parent EXCEPT ![t] = src]
  PROVE  LedgerPart'
  <1>1. /\ ~Exists(t) /\ t \notin purged /\ SameBut(t) /\ tasks'[t].status = "queued"
        /\ tasks'[t].sig \in Signatures /\ tasks'[t].createdAt <= clock
    BY DEF Posted
  <1>2. Exists(t)' /\ \A u \in Tasks : u # t => Exists(u)' = Exists(u)
    BY <1>1 DEF Exists, SameBut
  <1>3. TablesOK'
    BY <1>1, <1>2 DEF LedgerPart, TablesOK, SameBut
  <1>4. EventsOK'
    BY GrownEvents DEF LedgerPart, EventsOK
  <1>5. NoDanglingReference'
    <2>1. \A e \in events' : Exists(e.task)'
      BY <1>2 DEF LedgerPart, NoDanglingReference, Grown, EventsOK
    <2>2. \A u \in Tasks : parent'[u] # None => Exists(u)' /\ Exists(parent[u])'
      BY <1>2 DEF LedgerPart, NoDanglingReference, TablesOK
    <2>3. \A i \in Notes : notes'[i] # NoNote => Exists(notes[i].task)'
      BY <1>2 DEF LedgerPart, NoDanglingReference, TablesOK
    <2> QED BY <2>1, <2>2, <2>3 DEF NoDanglingReference
  <1>6. HonoredHasEvent'
    <2>1. \A i \in Notes : HonorsOf(i)' = HonorsOf(i)
      BY DEF HonorsOf, Grown
    <2> QED BY <2>1, HonorsKept DEF LedgerPart
  <1>7. \A u \in Tasks : /\ MovesOf(u)' = MovesOf(u) /\ DoneOf(u)' = DoneOf(u)
                         /\ ClaimsOf(u)' = ClaimsOf(u)
    <2>1. CASE UNCHANGED events
      BY <2>1 DEF MovesOf, DoneOf, ClaimsOf, History
    <2>2. CASE \E n : Grown(n) /\ n.task = t /\ n.kind = "replay"
      <3>1. "replay" \notin Moves
        BY DEF Moves, SettleKinds
      <3> QED BY <2>2, <3>1, GrownHistory DEF LedgerPart
    <2> QED BY <2>1, <2>2
  <1>8. ASSUME NEW u \in Tasks, Exists(u)' PROVE Told(u)'
    <2>1. CASE u = t
      <3>1. MovesOf(t)' = {} /\ DoneOf(t)' = {} /\ ClaimsOf(t)' = {}
        BY <1>1, <1>7, NoRowNoHistory
      <3> QED BY <2>1, <3>1, FS_EmptySet DEF Told, Posted
    <2>2. CASE u # t
      BY <1>1, <1>2, <1>7, <1>8, <2>2, ToldKept DEF LedgerPart, SameBut
    <2> QED BY <2>1, <2>2
  <1> QED BY <1>3, <1>4, <1>5, <1>6, <1>8 DEF LedgerPart
LEMMA ReplayPosts ==
  ASSUME LedgerPart, DeskPart, NEW c \in Clerks, NEW t \in Tasks, ReplayTxn(c, t)
  PROVE  \E src, row, n :
           /\ src \in Tasks /\ row \in Row
           /\ Posted(t) /\ UNCHANGED <<clock, purged, notes, noteSeq>>
           /\ src = desk[c].task /\ row = desk[c].row /\ Exists(src)
           /\ parent' = [parent EXCEPT ![t] = src]
           /\ Grown(n) /\ n.task = t /\ n.kind = "replay"
           /\ tasks'[t].type = row.type /\ tasks'[t].sig = row.sig
           /\ tasks'[t].priority = row.priority /\ tasks'[t].maxAttempts = row.maxAttempts
           /\ tasks'[t].createdAt >= row.createdAt
  <1>1. PICK src, row, now : src = desk[c].task /\ row = desk[c].row /\ now = desk[c].now
    OBVIOUS
  <1>2. /\ src \in Tasks /\ row \in Row /\ row.sig \in Signatures /\ now \in Nat
        /\ row.createdAt <= now /\ now <= clock
    BY <1>1 DEF DeskPart, CallOK, ReplayTxn
  <1> DEFINE new == NewRow(row.type, row.sig, row.priority, row.maxAttempts, now)
  <1>3. /\ new \in Row /\ new.status = "queued" /\ new.attempts = 0 /\ new.completedAt = None
        /\ new.sig = row.sig /\ new.type = row.type /\ new.priority = row.priority
        /\ new.maxAttempts = row.maxAttempts /\ new.createdAt = now
    BY <1>2, SignaturesAssumption DEF NewRow, SignatureOrType, Row, Statuses
  <1>4. /\ ~Exists(t) /\ t \notin purged /\ Exists(src)
        /\ tasks' = [tasks EXCEPT ![t] = new] /\ parent' = [parent EXCEPT ![t] = src]
        /\ Log(t, "replay", now, None, None)
        /\ UNCHANGED <<clock, purged, notes, noteSeq>>
    BY <1>1 DEF ReplayTxn
  <1> HIDE DEF new
  <1>5. tasks'[t] = new /\ SameBut(t)
    BY <1>3, <1>4 DEF SameBut, LedgerPart, TablesOK
  <1>6. PICK n : Grown(n) /\ n.task = t /\ n.kind = "replay"
    BY <1>4, LogGrows DEF LedgerPart
  <1>7. Posted(t)
    BY <1>2, <1>3, <1>4, <1>5 DEF Posted
  <1> QED BY <1>1, <1>2, <1>3, <1>4, <1>5, <1>6, <1>7

LEMMA ReplayLedger ==
  ASSUME LedgerPart, DeskPart, NEW c \in Clerks, NEW t \in Tasks, ReplayTxn(c, t)
  PROVE  LedgerPart'
  <1>1. PICK src, row, n :
          /\ src \in Tasks /\ Exists(src) /\ parent' = [parent EXCEPT ![t] = src]
          /\ Posted(t) /\ UNCHANGED <<clock, purged, notes, noteSeq>>
          /\ Grown(n) /\ n.task = t /\ n.kind = "replay"
    BY ReplayPosts
  <1> QED BY <1>1, NewRowLedger

(* A purge takes the events and the rows of whole tasks, to which nothing  *)
(* that stays refers.                                                      *)
LEMMA PurgeLedger ==
  ASSUME LedgerPart, DeskPart, NEW c \in Clerks, PurgeTxn(c) PROVE LedgerPart'
  <1>1. PICK ids : ids = desk[c].ids
    OBVIOUS
  <1>2. /\ ids \subseteq Tasks /\ Deletable(ids)
        /\ events' = {e \in events : e.task \notin ids}
        /\ tasks' = [t \in Tasks |-> IF t \in ids THEN NoRow ELSE tasks[t]]
        /\ parent' = [t \in Tasks |-> IF t \in ids THEN None ELSE parent[t]]
        /\ purged' = purged \cup ids
        /\ UNCHANGED <<clock, eventSeq, notes, noteSeq>>
    BY <1>1 DEF PurgeTxn, DeskPart, CallOK
  <1>3. \A t \in Tasks : Exists(t)' <=> Exists(t) /\ t \notin ids
    BY <1>2 DEF Exists, NoRow
  <1>4. TablesOK'
    <2>1. NoRow \in Row
      BY DEF NoRow, Row, Statuses
    <2>2. tasks' \in [Tasks -> Row] /\ parent' \in [Tasks -> Tasks \cup {None}]
      BY <1>2, <2>1 DEF LedgerPart, TablesOK
    <2>3. \A t \in Tasks : Exists(t)' => tasks'[t] = tasks[t]
      BY <1>2, <1>3
    <2> QED BY <1>2, <1>3, <2>2, <2>3 DEF LedgerPart, TablesOK
  <1>5. EventsOK'
    <2>1. IsFiniteSet(events')
      BY <1>2, FS_Subset DEF LedgerPart, EventsOK
    <2> QED BY <1>2, <2>1 DEF LedgerPart, EventsOK
  <1>6. NoDanglingReference'
    <2>1. \A e \in events' : Exists(e.task)'
      BY <1>2, <1>3 DEF LedgerPart, NoDanglingReference, EventsOK
    <2>2. \A t \in Tasks : parent'[t] # None => Exists(t)' /\ Exists(parent[t])'
      <3>1. ASSUME NEW t \in Tasks, parent'[t] # None PROVE Exists(t)' /\ Exists(parent[t])'
        <4>1. PICK p : p = parent[t]
          OBVIOUS
        <4>2. t \notin ids /\ parent'[t] = p /\ p # None
          BY <1>2, <3>1, <4>1
        <4>3. p \in Tasks /\ Exists(t) /\ Exists(p)
          BY <4>1, <4>2 DEF LedgerPart, NoDanglingReference, TablesOK
        <4>4. p \notin ids
          BY <1>2, <4>1, <4>2 DEF Deletable, NoChildLeft
        <4>5. Exists(t)' /\ Exists(p)'
          BY <1>3, <4>2, <4>3, <4>4
        <4> QED BY <4>2, <4>5
      <3> QED BY <3>1
    <2>3. \A i \in Notes : notes'[i] # NoNote => Exists(notes[i].task)'
      <3>1. ASSUME NEW i \in Notes, notes[i] # NoNote
            PROVE  notes[i].task \in Tasks /\ Exists(notes[i].task) /\ notes[i].task \notin ids
        BY <1>2, <3>1 DEF LedgerPart, NoDanglingReference, TablesOK, Deletable, NoNoteOn
      <3> QED BY <1>2, <1>3, <3>1
    <2> QED BY <2>1, <2>2, <2>3 DEF NoDanglingReference
  <1>7. HonoredHasEvent'
    <2>1. \A i \in Notes : HonorsOf(i)' = HonorsOf(i)
      BY <1>2 DEF HonorsOf, Deletable, NoNoteOn, LedgerPart, EventsOK
    <2> QED BY <1>2, <2>1, HonorsKept DEF LedgerPart
  <1>8. ASSUME NEW t \in Tasks, Exists(t)' PROVE Told(t)'
    <2>1. t \notin ids /\ Exists(t) /\ tasks'[t] = tasks[t]
      BY <1>2, <1>3, <1>8
    <2>2. History(t)' = History(t)
      BY <1>2, <2>1 DEF History
    <2>3. /\ MovesOf(t)' = MovesOf(t) /\ DoneOf(t)' = DoneOf(t) /\ ClaimsOf(t)' = ClaimsOf(t)
      BY <2>2 DEF MovesOf, DoneOf, ClaimsOf
    <2> QED BY <2>1, <2>3, ToldKept DEF LedgerPart
  <1> QED BY <1>4, <1>5, <1>6, <1>7, <1>8 DEF LedgerPart

(* An event that is no move, of a task that is there *)
LEMMA RemarkTold ==
  ASSUME LedgerPart, NEW n, Grown(n), n.kind \notin Moves, UNCHANGED tasks
  PROVE  \A t \in Tasks : Exists(t)' => Told(t)'
  <1>1. "complete" \in Moves /\ "claim" \in Moves
    BY DEF Moves, SettleKinds
  <1>2. \A t \in Tasks : /\ MovesOf(t)' = MovesOf(t) /\ DoneOf(t)' = DoneOf(t)
                         /\ ClaimsOf(t)' = ClaimsOf(t)
    BY <1>1, GrownHistory DEF LedgerPart
  <1> QED BY <1>2, ToldKept DEF LedgerPart, Exists

LEMMA DiagnoseLedger ==
  ASSUME LedgerPart, DeskPart, NEW c \in Clerks, NEW a \in Agents, DiagnoseTxn(c, a)
  PROVE  LedgerPart'
  <1>1. PICK t, now : t = desk[c].task /\ now = desk[c].now
    OBVIOUS
  <1>2. /\ t \in Tasks /\ Exists(t) /\ Log(t, "diagnose", now, a, None)
        /\ UNCHANGED <<clock, tasks, parent, purged, notes, noteSeq>>
    BY <1>1 DEF DiagnoseTxn, DeskPart, CallOK
  <1>3. PICK n : Grown(n) /\ n.task = t /\ n.kind = "diagnose"
    BY <1>2, LogGrows DEF LedgerPart
  <1>4. TablesOK'
    BY <1>2 DEF LedgerPart, TablesOK, Exists
  <1>5. EventsOK'
    BY <1>2, <1>3, GrownEvents DEF LedgerPart
  <1>6. \A u \in Tasks : Exists(u) => Exists(u)'
    BY <1>2 DEF Exists
  <1>7. NoDanglingReference'
    BY <1>2, <1>3, <1>5, <1>6, ReferencesKept DEF LedgerPart, Grown, EventsOK
  <1>8. HonoredHasEvent'
    BY <1>2, <1>3, HonorsKept DEF LedgerPart, Grown, HonorsOf
  <1>9. n.kind \notin Moves
    BY <1>3 DEF Moves, SettleKinds
  <1> QED BY <1>2, <1>3, <1>4, <1>5, <1>7, <1>8, <1>9, RemarkTold DEF LedgerPart

LEMMA InterveneLedger ==
  ASSUME LedgerPart, DeskPart, NEW c \in Clerks, InterveneTxn(c) PROVE LedgerPart'
  <1>1. PICK t, i : t = desk[c].task /\ i = noteSeq + 1
    OBVIOUS
  <1>2. /\ t \in Tasks /\ Exists(t) /\ i \in Notes /\ noteSeq' = i
        /\ notes' = [notes EXCEPT ![i] = [task |-> t, honoredAt |-> None]]
        /\ UNCHANGED <<clock, tasks, events, eventSeq, parent, purged>>
    BY <1>1 DEF InterveneTxn, DeskPart, CallOK, db
  <1>3. /\ notes[i] = NoNote /\ noteSeq \in Nat /\ i > noteSeq
        /\ \A j \in Notes : j \in Nat
    BY <1>1, <1>2, NotesAssumption DEF LedgerPart, TablesOK, Notes
  <1>4. /\ notes'[i] = [task |-> t, honoredAt |-> None] /\ notes'[i].task = t
        /\ notes'[i].honoredAt = None
        /\ \A j \in Notes : j # i => notes'[j] = notes[j]
        /\ notes' \in [Notes -> [task: Tasks \cup {None}, honoredAt: Nat \cup {None}]]
    BY <1>2 DEF LedgerPart, TablesOK
  <1>5. TablesOK'
    <2>1. \A j \in Notes : j > noteSeq' \/ notes'[j].task = None => notes'[j] = NoNote
      BY <1>1, <1>2, <1>3, <1>4, TasksAssumption DEF LedgerPart, TablesOK
    <2> QED BY <1>1, <1>2, <1>3, <1>4, <2>1 DEF LedgerPart, TablesOK, Exists
  <1>6. \A e \in events : e.kind = "intervene" => e.post # i
    BY <1>3, TasksAssumption DEF LedgerPart, EventsOK, NoNote
  <1>7. EventsOK'
    BY <1>2, <1>4, <1>6 DEF LedgerPart, EventsOK
  <1>8. NoDanglingReference'
    <2>1. \A j \in Notes : notes'[j] # NoNote => Exists(notes[j].task)'
      BY <1>2, <1>4 DEF LedgerPart, NoDanglingReference, Exists
    <2>2. \A u \in Tasks : parent'[u] # None => Exists(u)' /\ Exists(parent[u])'
      BY <1>2 DEF LedgerPart, NoDanglingReference, Exists
    <2> QED BY <1>2, <2>1, <2>2 DEF LedgerPart, NoDanglingReference, Exists
  <1>9. HonoredHasEvent'
    <2>1. \A j \in Notes : HonorsOf(j)' = HonorsOf(j)
      BY <1>2 DEF HonorsOf
    <2>2. HonorsOf(i)' = {}
      BY <1>6, <2>1, <1>2 DEF HonorsOf
    <2> QED BY <1>4, <2>1, <2>2 DEF HonoredHasEvent, HonorsOf, LedgerPart, LatestOf
  <1>10. \A u \in Tasks : Exists(u)' => Told(u)'
    <2>1. \A u \in Tasks : /\ MovesOf(u)' = MovesOf(u) /\ DoneOf(u)' = DoneOf(u)
                           /\ ClaimsOf(u)' = ClaimsOf(u) /\ Exists(u)' = Exists(u)
      BY <1>2 DEF MovesOf, DoneOf, ClaimsOf, History, Exists
    <2> QED BY <1>2, <2>1, ToldKept DEF LedgerPart
  <1> QED BY <1>5, <1>7, <1>8, <1>9, <1>10 DEF LedgerPart
LEMMA HonorLedger ==
  ASSUME LedgerPart, DeskPart, NEW c \in Clerks, HonorTxn(c) PROVE LedgerPart'
  <1>1. PICK i, t, a, now :
          i = desk[c].note /\ t = notes[i].task /\ a = desk[c].agent /\ now = desk[c].now
    OBVIOUS
  <1>2. /\ i \in Notes /\ notes[i] # NoNote /\ now \in Nat
        /\ notes' = [notes EXCEPT ![i].honoredAt = now]
        /\ Log(t, "intervene", now, a, i)
        /\ UNCHANGED <<clock, tasks, parent, purged, noteSeq>>
    BY <1>1 DEF HonorTxn, DeskPart, CallOK
  <1>3. t \in Tasks /\ Exists(t)
    BY <1>1, <1>2 DEF LedgerPart, TablesOK, NoDanglingReference
  <1>4. /\ notes'[i].task = t /\ notes'[i].honoredAt = now
        /\ \A j \in Notes : j # i => notes'[j] = notes[j]
        /\ notes' \in [Notes -> [task: Tasks \cup {None}, honoredAt: Nat \cup {None}]]
    BY <1>1, <1>2 DEF LedgerPart, TablesOK
  <1>5. \A j \in Notes : notes'[j].task = notes[j].task
    BY <1>1, <1>4
  <1>6. PICK n : Grown(n) /\ n.task = t /\ n.kind = "intervene" /\ n.post = i /\ n.ts = now
    BY <1>2, <1>3, LogGrows DEF LedgerPart
  <1>7. TablesOK'
    <2>1. \A j \in Notes : j > noteSeq' \/ notes'[j].task = None => notes'[j] = NoNote
      BY <1>2, <1>3, <1>4, TasksAssumption DEF LedgerPart, TablesOK
    <2> QED BY <1>2, <1>4, <2>1 DEF LedgerPart, TablesOK, Exists
  <1>8. EventsOK'
    BY <1>1, <1>2, <1>5, <1>6, GrownEvents DEF LedgerPart
  <1>9. NoDanglingReference'
    <2>1. \A j \in Notes : notes'[j] # NoNote => Exists(notes[j].task)'
      BY <1>2, <1>3, <1>4 DEF LedgerPart, NoDanglingReference, Exists
    <2>2. \A u \in Tasks : parent'[u] # None => Exists(u)' /\ Exists(parent[u])'
      BY <1>2 DEF LedgerPart, NoDanglingReference, Exists
    <2>3. \A e \in events' : Exists(e.task)'
      BY <1>2, <1>3, <1>6 DEF LedgerPart, NoDanglingReference, Exists, Grown
    <2> QED BY <2>1, <2>2, <2>3 DEF NoDanglingReference
  <1>10. HonoredHasEvent'
    <2>1. HonorsOf(i)' = HonorsOf(i) \cup {n}
      BY <1>6 DEF HonorsOf, Grown
    <2>2. \A j \in Notes : j # i => HonorsOf(j)' = HonorsOf(j)
      BY <1>6 DEF HonorsOf, Grown
    <2>3. LatestOf(HonorsOf(i)') = n
      BY <1>6, <2>1, GrownLatest DEF LedgerPart, HonorsOf
    <2>4. notes'[i].honoredAt # None
      BY <1>2, <1>4, NotesAssumption
    <2>5. ASSUME NEW j \in Notes
          PROVE  IF notes'[j].honoredAt = None THEN HonorsOf(j)' = {}
                 ELSE HonorsOf(j)' # {} /\ LatestOf(HonorsOf(j)').ts = notes'[j].honoredAt
      <3>1. CASE j = i
        BY <1>4, <1>6, <2>1, <2>3, <2>4, <3>1
      <3>2. CASE j # i
        BY <1>4, <2>2, <3>2 DEF LedgerPart, HonoredHasEvent, HonorsOf
      <3> QED BY <3>1, <3>2
    <2> QED BY <2>5 DEF HonoredHasEvent, HonorsOf, LatestOf
  <1>11. n.kind \notin Moves
    BY <1>6 DEF Moves, SettleKinds
  <1> QED BY <1>2, <1>6, <1>7, <1>8, <1>9, <1>10, <1>11, RemarkTold DEF LedgerPart

LEMMA LedgerPartKept ==
  ASSUME LedgerPart, DeskPart, CallersOK, [ViewsNext]_boardVars PROVE LedgerPart'
  <1> USE DEF LedgerPart
  <1>1. Writes
    BY StepWrites
  <1>2. CASE (\E t \in Tasks : Posted(t)) /\ UNCHANGED <<clock, events, eventSeq, proc, board>>
    BY <1>2, NewRowLedger DEF board
  <1>3. CASE (\E w \in Workers, t \in Tasks : ClaimTxn(w, t)) /\ UNCHANGED board
    BY <1>3, ClaimMoves, MovedLedger DEF board
  <1>4. CASE (\E w \in Workers, kind \in SettleKinds : SettleTxn(w, kind)) /\ UNCHANGED board
    BY <1>4, HandleSettles, MovedLedger
  <1>5. CASE (\E o \in Operators : CommandTxn(o)) /\ UNCHANGED board
    BY <1>5, CommandSettles, MovedLedger
  <1> QED BY <1>1, <1>2, <1>3, <1>4, <1>5, QuietLedger, ReplayLedger, PurgeLedger,
             InterveneLedger, HonorLedger, DiagnoseLedger DEF Writes

-----------------------------------------------------------------------------
(* The callers *)

LEMMA WorkersKept ==
  ASSUME TablesOK, CallersOK, Next PROVE proc' \in [Workers -> Proc] /\ HandleShape'
  <1> USE TasksAssumption DEF TablesOK, CallersOK, HandleShape
  <1>1. CASE Tick \/ Posting
    BY <1>1 DEF Tick, Posting, Post
  <1>2. ASSUME NEW w \in Workers, WorkerStep(w) PROVE proc' \in [Workers -> Proc] /\ HandleShape'
    <2>1. CASE ClaimCall(w)
      BY <2>1 DEF ClaimCall, Calling, Proc, SettleKinds
    <2>2. ASSUME NEW t \in Tasks, ClaimTxn(w, t)
          PROVE  proc' \in [Workers -> Proc] /\ HandleShape'
      BY <2>2 DEF ClaimTxn, Working, Proc, SettleKinds
    <2>3. CASE ClaimNone(w) \/ TxnError(w) \/ Crash(w)
      <3>1. CASE proc' = [proc EXCEPT ![w] = Idle]
        BY <3>1 DEF Idle, Proc, SettleKinds
      <3>2. CASE proc[w].pc \in SettleKinds /\ proc' = [proc EXCEPT ![w] = Working(proc[w].task)]
        BY <3>2 DEF Working, Proc, SettleKinds
      <3> QED BY <2>3, <3>1, <3>2 DEF ClaimNone, TxnError, Crash
    <2>4. ASSUME NEW kind \in SettleKinds, SettleCall(w, kind)
          PROVE  proc' \in [Workers -> Proc] /\ HandleShape'
      <3>1. Verdict(proc[w].task) \in {"queued", "failed"}
        BY DEF Verdict
      <3> QED BY <2>4, <3>1 DEF SettleCall, Calling, Proc, SettleKinds
    <2>5. ASSUME NEW kind \in SettleKinds, SettleTxn(w, kind)
          PROVE  proc' \in [Workers -> Proc] /\ HandleShape'
      BY <2>5 DEF SettleTxn, Idle, Proc, SettleKinds
    <2> QED BY <1>2, <2>1, <2>2, <2>3, <2>4, <2>5 DEF WorkerStep
  <1> QED BY <1>1, <1>2 DEF Next

LEMMA CommandsKept ==
  ASSUME TablesOK, CallersOK, NEW o \in Operators, OperatorStep(o) PROVE CallersOK'
  <1> USE DEF CallersOK, HandleShape
  <1>1. CASE CommandTxn(o) \/ CommandLost(o)
    BY <1>1 DEF CommandTxn, CommandLost, NoCommand
  <1>2. ASSUME NEW kind \in SettleKinds, NEW t \in Tasks, NEW a \in Agents,
               CommandCall(o, kind, t, a)
        PROVE  CallersOK'
    <2>1. Verdict(t) \in {"queued", "failed"}
      BY DEF Verdict
    <2> QED BY <1>2, <2>1 DEF CommandCall, TablesOK
  <1> QED BY <1>1, <1>2 DEF OperatorStep

LEMMA CallersKept ==
  ASSUME TablesOK, CallersOK, [ViewsNext]_boardVars PROVE CallersOK'
  <1>1. CASE UNCHANGED <<proc, cli>>
    BY <1>1 DEF CallersOK, HandleShape
  <1>2. CASE Next /\ UNCHANGED cli
    BY <1>2, WorkersKept DEF CallersOK
  <1>3. CASE \E o \in Operators : OperatorStep(o)
    BY <1>3, CommandsKept
  <1>4. CASE \E c \in Clerks : ClerkStep(c) \/ ReaderStep(c)
    <2>1. UNCHANGED <<proc, cli>>
      BY <1>4 DEF ClerkStep, ReaderStep, ReplayCall, ReplayTxn, InterveneCall, PurgeCall, PurgeTxn,
         InterveneTxn, HonorCall, HonorTxn, ClerkLost, Begin, PageCall, PageEvents, EntryCall,
         DossierBaseline, DiagnoseCall, DiagnoseTxn
    <2> QED BY <1>1, <2>1
  <1> QED BY <1>1, <1>2, <1>3, <1>4 DEF ViewsNext, BoardNext, QueueStep, CliNext, boardVars
-----------------------------------------------------------------------------
(* The desks *)

(* A call in progress finds the tables further on than it left them. *)
Onward ==
  /\ clock' \in Nat /\ clock' >= clock
  /\ purged \subseteq purged'
  /\ \A i \in Notes : notes[i] # NoNote => notes'[i] # NoNote
  /\ eventSeq' \in Nat /\ eventSeq' >= eventSeq
  /\ \A t \in Tasks :
       \/ t \in purged'
       \/ /\ History(t) \subseteq History(t)'
          /\ \A e \in History(t)' \ History(t) : e.id = eventSeq + 1

LEMMA GrownOnward ==
  ASSUME EventsOK, clock \in Nat, NEW n, Grown(n), UNCHANGED <<clock, purged>>,
         \A i \in Notes : notes[i] # NoNote => notes'[i] # NoNote
  PROVE  Onward
  <1>1. \A t \in Tasks : /\ History(t) \subseteq History(t)'
                         /\ \A e \in History(t)' \ History(t) : e.id = eventSeq + 1
    BY DEF History, Grown
  <1> QED BY <1>1 DEF Onward, Grown, EventsOK

LEMMA UnchangedOnward ==
  ASSUME EventsOK, clock \in Nat, clock' \in Nat, clock' >= clock,
         UNCHANGED <<events, eventSeq, purged>>,
         \A i \in Notes : notes[i] # NoNote => notes'[i] # NoNote
  PROVE  Onward
  BY DEF Onward, EventsOK, History

LEMMA MovesOnward ==
  ASSUME LedgerPart, NEW t, NEW n, Moved(t, n) PROVE Onward
  BY GrownOnward DEF Moved, LedgerPart, TablesOK

LEMMA TablesGoOnward ==
  ASSUME LedgerPart, DeskPart, CallersOK, [ViewsNext]_boardVars PROVE Onward
  <1> USE DEF LedgerPart
  <1>1. Writes /\ clock \in Nat
    BY StepWrites DEF TablesOK
  <1>2. CASE Quiet
    BY <1>1, <1>2, UnchangedOnward DEF Quiet
  <1>3. CASE (\E t \in Tasks : Posted(t)) /\ UNCHANGED <<clock, events, eventSeq, proc, board>>
    BY <1>1, <1>3, UnchangedOnward DEF board
  <1>4. CASE (\E w \in Workers, t \in Tasks : ClaimTxn(w, t)) /\ UNCHANGED board
    BY <1>4, ClaimMoves, MovesOnward DEF board
  <1>5. CASE (\E w \in Workers, kind \in SettleKinds : SettleTxn(w, kind)) /\ UNCHANGED board
    BY <1>5, HandleSettles, MovesOnward
  <1>6. CASE (\E o \in Operators : CommandTxn(o)) /\ UNCHANGED board
    BY <1>6, CommandSettles, MovesOnward
  <1>7. ASSUME NEW c \in Clerks, NEW t \in Tasks, ReplayTxn(c, t) PROVE Onward
    <2>1. PICK n : Grown(n) /\ UNCHANGED <<clock, purged, notes, noteSeq>>
      BY <1>7, ReplayPosts
    <2> QED BY <1>1, <2>1, GrownOnward
  <1>8. ASSUME NEW c \in Clerks, PurgeTxn(c) PROVE Onward
    <2>1. PICK ids : ids = desk[c].ids
      OBVIOUS
    <2>2. /\ events' = {e \in events : e.task \notin ids} /\ purged' = purged \cup ids
          /\ UNCHANGED <<clock, eventSeq, notes>>
      BY <1>8, <2>1 DEF PurgeTxn
    <2>3. \A t \in Tasks : t \in purged' \/ History(t)' = History(t)
      BY <2>2 DEF History
    <2> QED BY <1>1, <2>2, <2>3 DEF Onward, EventsOK
  <1>9. ASSUME NEW c \in Clerks, InterveneTxn(c) PROVE Onward
    <2>1. PICK i, t : i = noteSeq + 1 /\ t = desk[c].task
      OBVIOUS
    <2>2. /\ notes' = [notes EXCEPT ![i] = [task |-> t, honoredAt |-> None]]
          /\ UNCHANGED <<clock, purged, events, eventSeq>> /\ t \in Tasks
      BY <1>9, <2>1 DEF InterveneTxn, db, DeskPart, CallOK
    <2>3. \A j \in Notes : notes[j] # NoNote => notes'[j] # NoNote
      BY <2>2, TasksAssumption DEF NoNote, TablesOK
    <2> QED BY <1>1, <2>2, <2>3, UnchangedOnward
  <1>10. ASSUME NEW c \in Clerks, HonorTxn(c) PROVE Onward
    <2>1. PICK i, now : i = desk[c].note /\ now = desk[c].now
      OBVIOUS
    <2>2. /\ notes' = [notes EXCEPT ![i].honoredAt = now] /\ UNCHANGED <<clock, purged>>
          /\ i \in Notes /\ notes[i] # NoNote /\ now \in Nat
      BY <1>10, <2>1 DEF HonorTxn, DeskPart, CallOK
    <2>3. \A j \in Notes : notes[j] # NoNote => notes'[j] # NoNote
      BY <2>2, NotesAssumption DEF NoNote, TablesOK
    <2>4. PICK t : t = notes[i].task
      OBVIOUS
    <2>5. t \in Tasks
      BY <2>2, <2>4 DEF TablesOK
    <2>6. \E n : Grown(n)
      BY <1>10, <2>1, <2>4, <2>5, LogGrows DEF HonorTxn
    <2> QED BY <1>1, <2>2, <2>3, <2>6, GrownOnward
  <1>11. ASSUME NEW c \in Clerks, NEW a \in Agents, DiagnoseTxn(c, a) PROVE Onward
    <2>1. PICK t : t = desk[c].task
      OBVIOUS
    <2>2. t \in Tasks
      BY <1>11, <2>1 DEF DiagnoseTxn, DeskPart, CallOK
    <2>3. \E n : Grown(n)
      BY <1>11, <2>1, <2>2, LogGrows DEF DiagnoseTxn
    <2> QED BY <1>1, <1>11, <2>3, GrownOnward DEF DiagnoseTxn
  <1> QED BY <1>1, <1>2, <1>3, <1>4, <1>5, <1>6, <1>7, <1>8, <1>9, <1>10, <1>11 DEF Writes

LEMMA CallKept ==
  ASSUME EventsOK, clock \in Nat, Onward, NEW call, CallOK(call) PROVE CallOK(call)'
  <1>1. ASSUME NEW t, NEW first, InHand(t, first) PROVE InHand(t, first)'
    <2>1. CASE t \in purged'
      BY <1>1, <2>1 DEF InHand
    <2>2. CASE t \notin purged'
      <3>1. PICK old, new : old = History(t) /\ new = History(t)'
        OBVIOUS
      <3>2. /\ Explains(old, first.row) /\ old \subseteq new
            /\ \A e \in new \ old : e.id = eventSeq + 1
            /\ eventSeq \in Nat /\ eventSeq' \in Nat /\ eventSeq' >= eventSeq
        BY <1>1, <2>2, <3>1 DEF InHand, Onward, EventsOK
      <3>3. Explains(new, first.row)'
        BY <3>2, StillExplained
      <3> QED BY <1>1, <3>1, <3>3 DEF InHand
    <2> QED BY <2>1, <2>2
  <1>2. call.pc = "replay" => (call.now \in Nat /\ call.now <= clock => call.now <= clock')
    BY DEF Onward
  <1> QED BY <1>1, <1>2 DEF CallOK, Onward
LEMMA FreeOK == CallOK(Free) /\ CallFresh(Free)
  BY DEF CallOK, CallFresh, Free

(* What a call is when it begins, or is half done, as the tables are then *)
LEMMA NewCallOK ==
  ASSUME LedgerPart, DeskPart, NEW c \in Clerks, ClerkStep(c) \/ ReaderStep(c)
  PROVE  \E call : desk' = [desk EXCEPT ![c] = call] /\ CallOK(call)
  <1> USE DEF LedgerPart
  <1>1. CASE \/ \E t \in Tasks : ReplayTxn(c, t)
             \/ PurgeTxn(c) \/ InterveneTxn(c) \/ HonorTxn(c) \/ ClerkLost(c)
             \/ PageEvents(c) \/ \E a \in Agents : DiagnoseTxn(c, a)
    BY <1>1, FreeOK DEF ReplayTxn, PurgeTxn, InterveneTxn, HonorTxn, ClerkLost, PageEvents,
       DiagnoseTxn, Leave
  <1>2. ASSUME NEW t \in Tasks, ReplayCall(c, t)
        PROVE  \E call : desk' = [desk EXCEPT ![c] = call] /\ CallOK(call)
    <2> DEFINE call == [pc |-> "replay", task |-> t, row |-> tasks[t], now |-> clock]
    <2>1. tasks[t] \in Row /\ tasks[t].sig \in Signatures /\ clock \in Nat
          /\ tasks[t].createdAt <= clock
      BY <1>2 DEF ReplayCall, TablesOK, Exists
    <2>2. CallOK(call)
      BY <2>1 DEF CallOK
    <2> QED BY <1>2, <2>2 DEF ReplayCall, Begin
  <1>3. ASSUME NEW t \in Tasks, InterveneCall(c, t)
        PROVE  \E call : desk' = [desk EXCEPT ![c] = call] /\ CallOK(call)
    <2>1. CallOK([pc |-> "intervene", task |-> t])
      BY DEF CallOK
    <2> QED BY <1>3, <2>1 DEF InterveneCall, Begin
  <1>4. ASSUME NEW cutoff, PurgeCall(c, cutoff)
        PROVE  \E call : desk' = [desk EXCEPT ![c] = call] /\ CallOK(call)
    <2> DEFINE ids == {t \in Tasks : tasks[t].status = "failed" /\ tasks[t].createdAt < cutoff}
    <2>1. CallOK([pc |-> "purge", ids |-> ids])
      BY DEF CallOK
    <2> QED BY <1>4, <2>1 DEF PurgeCall, Begin
  <1>5. ASSUME NEW i \in Notes, NEW a, HonorCall(c, i, a)
        PROVE  \E call : desk' = [desk EXCEPT ![c] = call] /\ CallOK(call)
    <2>1. clock \in Nat /\ notes[i] # NoNote
      BY <1>5 DEF HonorCall, TablesOK
    <2>2. CallOK([pc |-> "honor", note |-> i, agent |-> a, now |-> clock])
      BY <2>1 DEF CallOK
    <2> QED BY <1>5, <2>2 DEF HonorCall, Begin
  <1>6. ASSUME NEW t \in Tasks, PageCall(c, t) \/ EntryCall(c, t)
        PROVE  \E call : desk' = [desk EXCEPT ![c] = call] /\ CallOK(call)
    <2>1. Told(t)
      BY <1>6 DEF PageCall, EntryCall, Exists
    <2>2. InHand(t, FirstRead(t))
      <3>1. PICK row : row = tasks[t]
        OBVIOUS
      <3>2. Explains(History(t), row)
        BY <2>1, <3>1, ReadIsExplained
      <3> QED BY <3>1, <3>2 DEF InHand, FirstRead
    <2>3. /\ CallOK([pc |-> "page", task |-> t, first |-> FirstRead(t)])
          /\ CallOK([pc |-> "entry", task |-> t, first |-> FirstRead(t)])
      BY <2>2 DEF CallOK
    <2> QED BY <1>6, <2>3 DEF PageCall, EntryCall, Begin
  <1>7. CASE DossierBaseline(c)
    <2>1. desk[c].pc = "entry" /\ desk[c].task \in Tasks
      BY <1>7 DEF DossierBaseline, DeskPart, CallOK, InHand
    <2>2. \A base, first :
            CallOK([pc |-> "dossier", task |-> desk[c].task, base |-> base, first |-> first])
      BY <2>1 DEF CallOK
    <2> QED BY <1>7, <2>2 DEF DossierBaseline
  <1>8. CASE DiagnoseCall(c)
    <2>1. desk[c].task \in Tasks
      BY <1>8 DEF DiagnoseCall, DeskPart, CallOK
    <2>2. CallOK([pc |-> "diagnose", task |-> desk[c].task, now |-> clock])
      BY <2>1 DEF CallOK
    <2> QED BY <1>8, <2>2 DEF DiagnoseCall
  <1> QED BY <1>1, <1>2, <1>3, <1>4, <1>5, <1>6, <1>7, <1>8 DEF ClerkStep, ReaderStep

LEMMA DeskKept ==
  ASSUME LedgerPart, DeskPart, CallersOK, [ViewsNext]_boardVars PROVE DeskPart'
  <1>1. Onward /\ EventsOK /\ clock \in Nat
    BY TablesGoOnward DEF LedgerPart, TablesOK
  <1>2. \A c \in Clerks : CallOK(desk[c])
    BY DEF DeskPart
  <1>3. \A call : CallOK(call) => CallOK(call)'
    BY <1>1, CallKept
  <1>4. CASE UNCHANGED desk
    <2>1. ASSUME NEW d \in Clerks PROVE CallOK(desk[d])'
      <3>1. PICK mine : mine = desk[d]
        OBVIOUS
      <3>2. CallOK(mine)'
        BY <1>2, <1>3, <3>1
      <3> QED BY <1>4, <3>1, <3>2 DEF CallOK
    <2> QED BY <1>4, <2>1 DEF DeskPart
  <1>5. ASSUME NEW c \in Clerks, ClerkStep(c) \/ ReaderStep(c) PROVE DeskPart'
    <2>1. PICK call : desk' = [desk EXCEPT ![c] = call] /\ CallOK(call)
      BY <1>5, NewCallOK
    <2>2. \A d \in Clerks : desk'[d] = IF d = c THEN call ELSE desk[d]
      BY <2>1 DEF DeskPart
    <2>3. desk' = [d \in Clerks |-> desk'[d]]
      BY <2>1 DEF DeskPart
    <2>4. ASSUME NEW d \in Clerks PROVE CallOK(desk[d])'
      <3>1. PICK mine : mine = desk'[d]
        OBVIOUS
      <3>2. CallOK(mine)
        BY <1>2, <2>1, <2>2, <3>1
      <3>3. CallOK(mine)'
        BY <1>3, <3>2
      <3> QED BY <3>1, <3>3 DEF CallOK
    <2> QED BY <2>3, <2>4 DEF DeskPart
  <1> QED BY <1>4, <1>5 DEF ViewsNext, BoardNext, QueueStep, board, boardVars
-----------------------------------------------------------------------------
(* Without command lines: the rows that move are new ones, queued ones     *)
(* that are claimed, held ones that are settled, and purged ones.          *)

LEMMA HandleFate ==
  ASSUME CallersOK, [ViewsNext]_boardVars, Operators = {},
         NEW v \in Workers, NEW t \in Tasks, Holds(v, t)'
  PROVE  \/ Holds(v, t) /\ \A kind \in SettleKinds : ~SettleTxn(v, kind)
         \/ ClaimTxn(v, t)
  <1> USE TasksAssumption DEF Holds, CallersOK
  <1>1. ASSUME NEW kind \in SettleKinds PROVE ~SettleTxn(v, kind)
    BY DEF SettleTxn, Idle
  <1>2. CASE UNCHANGED proc
    BY <1>1, <1>2
  <1>3. ASSUME NEW w \in Workers, WorkerStep(w) PROVE Holds(v, t) \/ ClaimTxn(v, t)
    <2>1. CASE v = w
      BY <1>3, <2>1 DEF WorkerStep, ClaimCall, ClaimTxn, ClaimNone, SettleCall, SettleTxn,
         Calling, TxnError, Crash, Idle, Working
    <2>2. CASE v # w
      <3>1. \E p : proc' = [proc EXCEPT ![w] = p]
        BY <1>3 DEF WorkerStep, ClaimCall, ClaimTxn, ClaimNone, SettleCall, SettleTxn,
           Calling, TxnError, Crash
      <3> QED BY <2>2, <3>1
    <2> QED BY <2>1, <2>2
  <1>4. CASE Tick \/ Posting
    BY <1>2, <1>4 DEF Tick, Posting, Post
  <1>5. CASE \E c \in Clerks : ClerkStep(c) \/ ReaderStep(c)
    <2>1. UNCHANGED proc
      BY <1>5 DEF ClerkStep, ReaderStep, ReplayCall, ReplayTxn, InterveneCall, PurgeCall, PurgeTxn,
         InterveneTxn, HonorCall, HonorTxn, ClerkLost, Begin, PageCall, PageEvents, EntryCall,
         DossierBaseline, DiagnoseCall, DiagnoseTxn
    <2> QED BY <1>2, <2>1
  <1> QED BY <1>1, <1>2, <1>3, <1>4, <1>5
          DEF ViewsNext, BoardNext, QueueStep, CliNext, Next, boardVars

LEMMA RowFate ==
  ASSUME LedgerPart, DeskPart, CallersOK, Undisturbed, Operators = {},
         [ViewsNext]_boardVars, NEW t \in Tasks
  PROVE  \/ tasks'[t] = tasks[t]
         \/ ~Exists(t)
         \/ \E w \in Workers : ClaimTxn(w, t)
         \/ \E w \in Workers, kind \in SettleKinds : Holds(w, t) /\ SettleTxn(w, kind)
         \/ tasks[t].status = "failed" /\ t \in purged'
  <1>1. Writes
    BY StepWrites DEF LedgerPart
  <1>2. CASE \E u \in Tasks : Posted(u)
    BY <1>2 DEF Posted, SameBut
  <1>3. ASSUME NEW w \in Workers, NEW u \in Tasks, ClaimTxn(w, u), u # t
        PROVE  tasks'[t] = tasks[t]
    BY <1>3 DEF ClaimTxn, LedgerPart, TablesOK
  <1>4. ASSUME NEW w \in Workers, NEW kind \in SettleKinds, SettleTxn(w, kind), ~Holds(w, t)
        PROVE  tasks'[t] = tasks[t]
    BY <1>4 DEF SettleTxn, Settle, Holds, LedgerPart, TablesOK
  <1>5. CASE \E c \in Clerks, u \in Tasks : ReplayTxn(c, u)
    BY <1>5 DEF ReplayTxn, LedgerPart, TablesOK
  <1>6. ASSUME NEW c \in Clerks, PurgeTxn(c)
        PROVE  \/ tasks'[t] = tasks[t] \/ ~Exists(t)
               \/ tasks[t].status = "failed" /\ t \in purged'
    <2>1. PICK ids : ids = desk[c].ids
      OBVIOUS
    <2>2. /\ desk[c].pc = "purge" /\ purged' = purged \cup ids
          /\ tasks' = [u \in Tasks |-> IF u \in ids THEN NoRow ELSE tasks[u]]
      BY <1>6, <2>1 DEF PurgeTxn
    <2>3. t \in ids => t \in purged \/ tasks[t].status = "failed"
      BY <2>1, <2>2 DEF Undisturbed, CallFresh
    <2>4. t \in purged => ~Exists(t)
      BY DEF LedgerPart, TablesOK
    <2> QED BY <2>2, <2>3, <2>4
  <1>7. CASE \/ Quiet \/ \E c \in Clerks : InterveneTxn(c) \/ HonorTxn(c)
             \/ \E c \in Clerks, a \in Agents : DiagnoseTxn(c, a)
    BY <1>7 DEF Quiet, InterveneTxn, HonorTxn, DiagnoseTxn, db
  <1> QED BY <1>1, <1>2, <1>3, <1>4, <1>5, <1>6, <1>7 DEF Writes

(* What a closed row turns into, and the fields nobody writes *)
LEMMA ClosedStays ==
  ASSUME LedgerPart, DeskPart, CallersOK, Undisturbed, Operators = {},
         [ViewsNext]_boardVars, NEW t \in Tasks
  PROVE  /\ tasks[t].status = "done" => tasks'[t] = tasks[t]
         /\ tasks[t].status = "failed" => tasks'[t] = tasks[t] \/ t \in purged'
  BY RowFate DEF ClaimTxn, First, Eligible, Undisturbed, ExclusiveClaims, Exists

LEMMA FieldsStay ==
  ASSUME LedgerPart, DeskPart, CallersOK, Undisturbed, Operators = {},
         [ViewsNext]_boardVars, NEW t \in Tasks, Exists(t), t \notin purged'
  PROVE  /\ Exists(t)'
         /\ tasks'[t].type = tasks[t].type /\ tasks'[t].sig = tasks[t].sig
         /\ tasks'[t].priority = tasks[t].priority
         /\ tasks'[t].maxAttempts = tasks[t].maxAttempts
         /\ tasks'[t].createdAt = tasks[t].createdAt
  <1>1. CASE tasks'[t] = tasks[t]
    BY <1>1 DEF Exists
  <1>2. ASSUME NEW w \in Workers, ClaimTxn(w, t)
        PROVE  tasks'[t] = Claimed(tasks[t], AgentOf[w], proc[w].now)
    BY <1>2 DEF ClaimTxn, LedgerPart, TablesOK
  <1>3. ASSUME NEW w \in Workers, NEW kind \in SettleKinds, Holds(w, t), SettleTxn(w, kind)
        PROVE  \E now, verdict : tasks'[t] = Settled(tasks[t], kind, now, verdict)
    BY <1>3 DEF SettleTxn, Settle, Holds, LedgerPart, TablesOK
  <1>4. tasks[t] \in Row
    BY DEF LedgerPart, TablesOK
  <1>5. \A a, now : /\ Claimed(tasks[t], a, now).status # "absent"
                    /\ Claimed(tasks[t], a, now).type = tasks[t].type
                    /\ Claimed(tasks[t], a, now).sig = tasks[t].sig
                    /\ Claimed(tasks[t], a, now).priority = tasks[t].priority
                    /\ Claimed(tasks[t], a, now).maxAttempts = tasks[t].maxAttempts
                    /\ Claimed(tasks[t], a, now).createdAt = tasks[t].createdAt
    BY <1>4 DEF Claimed, Row
  <1>6. \A kind \in SettleKinds : \A now, verdict :
          /\ Settled(tasks[t], kind, now, verdict).status # "absent"
          /\ Settled(tasks[t], kind, now, verdict).type = tasks[t].type
          /\ Settled(tasks[t], kind, now, verdict).sig = tasks[t].sig
          /\ Settled(tasks[t], kind, now, verdict).priority = tasks[t].priority
          /\ Settled(tasks[t], kind, now, verdict).maxAttempts = tasks[t].maxAttempts
          /\ Settled(tasks[t], kind, now, verdict).createdAt = tasks[t].createdAt
    BY <1>4 DEF Settled, Requeued, Row
  <1> QED BY <1>1, <1>2, <1>3, <1>5, <1>6, RowFate DEF Exists

LEMMA ExclusiveKept ==
  ASSUME LedgerPart, DeskPart, CallersOK, Undisturbed, Operators = {}, [ViewsNext]_boardVars
  PROVE  ExclusiveClaims'
  <1>0. ExclusiveClaims
    BY DEF Undisturbed
  <1>1. ASSUME NEW v \in Workers, NEW t \in Tasks, Holds(v, t)', ~ClaimTxn(v, t)
        PROVE  Holds(v, t) /\ tasks'[t] = tasks[t]
    <2>1. Holds(v, t) /\ \A kind \in SettleKinds : ~SettleTxn(v, kind)
      BY <1>1, HandleFate
    <2>2. tasks[t].status = "claimed" /\ \A w \in Workers : Holds(w, t) => w = v
      BY <1>0, <2>1 DEF ExclusiveClaims
    <2> QED BY <2>1, <2>2, RowFate DEF Exists, ClaimTxn, First, Eligible
  <1>2. ASSUME NEW v \in Workers, NEW t \in Tasks, ClaimTxn(v, t)
        PROVE  /\ tasks'[t].status = "claimed" /\ tasks'[t].claimedBy = AgentOf[v]
               /\ \A w \in Workers : ~Holds(w, t)
               /\ \A w \in Workers : Holds(w, t)' => w = v
    <2>1. /\ tasks[t] \in Row /\ AgentOf[v] \in Agents /\ proc[v].now \in Nat
          /\ tasks'[t] = Claimed(tasks[t], AgentOf[v], proc[v].now)
          /\ tasks[t].status = "queued" /\ proc' = [proc EXCEPT ![v] = Working(t)]
      BY <1>2, AgentsAssumption
         DEF ClaimTxn, First, Eligible, LedgerPart, TablesOK, CallersOK, Proc
    <2>2. \A w \in Workers : ~Holds(w, t)
      BY <1>0, <2>1 DEF ExclusiveClaims
    <2>3. \A w \in Workers : Holds(w, t)' => w = v
      BY <2>1, <2>2 DEF Holds, CallersOK
    <2> QED BY <2>1, <2>2, <2>3, ClaimedRow
  <1>3. ASSUME NEW v \in Workers, NEW t \in Tasks, Holds(v, t)'
        PROVE  /\ tasks'[t].status = "claimed" /\ tasks'[t].claimedBy = AgentOf[v]
               /\ \A w \in Workers : Holds(w, t)' => w = v
    <2>1. CASE ClaimTxn(v, t)
      BY <1>2, <2>1
    <2>2. CASE ~ClaimTxn(v, t)
      <3>1. Holds(v, t) /\ tasks'[t] = tasks[t]
        BY <1>1, <1>3, <2>2
      <3>2. \A w \in Workers : Holds(w, t)' => Holds(w, t)
        BY <1>1, <1>2, <3>1
      <3> QED BY <1>0, <3>1, <3>2 DEF ExclusiveClaims
    <2> QED BY <2>1, <2>2
  <1> QED BY <1>3 DEF ExclusiveClaims
-----------------------------------------------------------------------------
(* What a call read that is still so when it goes on *)

LEMMA FreshKept ==
  ASSUME LedgerPart, DeskPart, CallersOK, Undisturbed, Operators = {},
         [ViewsNext]_boardVars, NEW call, CallOK(call), CallFresh(call)
  PROVE  CallFresh(call)'
  <1>1. purged \subseteq purged'
    BY TablesGoOnward DEF Onward
  <1>2. ASSUME NEW t \in Tasks, NEW row, StillFailed(t, row) PROVE StillFailed(t, row)'
    BY <1>1, <1>2, ClosedStays DEF StillFailed
  <1>3. call.pc = "replay" => StillFailed(call.task, call.row)'
    BY <1>2 DEF CallOK, CallFresh
  <1>4. call.pc = "entry" => StillFailed(call.task, call.first.row)'
    BY <1>2 DEF CallOK, CallFresh, InHand
  <1>5. call.pc = "purge" => \A t \in call.ids : t \in purged' \/ tasks'[t].status = "failed"
    <2>1. ASSUME call.pc = "purge", NEW t \in call.ids
          PROVE  t \in purged' \/ tasks'[t].status = "failed"
      BY <1>1, <2>1, ClosedStays DEF CallOK, CallFresh
    <2> QED BY <2>1
  <1>6. ASSUME call.pc = "dossier", call.base # None
        PROVE  /\ call.base \in Tasks /\ call.base # call.task
               /\ tasks'[call.base].status = "done" /\ call.first = [row |-> tasks'[call.base]]
               /\ \/ call.task \in purged'
                  \/ /\ call.task \in Tasks /\ Exists(call.task)'
                     /\ tasks'[call.task].sig = tasks'[call.base].sig
    <2>1. PICK t, base : t = call.task /\ base = call.base
      OBVIOUS
    <2>2. /\ base \in Tasks /\ base # t /\ tasks[base].status = "done"
          /\ call.first = [row |-> tasks[base]]
          /\ t \in purged \/ (t \in Tasks /\ Exists(t) /\ tasks[t].sig = tasks[base].sig)
      BY <1>6, <2>1 DEF CallFresh
    <2>3. tasks'[base] = tasks[base]
      BY <2>2, ClosedStays
    <2>4. t \in purged' \/ (t \in Tasks /\ Exists(t)' /\ tasks'[t].sig = tasks'[base].sig)
      BY <1>1, <2>2, <2>3, FieldsStay
    <2> QED BY <2>1, <2>2, <2>3, <2>4
  <1> QED BY <1>3, <1>4, <1>5, <1>6 DEF CallFresh

LEMMA NewCallFresh ==
  ASSUME LedgerPart, DeskPart, Undisturbed, NEW c \in Clerks, ClerkStep(c) \/ ReaderStep(c)
  PROVE  \E call : desk' = [desk EXCEPT ![c] = call] /\ CallOK(call) /\ CallFresh(call)
  <1>0. PICK call : desk' = [desk EXCEPT ![c] = call] /\ CallOK(call)
    BY NewCallOK
  <1> SUFFICES CallFresh(call)
    BY <1>0
  <1>1. desk'[c] = call
    BY <1>0 DEF DeskPart
  <1>2. CASE \/ \E t \in Tasks : ReplayTxn(c, t)
             \/ PurgeTxn(c) \/ InterveneTxn(c) \/ HonorTxn(c) \/ ClerkLost(c)
             \/ PageEvents(c) \/ \E a \in Agents : DiagnoseTxn(c, a)
    <2>1. desk' = [desk EXCEPT ![c] = Free]
      BY <1>2 DEF ReplayTxn, PurgeTxn, InterveneTxn, HonorTxn, ClerkLost, PageEvents,
         DiagnoseTxn, Leave
    <2>2. call = Free
      BY <1>1, <2>1 DEF DeskPart
    <2> QED BY <2>2, FreeOK
  <1>3. ASSUME NEW t \in Tasks, ReplayCall(c, t) PROVE CallFresh(call)
    <2>1. call = [pc |-> "replay", task |-> t, row |-> tasks[t], now |-> clock]
      BY <1>1, <1>3 DEF ReplayCall, Begin, DeskPart
    <2>2. tasks[t].status = "failed"
      BY <1>3 DEF ReplayCall
    <2> QED BY <2>1, <2>2 DEF CallFresh, StillFailed
  <1>4. ASSUME NEW cutoff, PurgeCall(c, cutoff) PROVE CallFresh(call)
    <2> DEFINE ids == {t \in Tasks : tasks[t].status = "failed" /\ tasks[t].createdAt < cutoff}
    <2>1. call = [pc |-> "purge", ids |-> ids]
      BY <1>1, <1>4 DEF PurgeCall, Begin, DeskPart
    <2> QED BY <2>1 DEF CallFresh
  <1>5. ASSUME NEW t \in Tasks, InterveneCall(c, t) \/ PageCall(c, t) PROVE CallFresh(call)
    <2>1. call.pc \in {"intervene", "page"}
      BY <1>1, <1>5 DEF InterveneCall, PageCall, Begin, DeskPart
    <2> QED BY <2>1 DEF CallFresh
  <1>6. ASSUME NEW i \in Notes, NEW a, HonorCall(c, i, a) PROVE CallFresh(call)
    <2>1. call.pc = "honor"
      BY <1>1, <1>6 DEF HonorCall, Begin, DeskPart
    <2> QED BY <2>1 DEF CallFresh
  <1>7. ASSUME NEW t \in Tasks, EntryCall(c, t) PROVE CallFresh(call)
    <2>1. call = [pc |-> "entry", task |-> t, first |-> FirstRead(t)]
      BY <1>1, <1>7 DEF EntryCall, Begin, DeskPart
    <2>2. tasks[t].status = "failed" /\ FirstRead(t) = [row |-> tasks[t]]
      BY <1>7 DEF EntryCall, FirstRead
    <2> QED BY <2>1, <2>2 DEF CallFresh, StillFailed
  <1>8. CASE DossierBaseline(c)
    <2>1. PICK t, row : t = desk[c].task /\ row = desk[c].first.row
      OBVIOUS
    <2>2. t \in Tasks /\ StillFailed(t, row)
      BY <1>8, <2>1 DEF DossierBaseline, DeskPart, CallOK, InHand, Undisturbed, CallFresh
    <2>3. PICK base \in IF Similar(row.sig, t) = {} THEN {None} ELSE Latest(Similar(row.sig, t)) :
            call = [pc |-> "dossier", task |-> t, base |-> base,
                    first |-> IF base = None THEN None ELSE FirstRead(base)]
      BY <1>1, <1>8, <2>1 DEF DossierBaseline, DeskPart
    <2>4. CASE base = None
      BY <2>3, <2>4 DEF CallFresh
    <2>5. CASE base # None
      <3>1. base \in Tasks /\ base # t /\ tasks[base].status = "done" /\ tasks[base].sig = row.sig
        BY <2>3, <2>5 DEF Latest, Similar
      <3>2. t \in purged \/ (Exists(t) /\ tasks[t].sig = row.sig)
        BY <2>2 DEF StillFailed, Exists
      <3>3. /\ call.pc = "dossier" /\ call.task = t /\ call.base = base
            /\ call.first = [row |-> tasks[base]]
        BY <2>3, <2>5 DEF FirstRead
      <3> QED BY <2>2, <3>1, <3>2, <3>3 DEF CallFresh
    <2> QED BY <2>4, <2>5
  <1>9. CASE DiagnoseCall(c)
    <2>1. call.pc = "diagnose"
      BY <1>1, <1>9 DEF DiagnoseCall, DeskPart
    <2> QED BY <2>1 DEF CallFresh
  <1> QED BY <1>2, <1>3, <1>4, <1>5, <1>6, <1>7, <1>8, <1>9 DEF ClerkStep, ReaderStep

LEMMA DesksStayFresh ==
  ASSUME LedgerPart, DeskPart, CallersOK, Undisturbed, Operators = {}, [ViewsNext]_boardVars
  PROVE  \A d \in Clerks : CallFresh(desk[d])'
  <1>1. \A d \in Clerks : CallOK(desk[d]) /\ CallFresh(desk[d])
    BY DEF DeskPart, Undisturbed
  <1>2. \A call : CallOK(call) /\ CallFresh(call) => CallFresh(call)'
    BY FreshKept
  <1>3. ASSUME NEW d \in Clerks, CallOK(desk'[d]) /\ CallFresh(desk'[d])
        PROVE  CallFresh(desk[d])'
    <2>1. PICK mine : mine = desk'[d]
      OBVIOUS
    <2>2. CallFresh(mine)'
      BY <1>2, <1>3, <2>1
    <2> QED BY <2>1, <2>2 DEF CallFresh
  <1>4. CASE UNCHANGED desk
    BY <1>1, <1>3, <1>4
  <1>5. ASSUME NEW c \in Clerks, ClerkStep(c) \/ ReaderStep(c), NEW d \in Clerks
        PROVE  CallOK(desk'[d]) /\ CallFresh(desk'[d])
    <2>1. PICK call : desk' = [desk EXCEPT ![c] = call] /\ CallOK(call) /\ CallFresh(call)
      BY <1>5, NewCallFresh
    <2>2. desk'[d] = IF d = c THEN call ELSE desk[d]
      BY <2>1 DEF DeskPart
    <2> QED BY <1>1, <2>1, <2>2
  <1> QED BY <1>3, <1>4, <1>5 DEF ViewsNext, BoardNext, QueueStep, board, boardVars
-----------------------------------------------------------------------------
(* The provenance of one task *)

Traced(t) ==
  IF parent[t] = None
    THEN ReplaysOf(t) = {}
    ELSE /\ Cardinality(ReplaysOf(t)) = 1
         /\ \A r \in ReplaysOf(t), e \in History(t) : r.id <= e.id
         /\ tasks[parent[t]].status = "failed"
         /\ tasks[parent[t]].createdAt <= tasks[t].createdAt
         /\ tasks[parent[t]].type = tasks[t].type /\ tasks[parent[t]].sig = tasks[t].sig
         /\ tasks[parent[t]].priority = tasks[t].priority
         /\ tasks[parent[t]].maxAttempts = tasks[t].maxAttempts

LEMMA AllTraced ==
  /\ ReplayProvenance <=> \A t \in Tasks : Traced(t)
  /\ ReplayProvenance' <=> \A t \in Tasks : Traced(t)'
  BY DEF ReplayProvenance, Traced, ReplaysOf

(* The rows of a task and its parent stay what they are to each other. *)
LEMMA TracedKept ==
  ASSUME LedgerPart, DeskPart, CallersOK, Undisturbed, Operators = {},
         [ViewsNext]_boardVars, NEW t \in Tasks, parent'[t] = parent[t], t \notin purged',
         ReplaysOf(t)' = ReplaysOf(t),
         \A e \in History(t)' : e \in History(t) \/ e.id = eventSeq + 1
  PROVE  Traced(t)'
  <1>1. Traced(t)
    BY AllTraced DEF Undisturbed
  <1>2. CASE parent[t] = None
    BY <1>1, <1>2 DEF Traced
  <1>3. CASE parent[t] # None
    <2>1. PICK p : p = parent[t] /\ p = parent'[t]
      OBVIOUS
    <2>2. p \in Tasks /\ Exists(t) /\ Exists(p)
      BY <1>3, <2>1 DEF LedgerPart, TablesOK, NoDanglingReference
    <2>3. p \notin purged'
      <3>1. LedgerPart'
        BY LedgerPartKept
      <3>2. Exists(parent[t])' /\ \A u \in purged' : ~Exists(u)'
        BY <1>3, <2>1, <3>1 DEF LedgerPart, TablesOK, NoDanglingReference
      <3> QED BY <2>1, <3>2 DEF Exists
    <2>4. tasks'[p] = tasks[p]
      BY <1>1, <1>3, <2>1, <2>2, <2>3, ClosedStays DEF Traced
    <2>5. /\ tasks'[t].type = tasks[t].type /\ tasks'[t].sig = tasks[t].sig
          /\ tasks'[t].priority = tasks[t].priority
          /\ tasks'[t].maxAttempts = tasks[t].maxAttempts
          /\ tasks'[t].createdAt = tasks[t].createdAt
      BY <2>2, FieldsStay
    <2>6. \A r \in ReplaysOf(t)', e \in History(t)' : r.id <= e.id
      <3>1. \A r \in ReplaysOf(t) : r.id \in Nat /\ r.id <= eventSeq
        BY DEF ReplaysOf, History, LedgerPart, EventsOK
      <3>2. \A r \in ReplaysOf(t), e \in History(t) : r.id <= e.id
        BY <1>1, <1>3 DEF Traced
      <3>3. eventSeq \in Nat
        BY DEF LedgerPart, EventsOK
      <3> QED BY <3>1, <3>2, <3>3
    <2>7. Cardinality(ReplaysOf(t)') = 1
      BY <1>1, <1>3 DEF Traced
    <2>8. /\ tasks[p].status = "failed" /\ tasks[p].createdAt <= tasks[t].createdAt
          /\ tasks[p].type = tasks[t].type /\ tasks[p].sig = tasks[t].sig
          /\ tasks[p].priority = tasks[t].priority /\ tasks[p].maxAttempts = tasks[t].maxAttempts
      BY <1>1, <1>3, <2>1 DEF Traced
    <2> QED BY <1>3, <2>1, <2>4, <2>5, <2>6, <2>7, <2>8 DEF Traced
  <1> QED BY <1>2, <1>3

(* The replay that makes a new task *)
LEMMA ReplayTraced ==
  ASSUME LedgerPart, DeskPart, Undisturbed, NEW c \in Clerks, NEW t \in Tasks, ReplayTxn(c, t)
  PROVE  Traced(t)'
  <1>1. PICK src, row, n :
           /\ src \in Tasks /\ row \in Row
           /\ Posted(t)
           /\ src = desk[c].task /\ row = desk[c].row /\ Exists(src)
           /\ parent' = [parent EXCEPT ![t] = src]
           /\ Grown(n) /\ n.task = t /\ n.kind = "replay"
           /\ tasks'[t].type = row.type /\ tasks'[t].sig = row.sig
           /\ tasks'[t].priority = row.priority /\ tasks'[t].maxAttempts = row.maxAttempts
           /\ tasks'[t].createdAt >= row.createdAt
    BY ReplayPosts
  <1>2. tasks[src] = row /\ row.status = "failed"
    <2>1. StillFailed(src, row)
      BY <1>1 DEF Undisturbed, CallFresh, ReplayTxn
    <2>2. src \notin purged
      BY <1>1 DEF LedgerPart, TablesOK
    <2> QED BY <2>1, <2>2 DEF StillFailed
  <1>3. src # t /\ tasks'[src] = row
    BY <1>1, <1>2 DEF Posted, SameBut
  <1>4. History(t)' = {n} /\ ReplaysOf(t)' = {n}
    BY <1>1, GrownHistory, NoRowNoHistory DEF Posted, LedgerPart
  <1>5. parent'[t] = src /\ src # None
    BY <1>1, TasksAssumption DEF LedgerPart, TablesOK
  <1>6. Cardinality(ReplaysOf(t)') = 1
    BY <1>4, FS_Singleton
  <1>7. \A r \in ReplaysOf(t)', e \in History(t)' : r.id <= e.id
    <2>1. n.id \in Nat
      BY <1>1 DEF Grown, LedgerPart, EventsOK
    <2> QED BY <1>4, <2>1
  <1>8. row.createdAt \in Nat /\ tasks'[t].createdAt \in Nat
    BY <1>1 DEF Posted, SameBut, Row
  <1> QED BY <1>1, <1>2, <1>3, <1>5, <1>6, <1>7, <1>8 DEF Traced

(* A purge takes the parents of nobody who stays. *)
LEMMA PurgeTraced ==
  ASSUME LedgerPart, DeskPart, CallersOK, Undisturbed, Operators = {}, [ViewsNext]_boardVars,
         NEW c \in Clerks, PurgeTxn(c), NEW t \in Tasks
  PROVE  Traced(t)'
  <1>1. PICK ids : ids = desk[c].ids
    OBVIOUS
  <1>2. /\ events' = {e \in events : e.task \notin ids}
        /\ parent' = [u \in Tasks |-> IF u \in ids THEN None ELSE parent[u]]
        /\ purged' = purged \cup ids
    BY <1>1 DEF PurgeTxn
  <1>3. CASE t \in ids
    BY <1>2, <1>3 DEF Traced, ReplaysOf, History
  <1>4. CASE t \notin ids /\ t \in purged
    <2>1. parent'[t] = None /\ ReplaysOf(t) = {}
      BY <1>2, <1>4, NoRowNoHistory DEF LedgerPart, TablesOK, NoDanglingReference
    <2>2. ReplaysOf(t)' = {}
      BY <1>2, <2>1 DEF ReplaysOf, History
    <2> QED BY <2>1, <2>2 DEF Traced
  <1>5. CASE t \notin ids /\ t \notin purged
    <2>1. parent'[t] = parent[t] /\ History(t)' = History(t) /\ t \notin purged'
      BY <1>2, <1>5 DEF History
    <2> QED BY <2>1, TracedKept DEF ReplaysOf
  <1> QED BY <1>3, <1>4, <1>5

LEMMA ProvenanceKept ==
  ASSUME LedgerPart, DeskPart, CallersOK, Undisturbed, Operators = {}, [ViewsNext]_boardVars
  PROVE  ReplayProvenance'
  <1>1. Writes /\ LedgerPart'
    BY StepWrites, LedgerPartKept DEF LedgerPart
  <1>2. ASSUME NEW t \in Tasks, UNCHANGED <<parent, events>> PROVE Traced(t)'
    <2>1. History(t)' = History(t) /\ ReplaysOf(t)' = ReplaysOf(t) /\ parent'[t] = parent[t]
      BY <1>2 DEF History, ReplaysOf
    <2>2. CASE t \in purged'
      <3>1. ~Exists(t)'
        BY <1>1, <2>2 DEF LedgerPart, TablesOK
      <3>2. parent'[t] = None /\ ReplaysOf(t)' = {}
        BY <1>1, <3>1 DEF LedgerPart, NoDanglingReference, ReplaysOf, History
      <3> QED BY <3>2 DEF Traced
    <2> QED BY <2>1, <2>2, TracedKept
  <1>3. ASSUME NEW t \in Tasks, NEW n, Grown(n), parent'[t] = parent[t],
               t # n.task \/ n.kind # "replay"
        PROVE  Traced(t)'
    <2>1. /\ ReplaysOf(t)' = ReplaysOf(t)
          /\ \A e \in History(t)' : e \in History(t) \/ e.id = eventSeq + 1
      BY <1>3, GrownHistory DEF LedgerPart, Grown
    <2>2. CASE t \in purged'
      <3>1. ~Exists(t)'
        BY <1>1, <2>2 DEF LedgerPart, TablesOK
      <3>2. parent'[t] = None /\ ReplaysOf(t)' = {}
        BY <1>1, <3>1 DEF LedgerPart, NoDanglingReference, ReplaysOf, History
      <3> QED BY <3>2 DEF Traced
    <2> QED BY <1>3, <2>1, <2>2, TracedKept
  <1>4. CASE Quiet \/ \E c \in Clerks : InterveneTxn(c)
    <2>1. UNCHANGED <<parent, events>>
      BY <1>4 DEF Quiet, InterveneTxn, db
    <2> QED BY <1>2, <2>1, AllTraced
  <1>5. CASE (\E t \in Tasks : Posted(t)) /\ UNCHANGED <<clock, events, eventSeq, proc, board>>
    BY <1>2, <1>5, AllTraced DEF board
  <1>6. ASSUME NEW u \in Tasks, NEW n, Moved(u, n) PROVE ReplayProvenance'
    <2>1. n.kind # "replay" /\ Grown(n) /\ parent' = parent
      BY <1>6 DEF Moved, Moves, SettleKinds
    <2> QED BY <1>3, <2>1, AllTraced
  <1>7. CASE (\E w \in Workers, t \in Tasks : ClaimTxn(w, t)) /\ UNCHANGED board
    BY <1>6, <1>7, ClaimMoves DEF LedgerPart, board
  <1>8. CASE (\E w \in Workers, kind \in SettleKinds : SettleTxn(w, kind)) /\ UNCHANGED board
    BY <1>6, <1>8, HandleSettles DEF LedgerPart
  <1>9. ASSUME NEW c \in Clerks, NEW u \in Tasks, ReplayTxn(c, u) PROVE ReplayProvenance'
    <2>1. PICK src, n : /\ parent' = [parent EXCEPT ![u] = src]
                        /\ Grown(n) /\ n.task = u /\ n.kind = "replay"
      BY <1>9, ReplayPosts
    <2>2. \A t \in Tasks : t # u => parent'[t] = parent[t]
      BY <2>1 DEF LedgerPart, TablesOK
    <2>3. \A t \in Tasks : t # u => Traced(t)'
      BY <1>3, <2>1, <2>2
    <2> QED BY <1>9, <2>3, ReplayTraced, AllTraced
  <1>10. ASSUME NEW c \in Clerks, HonorTxn(c) PROVE ReplayProvenance'
    <2>1. PICK i, t, now, a : /\ i = desk[c].note /\ t = notes[i].task /\ now = desk[c].now
                              /\ a = desk[c].agent
      OBVIOUS
    <2>2. Log(t, "intervene", now, a, i) /\ parent' = parent
      BY <1>10, <2>1 DEF HonorTxn
    <2>3. t \in Tasks
      BY <1>10, <2>1, NotesAssumption, TasksAssumption
         DEF HonorTxn, DeskPart, CallOK, LedgerPart, TablesOK
    <2>4. PICK n : Grown(n) /\ n.kind = "intervene"
      BY <2>2, <2>3, LogGrows DEF LedgerPart
    <2> QED BY <1>3, <2>2, <2>4, AllTraced
  <1>11. ASSUME NEW c \in Clerks, NEW a \in Agents, DiagnoseTxn(c, a) PROVE ReplayProvenance'
    <2>1. PICK t, now : t = desk[c].task /\ now = desk[c].now
      OBVIOUS
    <2>2. Log(t, "diagnose", now, a, None) /\ parent' = parent /\ t \in Tasks
      BY <1>11, <2>1 DEF DiagnoseTxn, DeskPart, CallOK
    <2>3. PICK n : Grown(n) /\ n.kind = "diagnose"
      BY <2>2, LogGrows DEF LedgerPart
    <2> QED BY <1>3, <2>2, <2>3, AllTraced
  <1> QED BY <1>1, <1>4, <1>5, <1>7, <1>8, <1>9, <1>10, <1>11, PurgeTraced, AllTraced DEF Writes
-----------------------------------------------------------------------------
(* The invariant, and what it says *)

LEMMA InitBoard == BoardInit => BoardInv
  <1> SUFFICES ASSUME BoardInit PROVE BoardInv
    OBVIOUS
  <1>1. Init
    BY DEF BoardInit, CliInit
  <1>2. TypeInv /\ ExclusiveClaims
    BY <1>1, InitClaims DEF ClaimInv
  <1>3. \A t \in Tasks : ~Exists(t)
    BY <1>1 DEF Init, NoRow, Exists
  <1>4. /\ events = {} /\ parent = [t \in Tasks |-> None] /\ purged = {} /\ noteSeq = 0
        /\ notes = [i \in Notes |-> NoNote] /\ desk = [c \in Clerks |-> Free]
    BY <1>1 DEF BoardInit, Init
  <1>5. TablesOK
    BY <1>2, <1>3, <1>4 DEF TablesOK, TypeInv, TypeOK, NoNote
  <1>6. EventsOK
    BY <1>2, <1>4, FS_EmptySet DEF EventsOK, TypeInv, TypeOK
  <1>7. NoDanglingReference /\ HonoredHasEvent
    BY <1>4 DEF NoDanglingReference, HonoredHasEvent, NoNote
  <1>8. CallersOK
    BY <1>2 DEF CallersOK, BoardInit, CliInit, NoCommand, TypeInv, TypeOK
  <1>9. DeskPart /\ \A c \in Clerks : CallFresh(desk[c])
    BY <1>4, FreeOK DEF DeskPart
  <1>10. ReplayProvenance
    BY <1>4 DEF ReplayProvenance, History
  <1> QED BY <1>2, <1>3, <1>5, <1>6, <1>7, <1>8, <1>9, <1>10
          DEF BoardInv, LedgerPart, Undisturbed

LEMMA BoardInvKept == BoardInv /\ [ViewsNext]_boardVars => BoardInv'
  <1> SUFFICES ASSUME BoardInv, [ViewsNext]_boardVars PROVE BoardInv'
    OBVIOUS
  <1>1. LedgerPart /\ CallersOK /\ DeskPart
    BY DEF BoardInv
  <1>2. LedgerPart' /\ CallersOK' /\ DeskPart'
    BY <1>1, LedgerPartKept, CallersKept, DeskKept DEF LedgerPart
  <1>3. ASSUME Operators = {} PROVE Undisturbed'
    BY <1>1, <1>3, ExclusiveKept, ProvenanceKept, DesksStayFresh DEF BoardInv, Undisturbed
  <1> QED BY <1>2, <1>3 DEF BoardInv

(* No event, child or intervention is left without the task it names,      *)
(* whatever purges race with replays, interventions, settlers, readers and *)
(* command lines.                                                          *)
THEOREM References == ViewsSpec => []NoDanglingReference
  <1>1. BoardInv => NoDanglingReference
    BY DEF BoardInv, LedgerPart
  <1> QED BY <1>1, InitBoard, BoardInvKept, PTL DEF ViewsSpec

(* "The dossier can never see a half-state": an intervention has a time of *)
(* honoring exactly when an event tells it, and the latest one's.          *)
THEOREM Honored == ViewsSpec => []HonoredHasEvent
  <1>1. BoardInv => HonoredHasEvent
    BY DEF BoardInv, LedgerPart
  <1> QED BY <1>1, InitBoard, BoardInvKept, PTL DEF ViewsSpec

LEMMA PagesExplained ==
  ASSUME BoardInv PROVE LedgerExplainsRow
  <1>1. ASSUME NEW c \in Clerks, desk[c].pc \in {"page", "entry"}
        PROVE  LET shown == Shown(desk[c]) IN
                 \/ Explains(shown.ledger, shown.row)
                 \/ desk[c].task \in purged /\ shown.ledger = {}
    <2>1. PICK t, row : t = desk[c].task /\ row = desk[c].first.row
      OBVIOUS
    <2>2. /\ t \in Tasks /\ desk[c].first = [row |-> row]
          /\ t \in purged \/ Explains(History(t), row)
      BY <1>1, <2>1 DEF BoardInv, DeskPart, CallOK, InHand
    <2>3. Shown(desk[c]).row = row /\ Shown(desk[c]).ledger = History(t)
      BY <2>1, <2>2 DEF Shown
    <2>4. t \in purged => History(t) = {}
      BY <2>2, NoRowNoHistory DEF BoardInv, LedgerPart, TablesOK
    <2> QED BY <2>1, <2>2, <2>3, <2>4
  <1> QED BY <1>1 DEF LedgerExplainsRow

(* A page or a dead-letter entry never shows a row that its ledger, read   *)
(* later, cannot account for; only a purge in between leaves it without.   *)
THEOREM PagesAddUp == ViewsSpec => []LedgerExplainsRow
  <1>1. BoardInv => LedgerExplainsRow
    BY PagesExplained
  <1> QED BY <1>1, InitBoard, BoardInvKept, PTL DEF ViewsSpec

(* Without command lines, which may settle a failed task again, the chain  *)
(* of replays stays whole: one replay event, at the head of the history,   *)
(* and a failed parent with the child's fields.                            *)
THEOREM Provenance == Operators = {} => (ViewsSpec => []ReplayProvenance)
  <1> SUFFICES ASSUME Operators = {} PROVE ViewsSpec => []ReplayProvenance
    OBVIOUS
  <1>1. BoardInv => ReplayProvenance
    BY DEF BoardInv, Undisturbed
  <1> QED BY <1>1, InitBoard, BoardInvKept, PTL DEF ViewsSpec

LEMMA LatestInLedger ==
  ASSUME EventsOK, NEW S, S # {}, S \subseteq events PROVE LatestOf(S) \in S
  <1>1. /\ eventSeq \in Nat /\ \A e \in S : e.id \in Nat /\ e.id <= eventSeq
        /\ \A e, f \in S : e.id = f.id => e = f
    BY DEF EventsOK
  <1> QED BY <1>1, SomeLatest

LEMMA BaselineHolds ==
  ASSUME BoardInv, Operators = {} PROVE BaselineIsSound
  <1>1. ASSUME NEW c \in Clerks, desk[c].pc = "dossier", desk[c].base # None
        PROVE  LET base  == tasks[desk[c].base]
                   shown == Shown([task |-> desk[c].base, first |-> desk[c].first]) IN
               /\ desk[c].base # desk[c].task
               /\ base.status = "done"
               /\ Exists(desk[c].task) => base.sig = tasks[desk[c].task].sig
               /\ \E e \in shown.ledger : e.kind = "complete" /\ e.ts = shown.row.completedAt
    <2>1. PICK t, b, first : t = desk[c].task /\ b = desk[c].base /\ first = desk[c].first
      OBVIOUS
    <2>2. /\ b \in Tasks /\ b # t /\ tasks[b].status = "done" /\ first = [row |-> tasks[b]]
          /\ t \in purged \/ (t \in Tasks /\ Exists(t) /\ tasks[t].sig = tasks[b].sig)
      BY <1>1, <2>1 DEF BoardInv, Undisturbed, CallFresh
    <2>3. /\ Shown([task |-> b, first |-> first]).row = tasks[b]
          /\ Shown([task |-> b, first |-> first]).ledger = History(b)
      BY <2>2 DEF Shown
    <2>4. t \in purged => ~Exists(t)
      BY DEF BoardInv, LedgerPart, TablesOK
    <2>5. \E e \in History(b) : e.kind = "complete" /\ e.ts = tasks[b].completedAt
      <3>1. Told(b) /\ tasks[b].status = "done"
        BY <2>2 DEF BoardInv, LedgerPart, Exists
      <3>2. MovesOf(b) # {} /\ StatusAfter(LatestOf(MovesOf(b))) = "done"
        BY <3>1 DEF Told
      <3>3. LatestOf(MovesOf(b)) \in MovesOf(b)
        BY <2>2, <3>2, LatestInLedger, PartsOfLedger DEF BoardInv, LedgerPart
      <3>4. PICK d \in MovesOf(b) : StatusAfter(d) = "done"
        BY <3>2, <3>3
      <3>5. d.kind = "complete"
        BY <2>2, <3>4, PartsOfLedger
           DEF StatusAfter, BoardInv, LedgerPart, EventsOK, MovesOf, Moves, SettleKinds
      <3>6. DoneOf(b) # {}
        BY <3>4, <3>5 DEF DoneOf
      <3>7. LatestOf(DoneOf(b)) \in DoneOf(b)
        BY <2>2, <3>6, LatestInLedger, PartsOfLedger DEF BoardInv, LedgerPart
      <3>8. tasks[b].completedAt = LatestOf(DoneOf(b)).ts
        BY <3>1, <3>6 DEF Told
      <3> QED BY <3>7, <3>8 DEF DoneOf, MovesOf
    <2> QED BY <2>1, <2>2, <2>3, <2>4, <2>5
  <1> QED BY <1>1 DEF BaselineIsSound

(* Without command lines: the baseline of a dossier is another task of the *)
(* same signature that is done still, and its trajectory has the           *)
(* completion it was chosen by.                                            *)
THEOREM Baseline == Operators = {} => (ViewsSpec => []BaselineIsSound)
  <1> SUFFICES ASSUME Operators = {} PROVE ViewsSpec => []BaselineIsSound
    OBVIOUS
  <1>1. BoardInv => BaselineIsSound
    BY BaselineHolds
  <1> QED BY <1>1, InitBoard, BoardInvKept, PTL DEF ViewsSpec

(* "The original failed task STAYS in 'failed'" until a purge takes it, as *)
(* long as no command line settles it.                                     *)
THEOREM Audit == Operators = {} => (ViewsSpec => FailedStaysForAudit)
  <1> SUFFICES ASSUME Operators = {} PROVE ViewsSpec => FailedStaysForAudit
    OBVIOUS
  <1>1. ASSUME BoardInv, [ViewsNext]_boardVars, NEW t \in Tasks, tasks[t].status = "failed"
        PROVE  tasks'[t] = tasks[t] \/ ~Exists(t)'
    <2>1. tasks'[t] = tasks[t] \/ t \in purged'
      BY <1>1, ClosedStays DEF BoardInv
    <2>2. t \in purged' => ~Exists(t)'
      BY <1>1, BoardInvKept DEF BoardInv, LedgerPart, TablesOK
    <2> QED BY <2>1, <2>2
  <1>2. BoardInv /\ [ViewsNext]_boardVars =>
          [\A t \in Tasks : tasks[t].status = "failed"
             => tasks'[t] = tasks[t] \/ ~Exists(t)']_boardVars
    BY <1>1
  <1> QED BY <1>2, InitBoard, BoardInvKept, PTL DEF ViewsSpec, FailedStaysForAudit

(* A board that nobody reads is a board: what is proved here holds of      *)
(* BoardSpec too.                                                          *)
THEOREM BoardAlone == BoardSpec => ViewsSpec
  <1>1. [BoardNext]_boardVars => [ViewsNext]_boardVars
    BY DEF ViewsNext
  <1> QED BY <1>1, PTL DEF BoardSpec, ViewsSpec
=============================================================================
