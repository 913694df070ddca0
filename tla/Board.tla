------------------------------- MODULE Board -------------------------------
(***************************************************************************)
(* The dead-letter queue (dlq.py) and the interventions (interventions.py) *)
(* on the tables of Queue, beside its workers and command lines.           *)
(*                                                                         *)
(* Each clerk is a process in one call.  Every call reads first, in        *)
(* autocommit mode, and writes in a transaction of its own later: the row, *)
(* the ids or the intervention it read may have changed in between.        *)
(* Foreign keys are on (open_db): a statement that would leave a reference *)
(* without its row raises, and the transaction is rolled back.             *)
(***************************************************************************)
EXTENDS CliOperator

CONSTANTS
  Clerks,    \* processes that replay, purge, intervene or honor
  MaxNotes   \* bound: interventions posted

ASSUME NotesAssumption == MaxNotes \in Nat /\ None \notin Nat

VARIABLES
  parent,    \* tasks.parent_id
  purged,    \* ids whose rows were deleted; uuid4 never returns them
  notes,     \* table interventions: a sequence number -> [task, honoredAt]
  noteSeq,   \* the last interventions.id handed out
  desk       \* the call each clerk is in

board == <<parent, purged, notes, noteSeq, desk>>
boardVars == <<clock, db, proc, cli, parent, purged, notes, noteSeq, desk>>

Free == [pc |-> "idle"]
NoNote == [task |-> None, honoredAt |-> None]
Notes == 1 .. MaxNotes

BoardInit ==
  /\ CliInit
  /\ parent = [t \in Tasks |-> None]
  /\ purged = {}
  /\ notes = [i \in Notes |-> NoNote]
  /\ noteSeq = 0
  /\ desk = [c \in Clerks |-> Free]

Begin(c, call) ==
  /\ desk[c].pc = "idle"
  /\ desk' = [desk EXCEPT ![c] = call]
  /\ UNCHANGED <<clock, db, proc, cli, parent, purged, notes, noteSeq>>

Leave(c) == desk' = [desk EXCEPT ![c] = Free]

-----------------------------------------------------------------------------
(* replay *)

ReplayAnything(c, t) ==
  /\ Exists(t) /\ eventSeq < MaxEvents
  /\ Begin(c, [pc |-> "replay", task |-> t, row |-> tasks[t], now |-> clock])

(* SELECT the source; ValueError unless it exists and is in a DLQ status *)
ReplayCall(c, t) ==
  /\ tasks[t].status = "failed" /\ eventSeq < MaxEvents
  /\ Begin(c, [pc |-> "replay", task |-> t, row |-> tasks[t], now |-> clock])

ReplayReopens(c, new) ==
  LET call == desk[c] IN
  /\ call.pc = "replay" /\ Exists(call.task)
  /\ new = call.task
  /\ tasks' = [tasks EXCEPT ![new] = Requeued(@)]
  /\ Log(new, "replay", call.now, None, None)
  /\ Leave(c)
  /\ UNCHANGED <<clock, track, proc, cli, parent, purged, notes, noteSeq>>

(* The INSERT names the source as parent: it must still be there. *)
ReplayTxn(c, new) ==
  LET call == desk[c]
      src  == call.row IN
  /\ call.pc = "replay"
  /\ ~Exists(new) /\ new \notin purged
  /\ Exists(call.task)
  /\ tasks' = [tasks EXCEPT ![new] =
       NewRow(src.type, src.sig, src.priority, src.maxAttempts, call.now)]
  /\ parent' = [parent EXCEPT ![new] = call.task]
  /\ Log(new, "replay", call.now, None, None)
  /\ Leave(c)
  /\ UNCHANGED <<clock, track, proc, cli, purged, notes, noteSeq>>

-----------------------------------------------------------------------------
(* purge_older_than *)

PurgeCall(c, cutoff) ==
  LET ids == {t \in Tasks : tasks[t].status = "failed" /\ tasks[t].createdAt < cutoff} IN
  /\ ids # {}
  /\ Begin(c, [pc |-> "purge", ids |-> ids])

NoForeignKeys(ids) == TRUE

(* interventions.task_id and tasks.parent_id REFERENCE tasks(id). *)
NoNoteOn(ids) == \A i \in Notes : notes[i].task \notin ids
NoChildLeft(ids) == \A t \in Tasks : parent[t] \in ids => t \in ids

(* Nothing that stays refers to a task that goes; the events went first. *)
Deletable(ids) == NoNoteOn(ids) /\ NoChildLeft(ids)

PurgeTxn(c) ==
  LET ids == desk[c].ids IN
  /\ desk[c].pc = "purge"
  /\ Deletable(ids)
  /\ events' = {e \in events : e.task \notin ids}
  /\ tasks' = [t \in Tasks |-> IF t \in ids THEN NoRow ELSE tasks[t]]
  /\ parent' = [t \in Tasks |-> IF t \in ids THEN None ELSE parent[t]]
  /\ purged' = purged \cup ids
  /\ Leave(c)
  /\ UNCHANGED <<clock, eventSeq, track, proc, cli, notes, noteSeq>>

-----------------------------------------------------------------------------
(* interventions: post and honor *)

InterveneCall(c, t) ==
  /\ Exists(t)
  /\ Begin(c, [pc |-> "intervene", task |-> t])

InterveneTxn(c) ==
  LET i == noteSeq + 1 IN
  /\ desk[c].pc = "intervene"
  /\ i \in Notes
  /\ Exists(desk[c].task)
  /\ noteSeq' = i
  /\ notes' = [notes EXCEPT ![i] = [task |-> desk[c].task, honoredAt |-> None]]
  /\ Leave(c)
  /\ UNCHANGED <<clock, db, proc, cli, parent, purged>>

(* SELECT; ValueError if there is no such row or it is honored already *)
HonorCall(c, i, a) ==
  /\ notes[i] # NoNote /\ notes[i].honoredAt = None /\ eventSeq < MaxEvents
  /\ Begin(c, [pc |-> "honor", note |-> i, agent |-> a, now |-> clock])

HonorEventOnly(c) ==
  LET call == desk[c] IN
  /\ call.pc = "honor"
  /\ Log(notes[call.note].task, "intervene", call.now, call.agent, call.note)
  /\ Leave(c)
  /\ UNCHANGED <<clock, tasks, track, proc, cli, parent, purged, notes, noteSeq>>

(* UPDATE ... WHERE id = ?, and the event *)
HonorTxn(c) ==
  LET call == desk[c] IN
  /\ call.pc = "honor"
  /\ notes' = [notes EXCEPT ![call.note].honoredAt = call.now]
  /\ Log(notes[call.note].task, "intervene", call.now, call.agent, call.note)
  /\ Leave(c)
  /\ UNCHANGED <<clock, tasks, track, proc, cli, parent, purged, noteSeq>>

-----------------------------------------------------------------------------
(* The transaction raised (foreign key, busy timeout) or the clerk died. *)
ClerkLost(c) ==
  /\ desk[c].pc # "idle"
  /\ Leave(c)
  /\ UNCHANGED <<clock, db, proc, cli, parent, purged, notes, noteSeq>>

ClerkStep(c) ==
  \/ \E t \in Tasks : ReplayCall(c, t) \/ ReplayTxn(c, t) \/ InterveneCall(c, t)
  \/ \E cutoff \in 0 .. clock : PurgeCall(c, cutoff)
  \/ PurgeTxn(c)
  \/ InterveneTxn(c)
  \/ \E i \in Notes, a \in Agents : HonorCall(c, i, a)
  \/ HonorTxn(c)
  \/ ClerkLost(c)

(* uuid4: post never draws the id of a purged task *)
QueueStep == CliNext /\ (\A t \in purged : ~Exists(t)') /\ UNCHANGED board

BoardNext == QueueStep \/ \E c \in Clerks : ClerkStep(c)

BoardSpec == BoardInit /\ [][BoardNext]_boardVars

-----------------------------------------------------------------------------
(* No event, child or intervention is left without the task it names,      *)
(* whatever purges race with replays, interventions and settlers.          *)
NoDanglingReference ==
  /\ \A e \in events : Exists(e.task)
  /\ \A t \in Tasks : parent[t] # None => Exists(t) /\ Exists(parent[t])
  /\ \A i \in Notes : notes[i] # NoNote => Exists(notes[i].task)

(* "The original failed task STAYS in 'failed'": a row in the dead-letter  *)
(* queue does not change until it is purged, whatever is replayed from it. *)
FailedStaysForAudit ==
  [][\A t \in Tasks : tasks[t].status = "failed"
       => tasks'[t] = tasks[t] \/ ~Exists(t)']_boardVars

(* The provenance chain: a replayed task has one replay event, the first   *)
(* of its history, a failed parent that still exists and is older, and the *)
(* parent's type, signature, priority and limit.                           *)
ReplayProvenance ==
  \A t \in Tasks :
    LET replays == {e \in History(t) : e.kind = "replay"}
        p == tasks[parent[t]] IN
    IF parent[t] = None
      THEN replays = {}
      ELSE /\ Cardinality(replays) = 1
           /\ \A r \in replays, e \in History(t) : r.id <= e.id
           /\ p.status = "failed"
           /\ p.createdAt <= tasks[t].createdAt
           /\ p.type = tasks[t].type /\ p.sig = tasks[t].sig
           /\ p.priority = tasks[t].priority /\ p.maxAttempts = tasks[t].maxAttempts

(* "The dossier can never see a half-state (event without honored_at, or   *)
(* honored without event)".                                                *)
HonoredHasEvent ==
  \A i \in Notes :
    LET honors == {e \in events : e.kind = "intervene" /\ e.post = i} IN
    IF notes[i].honoredAt = None
      THEN honors = {}
      ELSE honors # {} /\ LatestOf(honors).ts = notes[i].honoredAt

(* "Already honored (no double-honor [...])": an intervention is honored   *)
(* at most once.                                                           *)
HonoredOnce ==
  \A d, e \in events : d.kind = "intervene" /\ e.kind = "intervene" /\ d.post = e.post
                         => d = e
=============================================================================
