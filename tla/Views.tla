------------------------------- MODULE Views -------------------------------
(***************************************************************************)
(* What readers see of the board: the task page of the dashboard           *)
(* (inspect.py), the entries of the dead-letter queue (dlq.py), and the    *)
(* self-diagnosis an agent makes from such an entry (diagnose.py).         *)
(*                                                                         *)
(* No reader opens a transaction: the row and the ledger are two SELECTs,  *)
(* and whatever workers, replays, purges and other readers do may come in  *)
(* between.  A reader is a clerk of Board in one call; "first" is what its *)
(* first SELECT returned.                                                  *)
(***************************************************************************)
EXTENDS Board

LedgerFirst(t) == [ledger |-> History(t)]

(* SELECT * FROM tasks WHERE id = ? *)
FirstRead(t) == [row |-> tasks[t]]

(* What a reader has, if its next SELECT of the ledger came now *)
Shown(call) ==
  LET now == [row |-> tasks[call.task], ledger |-> History(call.task)] IN
  [x \in DOMAIN now |-> IF x \in DOMAIN call.first THEN call.first[x] ELSE now[x]]

-----------------------------------------------------------------------------
(* _task_detail, the page of one task; None if there is no such task.  Its *)
(* third SELECT, of the interventions, is left out.                        *)
PageCall(c, t) ==
  /\ Exists(t)
  /\ Begin(c, [pc |-> "page", task |-> t, first |-> FirstRead(t)])

PageEvents(c) ==
  /\ desk[c].pc = "page"
  /\ Leave(c)
  /\ UNCHANGED <<clock, db, proc, cli, parent, purged, notes, noteSeq>>

-----------------------------------------------------------------------------
(* Diagnosis.  DLQ.get, and each row that DLQ.list goes through, reads the *)
(* row, then its trajectory.                                               *)
EntryCall(c, t) ==
  /\ tasks[t].status = "failed"
  /\ Begin(c, [pc |-> "entry", task |-> t, first |-> FirstRead(t)])

SimilarOfAnyStatus(sig, failed) == {t \in Tasks \ {failed} : Exists(t) /\ tasks[t].sig = sig}

(* find_similar_success: the WHERE clause, and ORDER BY completed_at DESC  *)
(* LIMIT 1                                                                 *)
Similar(sig, failed) ==
  {t \in Tasks \ {failed} : tasks[t].status = "done" /\ tasks[t].sig = sig}

Latest(S) == {t \in S : \A u \in S \ {t} : tasks[u].completedAt <= tasks[t].completedAt}

(* build_dossier: the trajectory of the entry, then the row of a baseline *)
DossierBaseline(c) ==
  LET call    == desk[c]
      similar == Similar(call.first.row.sig, call.task) IN
  /\ call.pc = "entry"
  /\ \E base \in IF similar = {} THEN {None} ELSE Latest(similar) :
       desk' = [desk EXCEPT ![c] =
         [pc |-> "dossier", task |-> call.task, base |-> base,
          first |-> IF base = None THEN None ELSE FirstRead(base)]]
  /\ UNCHANGED <<clock, db, proc, cli, parent, purged, notes, noteSeq>>

(* The trajectory of the baseline; the agent makes up its mind, and        *)
(* emit_diagnosis reads the clock.                                         *)
DiagnoseCall(c) ==
  /\ desk[c].pc = "dossier"
  /\ desk' = [desk EXCEPT ![c] = [pc |-> "diagnose", task |-> desk[c].task, now |-> clock]]
  /\ UNCHANGED <<clock, db, proc, cli, parent, purged, notes, noteSeq>>

(* The INSERT checks nothing but the foreign key. *)
DiagnoseTxn(c, a) ==
  LET call == desk[c] IN
  /\ call.pc = "diagnose" /\ Exists(call.task) /\ eventSeq < MaxEvents
  /\ Log(call.task, "diagnose", call.now, a, None)
  /\ Leave(c)
  /\ UNCHANGED <<clock, tasks, track, proc, cli, parent, purged, notes, noteSeq>>

ReaderStep(c) ==
  \/ \E t \in Tasks : PageCall(c, t) \/ EntryCall(c, t)
  \/ PageEvents(c)
  \/ DossierBaseline(c)
  \/ DiagnoseCall(c)
  \/ \E a \in Agents : DiagnoseTxn(c, a)

ViewsNext == BoardNext \/ \E c \in Clerks : ReaderStep(c)

ViewsSpec == BoardInit /\ [][ViewsNext]_boardVars

-----------------------------------------------------------------------------
Moves == SettleKinds \cup {"claim"}

(* The events up to id n lead to the row. *)
LeadsTo(ledger, n, row) ==
  LET moves  == {e \in ledger : e.id <= n /\ e.kind \in Moves}
      done   == {e \in moves : e.kind = "complete"}
      claims == {e \in moves : e.kind = "claim"} IN
  /\ row.status = IF moves = {} THEN "queued" ELSE StatusAfter(LatestOf(moves))
  /\ row.attempts = Cardinality(claims)
  /\ row.completedAt = IF done = {} THEN None ELSE LatestOf(done).ts

Explains(ledger, row) == \E n \in 0 .. eventSeq : LeadsTo(ledger, n, row)

(* A page, or an entry of the dead-letter queue, never shows a row its     *)
(* ledger cannot account for, whatever is committed between the two reads. *)
(* The ledger may be ahead; it is behind only when a purge took the task.  *)
LedgerExplainsRow ==
  \A c \in Clerks : desk[c].pc \in {"page", "entry"} =>
    LET shown == Shown(desk[c]) IN
    \/ Explains(shown.ledger, shown.row)
    \/ desk[c].task \in purged /\ shown.ledger = {}

(* "The most recent successfully-completed task": the baseline an agent    *)
(* diffs its failure against is another task of the same signature that    *)
(* is done still, and the trajectory read after its row has the completion *)
(* that the row was chosen by.                                             *)
BaselineIsSound ==
  \A c \in Clerks : desk[c].pc = "dossier" /\ desk[c].base # None =>
    LET base  == tasks[desk[c].base]
        shown == Shown([task |-> desk[c].base, first |-> desk[c].first]) IN
    /\ desk[c].base # desk[c].task
    /\ base.status = "done"
    /\ Exists(desk[c].task) => base.sig = tasks[desk[c].task].sig
    /\ \E e \in shown.ledger : e.kind = "complete" /\ e.ts = shown.row.completedAt
=============================================================================
