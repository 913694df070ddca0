------------------------------- MODULE Stream -------------------------------
(***************************************************************************)
(* The event stream of stream.py: one client, its cursor, and the ledger   *)
(* that writers append to and purges cut from.                             *)
(*                                                                         *)
(* A connection is a generator: it polls for the next batch after its      *)
(* cursor, yields the rows one by one, and when there are none emits a     *)
(* heartbeat if one is due, ends if it has been idle long enough, and      *)
(* sleeps.  The client may leave at any time and reconnect with the last   *)
(* id it saw.  A batch in hand is a copy: rows may be purged meanwhile.    *)
(***************************************************************************)
EXTENDS Integers, Sequences, FiniteSets, FiniteSetsExt, SequencesExt

CONSTANTS
  None,
  Tasks,
  Kinds,              \* event kinds
  Wanted,             \* the kinds of the event_kind filter, or all of them
  BatchLimit,         \* batch_limit
  EventLimit,         \* max_events, or None
  PollInterval,       \* poll_interval
  HeartbeatInterval,  \* heartbeat_interval
  IdleLimit,          \* max_idle_seconds, or None
  MaxAppends          \* bound: events written

ASSUME StreamAssumption ==
  /\ Wanted \subseteq Kinds
  /\ BatchLimit \in Nat \ {0}
  /\ EventLimit = None \/ EventLimit \in Nat \ {0}
  /\ PollInterval \in Nat \ {0}
  /\ HeartbeatInterval \in Nat \ {0}
  /\ IdleLimit = None \/ IdleLimit \in Nat
  /\ MaxAppends \in Nat

VARIABLES
  ledger,    \* task_events: [id, task, kind, nth], nth counting all appends
  lastId,    \* the AUTOINCREMENT counter of task_events
  appends,   \* events ever written
  purged,    \* tasks whose rows are gone
  conn,      \* the generator: [pc, cursor, batch, emitted, idle, quiet]
  received   \* what the client got, over all its connections

vars == <<ledger, lastId, appends, purged, conn, received>>
writers == <<ledger, lastId, appends, purged>>

Ended == [pc |-> "ended", cursor |-> 0, batch |-> <<>>, emitted |-> 0, idle |-> 0, quiet |-> 0]

Init ==
  /\ ledger = {} /\ lastId = 0 /\ appends = 0 /\ purged = {}
  /\ conn = Ended
  /\ received = <<>>

-----------------------------------------------------------------------------
(* The writers.  One transaction writes at a time, so ids are committed in *)
(* the order in which they are drawn.                                      *)

HighestId == Max({e.id : e \in ledger} \cup {0})

NextIdOfRows == HighestId + 1

(* AUTOINCREMENT: above every id ever used, not only those still there *)
NextId == lastId + 1

AppendEvent(t, k) ==
  /\ t \notin purged /\ appends < MaxAppends
  /\ appends' = appends + 1
  /\ lastId' = NextId
  /\ ledger' = ledger \cup {[id |-> NextId, task |-> t, kind |-> k, nth |-> appends']}
  /\ UNCHANGED <<purged, conn, received>>

(* purge_older_than takes a task and all its events. *)
Purge(t) ==
  /\ \E e \in ledger : e.task = t
  /\ purged' = purged \cup {t}
  /\ ledger' = {e \in ledger : e.task # t}
  /\ UNCHANGED <<lastId, appends, conn, received>>

-----------------------------------------------------------------------------
(* The connection *)

LastSeen == IF received = <<>> THEN 0 ELSE Last(received).id

Connect ==
  /\ conn.pc = "ended"
  /\ conn' = [Ended EXCEPT !.pc = "poll", !.cursor = LastSeen]
  /\ UNCHANGED <<writers, received>>

(* ORDER BY id ASC LIMIT n *)
Lowest(rows, n) ==
  [i \in 1 .. Min({Cardinality(rows), n}) |->
     CHOOSE e \in rows : Cardinality({d \in rows : d.id < e.id}) = i - 1]

AfterOrAt(cursor) == Lowest({e \in ledger : e.id >= cursor /\ e.kind \in Wanted}, BatchLimit)

(* WHERE id > ? [AND event_kind = ?] ORDER BY id ASC LIMIT ? *)
EventsSince(cursor) == Lowest({e \in ledger : e.id > cursor /\ e.kind \in Wanted}, BatchLimit)

Poll ==
  /\ conn.pc = "poll"
  /\ LET batch == EventsSince(conn.cursor) IN
     conn' = [conn EXCEPT !.batch = batch,
                          !.pc = IF batch = <<>> THEN "idle" ELSE "yield"]
  /\ UNCHANGED <<writers, received>>

CursorToNewest(e) == lastId

Advanced(e) == e.id

(* One row of the batch; after the last one the idle times start again.    *)
Yield ==
  LET e == Head(conn.batch)
      rest == Tail(conn.batch) IN
  /\ conn.pc = "yield"
  /\ received' = Append(received, e)
  /\ conn' = IF EventLimit # None /\ conn.emitted + 1 >= EventLimit THEN Ended
             ELSE [conn EXCEPT !.emitted = IF EventLimit = None THEN 0 ELSE @ + 1,
                               !.cursor = Advanced(e),
                               !.batch = rest,
                               !.idle = IF rest = <<>> THEN 0 ELSE @,
                               !.quiet = IF rest = <<>> THEN 0 ELSE @,
                               !.pc = IF rest = <<>> THEN "poll" ELSE "yield"]
  /\ UNCHANGED writers

HeartbeatOverdue == conn.quiet > HeartbeatInterval

HeartbeatDue == conn.quiet >= HeartbeatInterval

IdleExpired == IdleLimit # None /\ conn.idle >= IdleLimit

(* Nothing new: a heartbeat if due, then the end if idle too long, else a  *)
(* sleep.  idle and quiet are the ages of last_event_at and                *)
(* last_heartbeat_at.                                                      *)
Idle ==
  /\ conn.pc = "idle"
  /\ conn' = IF IdleExpired THEN Ended
             ELSE [conn EXCEPT !.pc = "poll",
                               !.idle = IF IdleLimit = None THEN 0 ELSE @ + PollInterval,
                               !.quiet = (IF HeartbeatDue THEN 0 ELSE @) + PollInterval]
  /\ UNCHANGED <<writers, received>>

(* The client goes away; what was not yielded is dropped with the batch. *)
Disconnect ==
  /\ conn.pc # "ended"
  /\ conn' = Ended
  /\ UNCHANGED <<writers, received>>

Write == \E t \in Tasks : Purge(t) \/ \E k \in Kinds : AppendEvent(t, k)
Read == Connect \/ Poll \/ Yield \/ Idle

Next == Write \/ Read \/ Disconnect

Spec == Init /\ [][Next]_vars

(* The client keeps coming back, and does not for ever leave before the    *)
(* poll, or between the poll and the next row.                             *)
FairSpec ==
  /\ Spec
  /\ WF_vars(Connect) /\ WF_vars(Idle)
  /\ SF_vars(Poll) /\ SF_vars(Yield)

-----------------------------------------------------------------------------
(* "Clients reconnect with the last seen id": whatever the cursor of the   *)
(* client has passed was delivered, over disconnections, purges, batch and *)
(* event limits.                                                           *)
NothingSkipped ==
  \A e \in ledger : e.kind \in Wanted /\ e.id <= LastSeen => e \in Range(received)

(* The client sees every event once, in the order of the ledger, and none  *)
(* of a kind it did not ask for.                                           *)
InLedgerOrder ==
  /\ \A i, j \in DOMAIN received : i < j => received[i].id < received[j].id
                                         /\ received[i].nth < received[j].nth
  /\ \A i \in DOMAIN received : received[i].kind \in Wanted

(* "Emits heartbeat comments every heartbeat_interval seconds during idle  *)
(* stretches": up to the granularity of the poll, a quiet connection is    *)
(* never silent for longer.                                                *)
NeverSilentForLong == conn.quiet < HeartbeatInterval + PollInterval

(* An event that stays in the ledger reaches the client.                   *)
EveryEventArrives ==
  \A n \in 1 .. MaxAppends :
    (\E e \in ledger : e.nth = n /\ e.kind \in Wanted)
      ~> (\A e \in ledger : e.nth = n => e \in Range(received))
=============================================================================
