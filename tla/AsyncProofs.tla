---------------------------- MODULE AsyncProofs ----------------------------
(***************************************************************************)
(* Theorems about Async, for any number of coroutines, tasks and command   *)
(* lines: the ledger stays truthful whatever is cancelled, close answers   *)
(* every call, and without cancellations the async calls mean what the     *)
(* synchronous ones do.                                                    *)
(***************************************************************************)
EXTENDS Async, QueueProofs

-----------------------------------------------------------------------------
(* Types.  A call is a job of a coroutine; a settling call names its task. *)

CallKinds == {"claim"} \cup SettleKinds

Job == [co : Workers \cup {None}, kind : CallKinds \cup {"close"},
        task : Tasks \cup {None}, heard : BOOLEAN]

Running == [co : Workers \cup {None}, kind : CallKinds \cup {"close", "idle"},
            task : Tasks \cup {None}, heard : BOOLEAN, now : Nat,
            verdict : {"queued", "failed", None}]

Command == [pc : {"idle"} \cup SettleKinds, task : Tasks \cup {None}, agent : Agents \cup {None},
            sig : Signatures \cup {None}, now : Nat, verdict : {"queued", "failed", None}]

WellCalled(job) ==
  /\ job.kind \in CallKinds <=> job.co # None
  /\ job.kind \in SettleKinds => job.task \in Tasks

CommandOK(c) ==
  c.pc # "idle" => /\ c.task \in Tasks /\ c.agent \in Agents /\ c.sig \in Signatures
                   /\ c.pc = "fail" => c.verdict \in {"queued", "failed"}

AsyncTypes ==
  /\ TypeOK
  /\ \A c \in Workers : proc[c] = Idle \/ \E t \in Tasks : proc[c] = Working(t)
  /\ jobs \in Seq(Job) /\ thread \in Running
  /\ \A i \in DOMAIN jobs : WellCalled(jobs[i])
  /\ WellCalled(thread)
  /\ thread.kind = "fail" => thread.verdict \in {"queued", "failed"}
  /\ waiting \subseteq Workers
  /\ cli \in [Operators -> Command] /\ \A o \in Operators : CommandOK(cli[o])

-----------------------------------------------------------------------------
(* The invariants *)

(* Every coroutine that waits has a call that will answer it.              *)
Answerable(c) == IsCallOf(thread, c) \/ \E i \in DOMAIN jobs : IsCallOf(jobs[i], c)

CloseInOrder ==
  /\ \A c \in waiting : Answerable(c)
  /\ closer \in {"shutdown", "closed"} => ~opened
  /\ closer = "closed" => waiting = {}

(* As long as nobody is cancelled, the calls and the coroutines that wait  *)
(* correspond, and a call is of the state its coroutine is in.             *)
InStep(job) ==
  job.kind \in CallKinds =>
    /\ job.heard /\ job.co \in waiting
    /\ proc[job.co] = IF job.kind = "claim" THEN Idle ELSE Working(job.task)

OneCallEach ==
  /\ \A i, j \in DOMAIN jobs : jobs[i].kind \in CallKinds /\ jobs[i].co = jobs[j].co => i = j
  /\ \A i \in DOMAIN jobs : thread.kind \in CallKinds => jobs[i].co # thread.co

Synchronous ==
  /\ \A i \in DOMAIN jobs : InStep(jobs[i])
  /\ InStep(thread)
  /\ OneCallEach
  /\ LedgerAlternates /\ ExclusiveClaims
  /\ \A t \in Tasks : tasks[t].status = "claimed" => \E c \in Workers : Holds(c, t)

AsyncInv ==
  /\ AsyncTypes /\ LedgerTold /\ CloseInOrder
  /\ ~stray => Synchronous
-----------------------------------------------------------------------------
(* Sequences and records *)

LEMMA Removed ==
  ASSUME NEW S, NEW s \in Seq(S), NEW i \in DOMAIN s
  PROVE  /\ RemoveAt(s, i) \in Seq(S)
         /\ \A j \in DOMAIN RemoveAt(s, i) : \E k \in DOMAIN s : RemoveAt(s, i)[j] = s[k]
         /\ \A k \in DOMAIN s \ {i} : \E j \in DOMAIN RemoveAt(s, i) : RemoveAt(s, i)[j] = s[k]
<1> DEFINE a == SubSeq(s, 1, i - 1)
           b == SubSeq(s, i + 1, Len(s))
<1>1. i \in 1 .. Len(s) /\ Len(s) \in Nat
  OBVIOUS
<1>2. a \in Seq(S) /\ Len(a) = i - 1 /\ \A j \in 1 .. i - 1 : a[j] = s[j]
  BY <1>1
<1>3. b \in Seq(S) /\ Len(b) = Len(s) - i /\ \A j \in 1 .. Len(s) - i : b[j] = s[i + j]
  BY <1>1
<1>4. RemoveAt(s, i) = a \o b
  BY DEF RemoveAt
<1> HIDE DEF a, b
<1>5. /\ a \o b \in Seq(S) /\ Len(a \o b) = Len(s) - 1
      /\ \A j \in 1 .. Len(s) - 1 : (a \o b)[j] = IF j < i THEN a[j] ELSE b[j - i + 1]
  BY <1>1, <1>2, <1>3
<1>6. \A j \in 1 .. Len(s) - 1 : (a \o b)[j] = IF j < i THEN s[j] ELSE s[j + 1]
  <2> TAKE j \in 1 .. Len(s) - 1
  <2>1. CASE j < i
    BY <1>1, <1>2, <1>5, <2>1
  <2>2. CASE ~(j < i)
    <3>1. j - i + 1 \in 1 .. Len(s) - i /\ i + (j - i + 1) = j + 1
      BY <1>1, <2>2
    <3> QED  BY <1>3, <1>5, <2>2, <3>1
  <2> QED  BY <2>1, <2>2
<1>7. DOMAIN (a \o b) = 1 .. Len(s) - 1
  BY <1>1, <1>5
<1>8. \A j \in DOMAIN (a \o b) : \E k \in DOMAIN s : (a \o b)[j] = s[k]
  <2> TAKE j \in DOMAIN (a \o b)
  <2>1. j \in DOMAIN s /\ j + 1 \in DOMAIN s
    BY <1>1, <1>7
  <2> QED  BY <1>6, <1>7, <2>1
<1>9. \A k \in DOMAIN s \ {i} : \E j \in DOMAIN (a \o b) : (a \o b)[j] = s[k]
  <2> TAKE k \in DOMAIN s \ {i}
  <2>1. CASE k < i
    <3>1. k \in 1 .. Len(s) - 1
      BY <1>1, <2>1
    <3> QED  BY <1>6, <1>7, <2>1, <3>1
  <2>2. CASE k > i
    <3>1. k - 1 \in 1 .. Len(s) - 1 /\ ~(k - 1 < i) /\ (k - 1) + 1 = k
      BY <1>1, <2>2
    <3>2. (a \o b)[k - 1] = s[k]
      BY <1>6, <3>1
    <3> QED  BY <1>7, <3>1, <3>2
  <2> QED  BY <1>1, <2>1, <2>2
<1> QED  BY <1>4, <1>5, <1>8, <1>9

LEMMA Appending ==
  ASSUME NEW S, NEW s \in Seq(S), NEW e \in S
  PROVE  /\ Append(s, e) \in Seq(S)
         /\ DOMAIN Append(s, e) = DOMAIN s \cup {Len(s) + 1}
         /\ Len(s) + 1 \notin DOMAIN s
         /\ Append(s, e)[Len(s) + 1] = e
         /\ \A i \in DOMAIN s : Append(s, e)[i] = s[i]
OBVIOUS

LEMMA Beheaded ==
  ASSUME NEW S, NEW s \in Seq(S), s # <<>>
  PROVE  /\ Tail(s) \in Seq(S) /\ 1 \in DOMAIN s /\ Head(s) = s[1]
         /\ \A i \in DOMAIN Tail(s) : i + 1 \in DOMAIN s /\ i + 1 # 1 /\ Tail(s)[i] = s[i + 1]
         /\ \A i \in DOMAIN s : i # 1 => i - 1 \in DOMAIN Tail(s) /\ Tail(s)[i - 1] = s[i]
<1>1. Len(s) \in Nat /\ Len(s) # 0 /\ DOMAIN s = 1 .. Len(s)
  OBVIOUS
<1>2. Tail(s) \in Seq(S) /\ Len(Tail(s)) = Len(s) - 1
      /\ \A i \in 1 .. Len(s) - 1 : Tail(s)[i] = s[i + 1]
  BY <1>1
<1>3. DOMAIN Tail(s) = 1 .. Len(s) - 1
  BY <1>1, <1>2
<1>4. \A i \in DOMAIN s : i # 1 => i - 1 \in 1 .. Len(s) - 1 /\ (i - 1) + 1 = i
  BY <1>1
<1>5. \A i \in DOMAIN s : i # 1 => i - 1 \in DOMAIN Tail(s) /\ Tail(s)[i - 1] = s[i]
  <2> TAKE i \in DOMAIN s
  <2> HAVE i # 1
  <2>1. Tail(s)[i - 1] = s[(i - 1) + 1]
    BY <1>2, <1>4
  <2> QED  BY <1>3, <1>4, <2>1
<1> QED  BY <1>1, <1>2, <1>3, <1>5

LEMMA Procs ==
  /\ Idle \in Proc /\ Idle.task = None /\ Idle.pc = "idle"
  /\ \A t \in Tasks : /\ Working(t) \in Proc /\ Working(t).task = t /\ Working(t).pc = "working"
                      /\ Working(t) # Idle
BY TasksAssumption DEF Idle, Working, Proc

LEMMA IdleThread == NoJob \in Running /\ WellCalled(NoJob) /\ NoJob.kind = "idle" /\ ~NoJob.heard
BY DEF NoJob, Running, WellCalled, CallKinds, SettleKinds

LEMMA IdleCallsNobody ==
  ASSUME WellCalled(thread), thread.kind \notin CallKinds
  PROVE  \A c \in Workers : ~IsCallOf(thread, c)
BY AgentsAssumption DEF WellCalled, IsCallOf

LEMMA IdleIsNoCall == "idle" \notin CallKinds /\ "close" \notin CallKinds
BY DEF CallKinds, SettleKinds

LEMMA ClosingJob == CloseJob \in Job /\ WellCalled(CloseJob) /\ CloseJob.kind = "close"
BY DEF CloseJob, Job, WellCalled, CallKinds, SettleKinds

LEMMA TypesOfQueue == AsyncTypes => TypeInv
<1> SUFFICES ASSUME AsyncTypes PROVE HandleShape
  BY DEF TypeInv, AsyncTypes
<1>1. ASSUME NEW w \in Workers
      PROVE  /\ proc[w].task # None <=> proc[w].pc \in {"working"} \cup SettleKinds
             /\ proc[w].pc # "fail" => proc[w].verdict = None
             /\ proc[w].pc = "fail" => proc[w].verdict \in {"queued", "failed"}
  <2>1. CASE proc[w] = Idle
    BY <2>1 DEF Idle, SettleKinds
  <2>2. CASE \E t \in Tasks : proc[w] = Working(t)
    BY <2>2, TasksAssumption DEF Working, SettleKinds
  <2> QED  BY <2>1, <2>2 DEF AsyncTypes
<1> QED  BY <1>1 DEF HandleShape

-----------------------------------------------------------------------------
(* What claims and settlements do to the tables, whoever makes them *)

LEMMA ClaimTables ==
  ASSUME TypeOK, NEW t \in Tasks, NEW a \in Agents, NEW now \in Nat,
         tasks[t].status = "queued", tasks' = [tasks EXCEPT ![t] = Claimed(tasks[t], a, now)],
         Log(t, "claim", now, a, None), UNCHANGED <<clock, track>>, proc' \in [Workers -> Proc]
  PROVE  TypeOK'
<1> DEFINE row == Claimed(tasks[t], a, now)
<1>1. tasks[t] \in Row /\ Exists(t)
  BY DEF TypeOK, Exists
<1>2. row \in Row /\ row.sig = tasks[t].sig
  BY <1>1, ClaimedRow
<1> HIDE DEF row
<1>3. /\ tasks' \in [Tasks -> Row]
      /\ \A u \in Tasks : Exists(u)' => tasks'[u].sig \in Signatures
  <2>1. tasks' = [tasks EXCEPT ![t] = row]
    BY DEF row
  <2> QED  BY <1>1, <1>2, <2>1 DEF TypeOK, Exists
<1>4. events' \subseteq Event /\ eventSeq' \in Nat
  BY LogTypes
<1> QED  BY <1>3, <1>4 DEF TypeOK

LEMMA SettleTables ==
  ASSUME TypeOK, NEW t \in Tasks, NEW a \in Agents, NEW sig \in Signatures,
         NEW kind \in SettleKinds, NEW now \in Nat, NEW verdict \in {"queued", "failed", None},
         Settle(t, a, sig, kind, now, verdict), UNCHANGED clock, proc' \in [Workers -> Proc]
  PROVE  TypeOK'
<1> DEFINE row == Settled(tasks[t], kind, now, verdict)
<1>1. tasks[t] \in Row /\ Exists(t)
  BY DEF TypeOK, Settle
<1>2. row \in Row /\ row.sig = tasks[t].sig
  BY <1>1, SettledRow
<1>3. tasks' = [tasks EXCEPT ![t] = row]
  BY <1>1 DEF Settle, TypeOK
<1> HIDE DEF row
<1>4. /\ tasks' \in [Tasks -> Row]
      /\ \A u \in Tasks : Exists(u)' => tasks'[u].sig \in Signatures
  BY <1>1, <1>2, <1>3 DEF TypeOK, Exists
<1>5. events' \subseteq Event /\ eventSeq' \in Nat
  BY LogTypes DEF Settle
<1>6. track' \in [Agents \X Signatures \X SettleKinds -> Nat]
  BY CreditTypes DEF Settle
<1> QED  BY <1>4, <1>5, <1>6 DEF TypeOK

LEMMA TablesUntouched ==
  ASSUME TypeOK, UNCHANGED <<clock, db>>, proc' \in [Workers -> Proc]
  PROVE  TypeOK'
BY DEF TypeOK, db, Exists

(* A call that comes back leaves its coroutine idle or with a handle.      *)
LEMMA Returned ==
  ASSUME AsyncTypes, thread.kind \in CallKinds, NEW handle,
         handle = Idle \/ \E t \in Tasks : handle = Working(t), Return(handle)
  PROVE  /\ thread.co \in Workers
         /\ proc' \in [Workers -> Proc]
         /\ \A c \in Workers : proc'[c] = Idle \/ \E t \in Tasks : proc'[c] = Working(t)
         /\ thread' = NoJob
         /\ waiting' \subseteq Workers
         /\ \A c \in Workers : proc'[c] = IF thread.heard /\ c = thread.co THEN handle ELSE proc[c]
         /\ waiting' = IF thread.heard THEN waiting \ {thread.co} ELSE waiting
<1>1. thread.co \in Workers
  BY DEF AsyncTypes, Running, WellCalled
<1>2. handle \in Proc
  BY Procs
<1>3. proc \in [Workers -> Proc] /\ waiting \subseteq Workers
  BY DEF AsyncTypes, TypeOK
<1>4. proc' = IF thread.heard THEN [proc EXCEPT ![thread.co] = handle] ELSE proc
  BY DEF Return
<1>5. proc' \in [Workers -> Proc]
  BY <1>1, <1>2, <1>3, <1>4
<1>6. \A c \in Workers : proc'[c] = IF thread.heard /\ c = thread.co THEN handle ELSE proc[c]
  BY <1>1, <1>3, <1>4
<1>7. waiting' = IF thread.heard THEN waiting \ {thread.co} ELSE waiting
  BY DEF Return
<1>8. \A c \in Workers : proc'[c] = Idle \/ \E t \in Tasks : proc'[c] = Working(t)
  BY <1>6 DEF AsyncTypes
<1> QED  BY <1>1, <1>3, <1>5, <1>6, <1>7, <1>8 DEF Return
-----------------------------------------------------------------------------
(* What holds whatever is cancelled, step by step *)

Truthful == AsyncTypes /\ LedgerTold /\ CloseInOrder

LEMMA InitTruthful == AsyncInit => Truthful
<1> SUFFICES ASSUME AsyncInit PROVE Truthful  OBVIOUS
<1>1. TypeInv
  BY InitTypes DEF AsyncInit, CliInit
<1>2. AsyncTypes
  <2>1. jobs \in Seq(Job) /\ DOMAIN jobs = {}
    BY DEF AsyncInit
  <2>2. thread = NoJob /\ thread \in Running /\ WellCalled(thread) /\ thread.kind = "idle"
    BY IdleThread DEF AsyncInit
  <2>3. cli \in [Operators -> Command] /\ \A o \in Operators : CommandOK(cli[o])
    BY DEF AsyncInit, CliInit, NoCommand, Command, CommandOK
  <2>4. \A c \in Workers : proc[c] = Idle
    BY DEF AsyncInit, CliInit, Init
  <2>5. waiting \subseteq Workers
    BY DEF AsyncInit
  <2> QED  BY <1>1, <2>1, <2>2, <2>3, <2>4, <2>5 DEF AsyncTypes, TypeInv
<1>3. LedgerTold
  BY InitLedger DEF AsyncInit, CliInit, QueueLedger, LedgerOK
<1>4. CloseInOrder
  BY DEF AsyncInit, CloseInOrder
<1> QED  BY <1>2, <1>3, <1>4 DEF Truthful

(* A step of the loop changes the jobs, and nothing of the tables.         *)
LEMMA QuietTruth ==
  ASSUME Truthful, UNCHANGED <<clock, db, proc, cli>>,
         jobs' \in Seq(Job), \A i \in DOMAIN jobs' : WellCalled(jobs'[i]),
         thread' \in Running, WellCalled(thread'),
         thread'.kind = "fail" => thread'.verdict \in {"queued", "failed"},
         waiting' \subseteq Workers, CloseInOrder'
  PROVE  Truthful'
<1>1. TypeOK'
  <2>1. proc' \in [Workers -> Proc]
    BY DEF Truthful, AsyncTypes, TypeOK
  <2> QED  BY <2>1, TablesUntouched DEF Truthful, AsyncTypes
<1>2. AsyncTypes'
  BY <1>1 DEF Truthful, AsyncTypes
<1>3. LedgerTold'
  BY <1>1, ToldUntouched DEF Truthful
<1> QED  BY <1>2, <1>3 DEF Truthful

LEMMA SubmitTruth ==
  ASSUME Truthful, NEW c \in Workers, NEW kind \in CallKinds, Submit(c, kind)
  PROVE  Truthful'
<1> DEFINE job == [co |-> c, kind |-> kind, task |-> proc[c].task, heard |-> TRUE]
<1>1. /\ proc[c].pc = (IF kind = "claim" THEN "idle" ELSE "working")
      /\ jobs' = Append(jobs, job) /\ waiting' = waiting \cup {c}
      /\ closer \notin {"shutdown", "closed"}
      /\ UNCHANGED <<clock, db, proc, cli, thread, closer, opened>>
  BY DEF Submit, LoopRuns
<1>2. job \in Job /\ WellCalled(job) /\ IsCallOf(job, c)
  <2>1. proc[c] = Idle \/ \E t \in Tasks : proc[c] = Working(t)
    BY DEF Truthful, AsyncTypes
  <2>2. proc[c].task \in Tasks \cup {None} /\ (kind \in SettleKinds => proc[c].task \in Tasks)
    BY <1>1, <2>1, Procs DEF SettleKinds
  <2> QED  BY <2>2, AgentsAssumption DEF Job, WellCalled, IsCallOf, CallKinds
<1> HIDE DEF job
<1>3. jobs \in Seq(Job)
  BY DEF Truthful, AsyncTypes
<1>4. /\ jobs' \in Seq(Job) /\ DOMAIN jobs' = DOMAIN jobs \cup {Len(jobs) + 1}
      /\ jobs'[Len(jobs) + 1] = job /\ \A i \in DOMAIN jobs : jobs'[i] = jobs[i]
  BY <1>1, <1>2, <1>3, Appending
<1>5. \A i \in DOMAIN jobs' : WellCalled(jobs'[i])
  BY <1>2, <1>4 DEF Truthful, AsyncTypes
<1>6. CloseInOrder'
  <2>1. \A b \in waiting : Answerable(b)'
    BY <1>1, <1>4 DEF Truthful, CloseInOrder, Answerable
  <2>2. Answerable(c)'
    BY <1>2, <1>4 DEF Answerable
  <2> QED  BY <1>1, <2>1, <2>2 DEF CloseInOrder
<1> QED  BY <1>1, <1>4, <1>5, <1>6, QuietTruth DEF Truthful, AsyncTypes

LEMMA CancelTruth ==
  ASSUME Truthful, NEW c \in Workers, Cancel(c)
  PROVE  Truthful'
<1>1. /\ waiting' = waiting \ {c} /\ closer # "shutdown"
      /\ UNCHANGED <<clock, db, proc, cli, closer, opened>>
  BY DEF Cancel, LoopRuns
<1>2. /\ jobs \in Seq(Job) /\ thread \in Running /\ WellCalled(thread)
      /\ \A i \in DOMAIN jobs : jobs[i] \in Job /\ WellCalled(jobs[i])
      /\ thread.kind = "fail" => thread.verdict \in {"queued", "failed"}
      /\ waiting' \subseteq Workers
  BY <1>1 DEF Truthful, AsyncTypes
<1>3. \A b \in waiting' : Answerable(b) /\ b # c
  BY <1>1 DEF Truthful, CloseInOrder
<1>4. CASE \E i \in DOMAIN jobs : IsCallOf(jobs[i], c) /\ jobs' = RemoveAt(jobs, i)
                                   /\ UNCHANGED thread
  <2>1. PICK i \in DOMAIN jobs : IsCallOf(jobs[i], c) /\ jobs' = RemoveAt(jobs, i)
                                   /\ UNCHANGED thread
    BY <1>4
  <2>2. /\ jobs' \in Seq(Job)
        /\ \A j \in DOMAIN jobs' : \E k \in DOMAIN jobs : jobs'[j] = jobs[k]
        /\ \A k \in DOMAIN jobs \ {i} : \E j \in DOMAIN jobs' : jobs'[j] = jobs[k]
    BY <1>2, <2>1, Removed
  <2>3. \A j \in DOMAIN jobs' : WellCalled(jobs'[j])
    BY <1>2, <2>2
  <2>4. \A b \in waiting' : Answerable(b)'
    <3> TAKE b \in waiting'
    <3>1. ~IsCallOf(jobs[i], b)
      BY <1>3, <2>1 DEF IsCallOf
    <3> QED  BY <1>3, <2>1, <2>2, <3>1 DEF Answerable
  <2>5. CloseInOrder'
    BY <1>1, <2>4 DEF CloseInOrder, Truthful
  <2> QED  BY <1>1, <1>2, <2>1, <2>2, <2>3, <2>5, QuietTruth
<1>5. CASE jobs' = [i \in DOMAIN jobs |-> Unheard(jobs[i], c)] /\ thread' = Unheard(thread, c)
  <2>1. \A job \in Job : /\ Unheard(job, c) \in Job
                         /\ WellCalled(job) => WellCalled(Unheard(job, c))
                         /\ \A b \in Workers \ {c} :
                              IsCallOf(job, b) => IsCallOf(Unheard(job, c), b)
    BY DEF Unheard, Job, WellCalled, IsCallOf
  <2>2. /\ Unheard(thread, c) \in Running /\ WellCalled(Unheard(thread, c))
        /\ Unheard(thread, c).kind = thread.kind /\ Unheard(thread, c).verdict = thread.verdict
        /\ \A b \in Workers \ {c} : IsCallOf(thread, b) => IsCallOf(Unheard(thread, c), b)
    BY <1>2 DEF Unheard, Running, WellCalled, IsCallOf
  <2>3. DOMAIN jobs' = DOMAIN jobs /\ \A i \in DOMAIN jobs : jobs'[i] = Unheard(jobs[i], c)
    BY <1>5
  <2>4. jobs' \in Seq(Job)
    <3>1. Len(jobs) \in Nat /\ DOMAIN jobs = 1 .. Len(jobs)
      BY <1>2
    <3>2. \A i \in 1 .. Len(jobs) : Unheard(jobs[i], c) \in Job
      BY <1>2, <2>1, <3>1
    <3> QED  BY <1>5, <3>1, <3>2
  <2>5. \A i \in DOMAIN jobs' : WellCalled(jobs'[i])
    BY <1>2, <2>1, <2>3
  <2>6. \A b \in waiting' : Answerable(b)'
    <3> TAKE b \in waiting'
    <3>1. b \in Workers \ {c} /\ Answerable(b)
      BY <1>2, <1>3
    <3> QED  BY <1>2, <1>5, <2>1, <2>2, <2>3, <3>1 DEF Answerable
  <2>7. CloseInOrder'
    BY <1>1, <2>6 DEF CloseInOrder, Truthful
  <2> QED  BY <1>1, <1>2, <1>5, <2>2, <2>4, <2>5, <2>7, QuietTruth
<1> QED  BY <1>4, <1>5 DEF Cancel

LEMMA ClosingTruth ==
  ASSUME Truthful, CloseCall \/ CloseAgain \/ CancelClose \/ BeginShutdown \/ EndShutdown
  PROVE  Truthful'
<1>1. /\ jobs \in Seq(Job) /\ thread \in Running /\ WellCalled(thread)
      /\ \A i \in DOMAIN jobs : WellCalled(jobs[i])
      /\ thread.kind = "fail" => thread.verdict \in {"queued", "failed"}
      /\ waiting \subseteq Workers
  BY DEF Truthful, AsyncTypes
<1>2. CASE CloseCall
  <2>1. /\ jobs' \in Seq(Job) /\ DOMAIN jobs' = DOMAIN jobs \cup {Len(jobs) + 1}
        /\ jobs'[Len(jobs) + 1] = CloseJob /\ \A i \in DOMAIN jobs : jobs'[i] = jobs[i]
    BY <1>1, <1>2, ClosingJob, Appending DEF CloseCall
  <2>2. \A i \in DOMAIN jobs' : WellCalled(jobs'[i])
    BY <1>1, <2>1, ClosingJob
  <2>3. CloseInOrder'
    BY <1>2, <2>1 DEF CloseCall, CloseInOrder, Answerable, Truthful
  <2> QED  BY <1>1, <1>2, <2>1, <2>2, <2>3, QuietTruth DEF CloseCall
<1>3. CASE CancelClose
  <2>1. CASE UNCHANGED jobs
    <3>1. CloseInOrder'
      BY <1>3, <2>1 DEF CancelClose, CloseInOrder, Answerable, Truthful
    <3> QED  BY <1>1, <1>3, <2>1, <3>1, QuietTruth DEF CancelClose
  <2>2. CASE \E i \in DOMAIN jobs : jobs[i].kind = "close" /\ jobs' = RemoveAt(jobs, i)
    <3>1. PICK i \in DOMAIN jobs : jobs[i].kind = "close" /\ jobs' = RemoveAt(jobs, i)
      BY <2>2
    <3>2. /\ jobs' \in Seq(Job)
          /\ \A j \in DOMAIN jobs' : \E k \in DOMAIN jobs : jobs'[j] = jobs[k]
          /\ \A k \in DOMAIN jobs \ {i} : \E j \in DOMAIN jobs' : jobs'[j] = jobs[k]
      BY <1>1, <3>1, Removed
    <3>3. \A j \in DOMAIN jobs' : WellCalled(jobs'[j])
      BY <1>1, <3>2
    <3>4. \A b \in waiting : ~IsCallOf(jobs[i], b)
      BY <1>1, <3>1, AgentsAssumption DEF WellCalled, IsCallOf, CallKinds, SettleKinds
    <3>5. CloseInOrder'
      BY <1>3, <3>2, <3>4 DEF CancelClose, CloseInOrder, Answerable, Truthful
    <3> QED  BY <1>1, <1>3, <3>2, <3>3, <3>5, QuietTruth DEF CancelClose
  <2> QED  BY <1>3, <2>1, <2>2 DEF CancelClose
<1>4. CASE CloseAgain
  <2>1. CloseInOrder'
    BY <1>4 DEF CloseAgain, asyncVars, async, CloseInOrder, Answerable, Truthful
  <2> QED  BY <1>1, <1>4, <2>1, QuietTruth DEF CloseAgain, asyncVars, async
<1>5. CASE BeginShutdown
  <2>1. CloseInOrder'
    BY <1>5 DEF BeginShutdown, CloseInOrder, Answerable, Truthful
  <2> QED  BY <1>1, <1>5, <2>1, QuietTruth DEF BeginShutdown
(* The thread is idle and has no jobs left: nobody can be waiting.         *)
<1>6. CASE EndShutdown
  <2>1. waiting = {}
    BY <1>1, <1>6, IdleCallsNobody, IdleIsNoCall DEF EndShutdown, CloseInOrder, Answerable, Truthful
  <2>2. CloseInOrder'
    BY <1>6, <2>1 DEF EndShutdown, CloseInOrder, Truthful
  <2> QED  BY <1>1, <1>6, <2>2, QuietTruth DEF EndShutdown
<1> QED  BY <1>2, <1>3, <1>4, <1>5, <1>6

LEMMA StartTruth ==
  ASSUME Truthful, Start
  PROVE  Truthful'
<1>1. /\ jobs # <<>> /\ thread.kind = "idle" /\ thread' = Begun(Head(jobs)) /\ jobs' = Tail(jobs)
      /\ UNCHANGED <<clock, db, proc, cli, waiting, closer, opened>>
  BY DEF Start
<1>2. jobs \in Seq(Job) /\ clock \in Nat /\ waiting \subseteq Workers
      /\ \A i \in DOMAIN jobs : jobs[i] \in Job /\ WellCalled(jobs[i])
  BY DEF Truthful, AsyncTypes, TypeOK
<1>3. /\ jobs' \in Seq(Job) /\ 1 \in DOMAIN jobs /\ Head(jobs) = jobs[1]
      /\ \A i \in DOMAIN jobs' : i + 1 \in DOMAIN jobs /\ jobs'[i] = jobs[i + 1]
      /\ \A i \in DOMAIN jobs : i # 1 => i - 1 \in DOMAIN jobs' /\ jobs'[i - 1] = jobs[i]
  BY <1>1, <1>2, Beheaded
<1>4. /\ Begun(jobs[1]) \in Running /\ WellCalled(Begun(jobs[1]))
      /\ Begun(jobs[1]).kind = "fail" => Begun(jobs[1]).verdict \in {"queued", "failed"}
      /\ \A c \in Workers : IsCallOf(jobs[1], c) => IsCallOf(Begun(jobs[1]), c)
  <2>1. Verdict(jobs[1].task) \in {"queued", "failed"}
    BY DEF Verdict
  <2> QED  BY <1>2, <1>3, <2>1 DEF Begun, Running, Job, WellCalled, IsCallOf
<1>5. \A i \in DOMAIN jobs' : WellCalled(jobs'[i])
  BY <1>2, <1>3
<1>6. \A c \in waiting : Answerable(c)'
  <2> TAKE c \in waiting
  <2>1. ~IsCallOf(thread, c) /\ c \in Workers
    BY <1>1, <1>2, IdleCallsNobody, IdleIsNoCall DEF Truthful, AsyncTypes
  <2>2. PICK i \in DOMAIN jobs : IsCallOf(jobs[i], c)
    BY <2>1 DEF Truthful, CloseInOrder, Answerable
  <2>3. CASE i = 1
    BY <1>1, <1>3, <1>4, <2>1, <2>2, <2>3 DEF Answerable
  <2>4. CASE i # 1
    BY <1>3, <2>2, <2>4 DEF Answerable
  <2> QED  BY <2>3, <2>4
<1>7. CloseInOrder'
  BY <1>1, <1>6 DEF CloseInOrder, Truthful
<1> QED  BY <1>1, <1>2, <1>3, <1>4, <1>5, <1>7, QuietTruth
(* When a call comes back, the coroutines that still wait have others.     *)
LEMMA ReturnedTruth ==
  ASSUME Truthful, thread.kind \in CallKinds, NEW handle,
         handle = Idle \/ \E t \in Tasks : handle = Working(t), Return(handle),
         UNCHANGED <<cli, jobs, closer, opened>>, TypeOK', LedgerTold'
  PROVE  Truthful'
<1>1. /\ thread.co \in Workers /\ thread' = NoJob /\ waiting' \subseteq Workers
      /\ \A c \in Workers : proc'[c] = Idle \/ \E t \in Tasks : proc'[c] = Working(t)
      /\ waiting' = IF thread.heard THEN waiting \ {thread.co} ELSE waiting
  BY Returned DEF Truthful
<1>2. AsyncTypes'
  BY <1>1, IdleThread DEF Truthful, AsyncTypes
<1>3. \A c \in waiting' : Answerable(c)'
  <2> TAKE c \in waiting'
  <2>1. c \in waiting /\ ~IsCallOf(thread, c)
    BY <1>1 DEF IsCallOf
  <2> QED  BY <2>1 DEF Truthful, CloseInOrder, Answerable
<1>4. CloseInOrder'
  BY <1>1, <1>3 DEF Truthful, CloseInOrder
<1> QED  BY <1>2, <1>4 DEF Truthful

LEMMA RunClaimTruth ==
  ASSUME Truthful, NEW t \in Tasks, RunClaim(t), UNCHANGED <<clock, cli, jobs, closer, opened>>
  PROVE  Truthful'
<1> DEFINE a == AgentOf[thread.co]
           now == thread.now
<1>1. /\ thread.kind = "claim" /\ t \in First(Eligible(a, now))
      /\ tasks' = [tasks EXCEPT ![t] = Claimed(tasks[t], a, now)]
      /\ Log(t, "claim", now, a, None) /\ Return(Working(t)) /\ UNCHANGED track
  BY DEF RunClaim, Truthful, AsyncTypes, TypeOK
<1>2. thread.kind \in CallKinds /\ tasks[t].status = "queued"
  BY <1>1 DEF CallKinds, First, Eligible
<1>3. proc' \in [Workers -> Proc] /\ thread.co \in Workers
  BY <1>1, <1>2, Returned DEF Truthful
<1>4. a \in Agents /\ now \in Nat
  BY <1>3, AgentsAssumption DEF Truthful, AsyncTypes, Running
<1> HIDE DEF a, now
<1>5. TypeOK'
  BY <1>1, <1>2, <1>3, <1>4, ClaimTables DEF Truthful, AsyncTypes
<1>6. LedgerTold'
  BY <1>1, <1>2, <1>4, <1>5, ClaimTold DEF Truthful
<1> QED  BY <1>1, <1>2, <1>5, <1>6, ReturnedTruth

LEMMA RunSettleTruth ==
  ASSUME Truthful, RunSettle, UNCHANGED <<clock, cli, jobs, closer, opened>>
  PROVE  Truthful'
<1> DEFINE t == thread.task
           a == AgentOf[thread.co]
           sig == tasks[thread.task].sig
           kind == thread.kind
           now == thread.now
           verdict == thread.verdict
<1>1. kind \in SettleKinds /\ Settle(t, a, sig, kind, now, verdict) /\ Return(Idle)
  BY DEF RunSettle
<1>2. kind \in CallKinds
  BY <1>1 DEF CallKinds
<1>3. proc' \in [Workers -> Proc] /\ thread.co \in Workers
  BY <1>1, <1>2, Returned DEF Truthful
<1>4. /\ t \in Tasks /\ a \in Agents /\ now \in Nat /\ verdict \in {"queued", "failed", None}
      /\ kind = "fail" => verdict \in {"queued", "failed"}
  BY <1>1, <1>3, AgentsAssumption DEF Truthful, AsyncTypes, Running, WellCalled
<1>5. sig \in Signatures
  BY <1>1, <1>4 DEF Truthful, AsyncTypes, TypeOK, Settle
<1> HIDE DEF t, a, sig, kind, now, verdict
<1>6. TypeOK'
  BY <1>1, <1>3, <1>4, <1>5, SettleTables DEF Truthful, AsyncTypes
<1>7. LedgerTold'
  BY <1>1, <1>4, <1>6, SettleTold DEF Truthful
<1>8. thread.kind \in CallKinds
  BY <1>2 DEF kind
<1> QED  BY <1>1, <1>6, <1>7, <1>8, ReturnedTruth

LEMMA FinishTruth ==
  ASSUME Truthful, Finish
  PROVE  Truthful'
<1>1. UNCHANGED <<clock, cli, jobs, closer>> /\ thread.kind # "idle"
  BY DEF Finish
<1>2. CASE (\E t \in Tasks : RunClaim(t)) /\ UNCHANGED opened
  BY <1>1, <1>2, RunClaimTruth
<1>3. CASE RunSettle /\ UNCHANGED opened
  BY <1>1, <1>3, RunSettleTruth
<1>4. ASSUME NEW handle, handle = Idle \/ \E t \in Tasks : handle = Working(t), Return(handle),
             UNCHANGED <<db, opened>>, thread.kind \in CallKinds
      PROVE  Truthful'
  <2>1. proc' \in [Workers -> Proc]
    BY <1>4, Returned DEF Truthful
  <2>2. TypeOK'
    BY <1>1, <1>4, <2>1, TablesUntouched DEF Truthful, AsyncTypes
  <2>3. LedgerTold'
    BY <1>4, <2>2, ToldUntouched DEF Truthful
  <2> QED  BY <1>1, <1>4, <2>2, <2>3, ReturnedTruth
<1>5. CASE RunClaimNone /\ UNCHANGED opened
  <2>1. thread.kind \in CallKinds
    BY <1>5 DEF RunClaimNone, CallKinds
  <2> QED  BY <1>4, <1>5, <2>1 DEF RunClaimNone
<1>6. CASE RunRaises /\ UNCHANGED opened
  <2>1. thread.kind \in CallKinds
    BY <1>1, <1>6 DEF RunRaises, Truthful, AsyncTypes, Running
  <2>2. thread.co \in Workers
    BY <2>1 DEF Truthful, AsyncTypes, Running, WellCalled
  <2>3. proc[thread.co] = Idle \/ \E t \in Tasks : proc[thread.co] = Working(t)
    BY <2>2 DEF Truthful, AsyncTypes
  <2> QED  BY <1>4, <1>6, <2>1, <2>3 DEF RunRaises
<1>7. CASE RunClose
  <2>1. /\ thread.kind = "close" /\ opened' = FALSE /\ thread' = NoJob
        /\ UNCHANGED <<db, proc, waiting>>
    BY <1>7 DEF RunClose
  <2>2. \A c \in Workers : ~IsCallOf(thread, c)
    BY <2>1, IdleCallsNobody, IdleIsNoCall DEF Truthful, AsyncTypes
  <2>3. CloseInOrder'
    BY <1>1, <2>1, <2>2 DEF CloseInOrder, Answerable, Truthful, AsyncTypes
  <2>4. /\ jobs' \in Seq(Job) /\ \A i \in DOMAIN jobs' : WellCalled(jobs'[i])
        /\ waiting' \subseteq Workers
    BY <1>1, <2>1 DEF Truthful, AsyncTypes
  <2> QED  BY <1>1, <2>1, <2>3, <2>4, IdleThread, QuietTruth
<1> QED  BY <1>2, <1>3, <1>5, <1>6, <1>7 DEF Finish
(* Posters, the clock and the command lines leave the shell alone.         *)
LEMMA AsideTruth ==
  ASSUME Truthful, UNCHANGED <<proc, async>>, TypeOK', LedgerTold',
         cli' \in [Operators -> Command], \A o \in Operators : CommandOK(cli'[o])
  PROVE  Truthful'
<1>1. UNCHANGED <<jobs, thread, waiting, closer, opened>>
  BY DEF async
<1>2. AsyncTypes'
  BY <1>1 DEF Truthful, AsyncTypes
<1>3. CloseInOrder'
  BY <1>1 DEF Truthful, CloseInOrder, Answerable
<1> QED  BY <1>2, <1>3 DEF Truthful

LEMMA OthersTruth ==
  ASSUME Truthful, Others
  PROVE  Truthful'
<1>1. /\ TypeInv /\ TypeOK /\ LedgerTold
      /\ cli \in [Operators -> Command] /\ \A o \in Operators : CommandOK(cli[o])
      /\ UNCHANGED async
      /\ proc \in [Workers -> Proc]
  BY TypesOfQueue DEF Truthful, AsyncTypes, Others, TypeOK
<1>2. CASE Tick /\ UNCHANGED cli
  <2>1. TypeOK' /\ UNCHANGED <<db, proc>>
    BY <1>1, <1>2, TickTypes DEF TypeInv, Tick
  <2>2. LedgerTold'
    BY <1>1, <2>1, ToldUntouched
  <2> QED  BY <1>1, <1>2, <2>1, <2>2, AsideTruth
<1>3. CASE Posting /\ UNCHANGED cli
  <2>1. TypeOK'
    BY <1>1, <1>3, PostTypes DEF TypeInv
  <2>2. PICK t \in Tasks, type \in TaskTypes, sigArg \in Signatures \cup {None},
             prio \in Priorities, limit \in AttemptLimits, created \in 0 .. clock :
               Post(t, type, sigArg, prio, limit, created)
    BY <1>3 DEF Posting
  <2>3. LedgerTold' /\ UNCHANGED proc
    BY <1>1, <2>1, <2>2, PostTold DEF Post, NewRow
  <2> QED  BY <1>1, <1>3, <2>1, <2>3, AsideTruth
<1>4. CASE \E o \in Operators : OperatorStep(o)
  <2>1. PICK o \in Operators : OperatorStep(o)
    BY <1>4
  <2>2. cli[o] \in Command /\ CommandOK(cli[o])
    BY <1>1
  <2>3. NoCommand \in Command /\ CommandOK(NoCommand)
    BY DEF NoCommand, Command, CommandOK
  <2>4. CASE UNCHANGED <<clock, db, proc>> /\ cli' \in [Operators -> Command]
             /\ \A p \in Operators : CommandOK(cli'[p])
    <3>1. TypeOK' /\ LedgerTold'
      BY <1>1, <2>4, TablesUntouched, ToldUntouched
    <3> QED  BY <1>1, <2>4, <3>1, AsideTruth
  <2>5. CASE \E kind \in SettleKinds, t \in Tasks, a \in Agents : CommandCall(o, kind, t, a)
    <3>1. PICK kind \in SettleKinds, t \in Tasks, a \in Agents : CommandCall(o, kind, t, a)
      BY <2>5
    <3> DEFINE c == [pc |-> kind, task |-> t, agent |-> a, sig |-> tasks[t].sig, now |-> clock,
                     verdict |-> IF kind = "fail" THEN Verdict(t) ELSE None]
    <3>2. tasks[t].sig \in Signatures /\ clock \in Nat
      BY <1>1, <3>1 DEF CommandCall, TypeOK
    <3>3. Verdict(t) \in {"queued", "failed"}
      BY DEF Verdict
    <3>4. c \in Command /\ CommandOK(c)
      BY <3>2, <3>3 DEF Command, CommandOK
    <3>5. cli' = [cli EXCEPT ![o] = c] /\ UNCHANGED <<clock, db, proc>>
      BY <3>1 DEF CommandCall
    <3> HIDE DEF c
    <3>6. cli' \in [Operators -> Command] /\ \A p \in Operators : CommandOK(cli'[p])
      BY <1>1, <3>4, <3>5
    <3> QED  BY <2>4, <3>5, <3>6
  <2>6. CASE CommandLost(o)
    <3>1. cli' \in [Operators -> Command] /\ \A p \in Operators : CommandOK(cli'[p])
      BY <1>1, <2>3, <2>6 DEF CommandLost
    <3> QED  BY <2>4, <2>6, <3>1 DEF CommandLost
  <2>7. CASE CommandTxn(o)
    <3> DEFINE c == cli[o]
    <3>1. /\ c.pc # "idle" /\ Settle(c.task, c.agent, c.sig, c.pc, c.now, c.verdict)
          /\ cli' = [cli EXCEPT ![o] = NoCommand] /\ UNCHANGED <<clock, proc>>
      BY <2>7 DEF CommandTxn
    <3>2. /\ c.task \in Tasks /\ c.agent \in Agents /\ c.sig \in Signatures /\ c.now \in Nat
          /\ c.pc \in SettleKinds /\ c.verdict \in {"queued", "failed", None}
          /\ c.pc = "fail" => c.verdict \in {"queued", "failed"}
      BY <2>2, <3>1 DEF Command, CommandOK
    <3>3. PICK t, a, sig, kind, now, verdict :
            /\ t = c.task /\ a = c.agent /\ sig = c.sig /\ kind = c.pc /\ now = c.now
            /\ verdict = c.verdict
      OBVIOUS
    <3>4. Settle(t, a, sig, kind, now, verdict)
      BY <3>1, <3>3
    <3>5. /\ t \in Tasks /\ a \in Agents /\ sig \in Signatures /\ now \in Nat
          /\ kind \in SettleKinds /\ verdict \in {"queued", "failed", None}
          /\ kind = "fail" => verdict \in {"queued", "failed"}
      BY <3>2, <3>3
    <3>6. TypeOK'
      BY <1>1, <3>1, <3>4, <3>5, SettleTables
    <3>7. LedgerTold'
      BY <1>1, <3>4, <3>5, <3>6, SettleTold
    <3>8. cli' \in [Operators -> Command] /\ \A p \in Operators : CommandOK(cli'[p])
      BY <1>1, <2>3, <3>1
    <3> QED  BY <1>1, <3>1, <3>6, <3>7, <3>8, AsideTruth
  <2> QED  BY <2>1, <2>5, <2>6, <2>7 DEF OperatorStep
<1> QED  BY <1>2, <1>3, <1>4 DEF Others

LEMMA TruthKept == Truthful /\ [AsyncNext]_asyncVars => Truthful'
<1> SUFFICES ASSUME Truthful, [AsyncNext]_asyncVars PROVE Truthful'
  OBVIOUS
<1>1. CASE Loop
  <2>1. ASSUME NEW c \in Workers, Cancel(c) PROVE Truthful'
    BY <2>1, CancelTruth
  <2>2. ASSUME NEW c \in Workers, NEW kind \in {"claim"} \cup SettleKinds, Submit(c, kind)
        PROVE  Truthful'
    BY <2>2, SubmitTruth DEF CallKinds
  <2> QED  BY <1>1, <2>1, <2>2, ClosingTruth DEF Loop
<1>2. CASE UNCHANGED asyncVars
  <2>1. TypeOK' /\ LedgerTold'
    BY <1>2, TablesUntouched, ToldUntouched DEF asyncVars, Truthful, AsyncTypes, TypeOK
  <2> QED  BY <1>2, <2>1, AsideTruth DEF asyncVars, Truthful, AsyncTypes
<1> QED  BY <1>1, <1>2, StartTruth, FinishTruth, OthersTruth DEF AsyncNext

(* The ledger, read by id, accounts for every row, whatever coroutines are *)
(* cancelled and whatever command lines do beside them.                    *)
THEOREM AsyncLedgerTells == AsyncSpec => []LedgerDeterminesRow
<1>1. Truthful => LedgerDeterminesRow
  BY ToldIsDetermined DEF Truthful, LedgerTold
<1> QED  BY <1>1, InitTruthful, TruthKept, PTL DEF AsyncSpec

(* AsyncQueue.close returns only when the connection is closed and nobody  *)
(* waits for a call any more, whatever was submitted while it was closing  *)
(* and whatever was cancelled, also when close itself was.                 *)
THEOREM CloseAnswers == AsyncSpec => []CloseAnswersAll
<1>1. Truthful => CloseAnswersAll
  BY DEF Truthful, CloseInOrder, CloseAnswersAll
<1> QED  BY <1>1, InitTruthful, TruthKept, PTL DEF AsyncSpec
-----------------------------------------------------------------------------
(* As long as nobody is cancelled *)

LEMMA InitSynchronous == AsyncInit => Synchronous
<1> SUFFICES ASSUME AsyncInit PROVE Synchronous  OBVIOUS
<1>1. /\ DOMAIN jobs = {} /\ thread = NoJob /\ events = {}
      /\ \A w \in Workers : proc[w] = Idle
      /\ \A t \in Tasks : tasks[t].status # "claimed"
  BY DEF AsyncInit, CliInit, Init, NoRow
<1>2. InStep(thread) /\ OneCallEach
  BY <1>1, IdleThread, IdleIsNoCall DEF InStep, OneCallEach
<1>3. LedgerAlternates
  BY <1>1 DEF LedgerAlternates
<1>4. ExclusiveClaims
  BY <1>1, Procs, TasksAssumption DEF ExclusiveClaims, Holds
<1> QED  BY <1>1, <1>2, <1>3, <1>4 DEF Synchronous

(* A step that leaves tables and handles alone has only the calls to keep. *)
LEMMA TablesStill ==
  ASSUME Synchronous, UNCHANGED <<db, proc>>
  PROVE  /\ LedgerAlternates' /\ ExclusiveClaims'
         /\ \A t \in Tasks : tasks'[t].status = "claimed" => \E c \in Workers : Holds(c, t)'
<1>1. LedgerAlternates'
  BY DEF Synchronous, LedgerAlternates, History, db
<1>2. ExclusiveClaims'
  BY DEF Synchronous, ExclusiveClaims, Holds, db
<1>3. \A t \in Tasks : tasks'[t].status = "claimed" => \E c \in Workers : Holds(c, t)'
  BY DEF Synchronous, Holds, db
<1> QED  BY <1>1, <1>2, <1>3

(* A coroutine that waits for nothing yet asks for something.              *)
LEMMA SubmitSync ==
  ASSUME Truthful, Synchronous, NEW c \in Workers, NEW kind \in CallKinds, Submit(c, kind)
  PROVE  Synchronous'
<1> DEFINE job == [co |-> c, kind |-> kind, task |-> proc[c].task, heard |-> TRUE]
           n   == Len(jobs) + 1
<1>1. /\ proc[c].pc = (IF kind = "claim" THEN "idle" ELSE "working")
      /\ jobs' = Append(jobs, job) /\ waiting' = waiting \cup {c} /\ c \notin waiting
      /\ UNCHANGED <<db, proc, thread>>
  BY DEF Submit
<1>2. proc[c] = Idle \/ \E t \in Tasks : proc[c] = Working(t)
  BY DEF Truthful, AsyncTypes
<1>3. job \in Job /\ proc[c] = IF kind = "claim" THEN Idle ELSE Working(job.task)
  <2>1. proc[c].task \in Tasks \cup {None}
    BY <1>2, Procs
  <2>2. proc[c] = IF kind = "claim" THEN Idle ELSE Working(proc[c].task)
    BY <1>1, <1>2, Procs
  <2> QED  BY <2>1, <2>2 DEF Job
<1>4. job.co = c /\ job.kind = kind /\ job.heard
  OBVIOUS
<1> HIDE DEF job
<1>5. jobs \in Seq(Job) /\ \A i \in DOMAIN jobs : WellCalled(jobs[i])
  BY DEF Truthful, AsyncTypes
<1>6. /\ DOMAIN jobs' = DOMAIN jobs \cup {n} /\ n \notin DOMAIN jobs
      /\ jobs'[n] = job /\ \A i \in DOMAIN jobs : jobs'[i] = jobs[i]
  BY <1>1, <1>3, <1>5, Appending
<1> HIDE DEF n
<1>7. \A i \in DOMAIN jobs : InStep(jobs[i]) /\ jobs[i].co # c
  <2> TAKE i \in DOMAIN jobs
  <2>1. InStep(jobs[i]) /\ WellCalled(jobs[i])
    BY <1>5 DEF Synchronous
  <2> QED  BY <1>1, <2>1, AgentsAssumption DEF InStep, WellCalled
<1>8. InStep(thread) /\ (thread.kind \in CallKinds => thread.co # c)
  BY <1>1 DEF Synchronous, InStep
<1>9. (\A i \in DOMAIN jobs : InStep(jobs[i]))'
  BY <1>1, <1>3, <1>4, <1>6, <1>7 DEF InStep
<1>10. InStep(thread)'
  BY <1>1, <1>8 DEF InStep
<1>11. OneCallEach'
  <2>1. OneCallEach
    BY DEF Synchronous
  <2> QED  BY <1>1, <1>4, <1>6, <1>7, <1>8, <2>1 DEF OneCallEach
<1> QED  BY <1>1, <1>9, <1>10, <1>11, TablesStill DEF Synchronous

LEMMA StartSync ==
  ASSUME Truthful, Synchronous, Start
  PROVE  Synchronous'
<1>1. /\ jobs # <<>> /\ thread' = Begun(Head(jobs)) /\ jobs' = Tail(jobs)
      /\ UNCHANGED <<db, proc, waiting>>
  BY DEF Start
<1>2. jobs \in Seq(Job) /\ \A i \in DOMAIN jobs : WellCalled(jobs[i])
  BY DEF Truthful, AsyncTypes
<1>3. /\ 1 \in DOMAIN jobs /\ Head(jobs) = jobs[1]
      /\ \A i \in DOMAIN jobs' : /\ i + 1 \in DOMAIN jobs /\ i + 1 # 1 /\ i \in Int
                                 /\ jobs'[i] = jobs[i + 1]
  <2>1. Tail(jobs) \in Seq(Job)
    BY <1>1, <1>2
  <2>2. \A i \in DOMAIN Tail(jobs) : i \in Int
    BY <2>1
  <2> QED  BY <1>1, <1>2, <2>2, Beheaded
<1>4. /\ thread'.co = jobs[1].co /\ thread'.kind = jobs[1].kind
      /\ thread'.task = jobs[1].task /\ thread'.heard = jobs[1].heard
  BY <1>1, <1>3 DEF Begun
<1>5. \A i \in DOMAIN jobs : InStep(jobs[i])
  BY DEF Synchronous
<1>6. (\A i \in DOMAIN jobs : InStep(jobs[i]))'
  BY <1>1, <1>3, <1>5 DEF InStep
<1>7. InStep(thread)'
  BY <1>1, <1>3, <1>4, <1>5 DEF InStep
<1>8. OneCallEach'
  <2>1. ASSUME NEW i \in DOMAIN jobs', NEW j \in DOMAIN jobs',
               jobs'[i].kind \in CallKinds, jobs'[i].co = jobs'[j].co
        PROVE  i = j
    <3>1. i + 1 = j + 1
      BY <1>3, <2>1 DEF Synchronous, OneCallEach
    <3> QED  BY <1>3, <3>1
  <2>2. ASSUME NEW i \in DOMAIN jobs', thread'.kind \in CallKinds
        PROVE  jobs'[i].co # thread'.co
    BY <1>3, <1>4, <2>2 DEF Synchronous, OneCallEach
  <2> QED  BY <2>1, <2>2 DEF OneCallEach
<1> QED  BY <1>1, <1>6, <1>7, <1>8, TablesStill DEF Synchronous

(* The call that runs is the only one of its coroutine: when it comes back *)
(* the others are still in step.                                           *)
LEMMA ReturnSync ==
  ASSUME Truthful, Synchronous, thread.kind \in CallKinds, NEW handle,
         handle = Idle \/ \E t \in Tasks : handle = Working(t), Return(handle),
         UNCHANGED jobs
  PROVE  /\ thread.heard /\ thread.co \in Workers
         /\ proc[thread.co] = IF thread.kind = "claim" THEN Idle ELSE Working(thread.task)
         /\ proc' \in [Workers -> Proc]
         /\ \A c \in Workers : proc'[c] = IF c = thread.co THEN handle ELSE proc[c]
         /\ (\A i \in DOMAIN jobs : InStep(jobs[i]))'
         /\ InStep(thread)' /\ OneCallEach'
<1>1. /\ thread.heard
      /\ proc[thread.co] = IF thread.kind = "claim" THEN Idle ELSE Working(thread.task)
  BY DEF Synchronous, InStep
<1>2. /\ thread.co \in Workers /\ thread' = NoJob /\ proc' \in [Workers -> Proc]
      /\ \A c \in Workers : proc'[c] = IF c = thread.co THEN handle ELSE proc[c]
      /\ waiting' = waiting \ {thread.co} /\ waiting \subseteq Workers
  BY <1>1, Returned DEF Truthful, AsyncTypes
<1>3. \A i \in DOMAIN jobs : InStep(jobs[i]) /\ jobs[i].co # thread.co
  BY DEF Synchronous, OneCallEach
<1>4. (\A i \in DOMAIN jobs : InStep(jobs[i]))'
  BY <1>2, <1>3 DEF InStep
<1>5. InStep(thread)' /\ OneCallEach'
  BY <1>2, IdleThread, IdleIsNoCall DEF Synchronous, InStep, OneCallEach
<1> QED  BY <1>1, <1>2, <1>4, <1>5

LEMMA RunClaimSync ==
  ASSUME Truthful, Synchronous, NEW t \in Tasks, RunClaim(t), UNCHANGED jobs
  PROVE  Synchronous'
<1> DEFINE co == thread.co
           a == AgentOf[thread.co]
           now == thread.now
<1>1. /\ thread.kind = "claim" /\ t \in First(Eligible(a, now))
      /\ tasks' = [tasks EXCEPT ![t] = Claimed(tasks[t], a, now)]
      /\ Log(t, "claim", now, a, None) /\ Return(Working(t))
  BY DEF RunClaim, Truthful, AsyncTypes, TypeOK
<1>2. thread.kind \in CallKinds /\ tasks[t].status = "queued"
  BY <1>1 DEF CallKinds, First, Eligible
<1>3. /\ co \in Workers
      /\ \A c \in Workers : proc'[c] = IF c = co THEN Working(t) ELSE proc[c]
      /\ (\A i \in DOMAIN jobs : InStep(jobs[i]))'
      /\ InStep(thread)' /\ OneCallEach'
  BY <1>1, <1>2, ReturnSync
<1>4. LedgerAlternates'
  <2>1. RowTold(t)
    BY <1>2 DEF Truthful, LedgerTold, Exists
  <2>2. History(t) = {} \/ StatusAfter(LatestOf(History(t))) = "queued"
    BY <1>2, <2>1 DEF RowTold
  <2> QED  BY <1>1, <2>2, AlternatesKept DEF Truthful, Synchronous
<1>5. /\ tasks'[t].status = "claimed" /\ tasks'[t].claimedBy = AgentOf[co]
      /\ \A u \in Tasks : u # t => tasks'[u] = tasks[u]
  BY <1>1 DEF Claimed, Truthful, AsyncTypes, TypeOK, Row
<1>6. \A w \in Workers : ~Holds(w, t)
  BY <1>2 DEF Synchronous, ExclusiveClaims
<1>7. \A w \in Workers, u \in Tasks : Holds(w, u)' <=> (w = co /\ u = t) \/ (w # co /\ Holds(w, u))
  BY <1>3, Procs DEF Holds
<1>8. \A u \in Tasks : ~Holds(co, u)
  BY <1>1, <1>2, ReturnSync, Procs, TasksAssumption DEF Holds
<1> HIDE DEF co, a, now
<1>9. ExclusiveClaims'
  <2> SUFFICES ASSUME NEW w \in Workers, NEW u \in Tasks, Holds(w, u)'
               PROVE  /\ tasks'[u].status = "claimed" /\ tasks'[u].claimedBy = AgentOf[w]
                      /\ \A v \in Workers : Holds(v, u)' => v = w
    BY DEF ExclusiveClaims
  <2>1. CASE u = t
    BY <1>5, <1>6, <1>7, <2>1
  <2>2. CASE u # t
    BY <1>5, <1>7, <2>2 DEF Synchronous, ExclusiveClaims
  <2> QED  BY <2>1, <2>2
<1>10. \A u \in Tasks : tasks'[u].status = "claimed" => \E c \in Workers : Holds(c, u)'
  <2> TAKE u \in Tasks
  <2> HAVE tasks'[u].status = "claimed"
  <2>1. CASE u = t
    BY <1>3, <1>7, <2>1
  <2>2. CASE u # t
    BY <1>5, <1>7, <1>8, <2>2 DEF Synchronous
  <2> QED  BY <2>1, <2>2
<1> QED  BY <1>3, <1>4, <1>9, <1>10 DEF Synchronous

LEMMA RunSettleSync ==
  ASSUME Truthful, Synchronous, RunSettle, UNCHANGED jobs
  PROVE  Synchronous'
<1> DEFINE co == thread.co
           t == thread.task
           a == AgentOf[thread.co]
           sig == tasks[thread.task].sig
           kind == thread.kind
           now == thread.now
           verdict == thread.verdict
<1>1. kind \in SettleKinds /\ Settle(t, a, sig, kind, now, verdict) /\ Return(Idle)
  BY DEF RunSettle
<1>2. kind \in CallKinds /\ kind # "claim"
  BY <1>1 DEF CallKinds, SettleKinds
<1>3. /\ co \in Workers /\ proc[co] = Working(t)
      /\ \A c \in Workers : proc'[c] = IF c = co THEN Idle ELSE proc[c]
      /\ (\A i \in DOMAIN jobs : InStep(jobs[i]))'
      /\ InStep(thread)' /\ OneCallEach'
  BY <1>1, <1>2, ReturnSync
<1>4. t \in Tasks /\ (kind = "fail" => verdict \in {"queued", "failed"})
  BY <1>1 DEF Truthful, AsyncTypes, WellCalled
<1>5. Holds(co, t)
  BY <1>3, <1>4, Procs DEF Holds
<1>6. /\ tasks[t].status = "claimed" /\ tasks[t].claimedBy = AgentOf[co]
      /\ \A v \in Workers : Holds(v, t) => v = co
  BY <1>3, <1>4, <1>5 DEF Synchronous, ExclusiveClaims
<1>7. a = AgentOf[co]
  OBVIOUS
<1> HIDE DEF co, t, a, sig, kind, now, verdict
<1>8. LedgerAlternates'
  <2>1. /\ History(t) # {} /\ LatestOf(History(t)).kind = "claim"
        /\ LatestOf(History(t)).agent = a
    BY <1>4, <1>6, <1>7, ClaimedByLatest DEF Truthful
  <2>2. Log(t, kind, now, a, verdict)
    BY <1>1 DEF Settle
  <2> QED  BY <1>2, <1>4, <2>1, <2>2, AlternatesKept DEF Truthful, Synchronous
<1>9. tasks'[t].status # "claimed" /\ \A u \in Tasks : u # t => tasks'[u] = tasks[u]
  <2>1. tasks \in [Tasks -> Row] /\ tasks[t] \in Row
    BY <1>4 DEF Truthful, AsyncTypes, TypeOK
  <2>2. tasks' = [tasks EXCEPT ![t] = Settled(tasks[t], kind, now, verdict)]
    BY <1>1, <1>4, <2>1 DEF Settle
  <2>3. Settled(tasks[t], kind, now, verdict).status # "claimed"
    BY <2>1 DEF Settled, Requeued, Row
  <2> QED  BY <1>4, <2>1, <2>2, <2>3
<1>10. \A w \in Workers, u \in Tasks : Holds(w, u)' <=> w # co /\ Holds(w, u)
  BY <1>3, Procs, TasksAssumption DEF Holds
<1>11. \A u \in Tasks : Holds(co, u) => u = t
  BY <1>3, <1>4, Procs DEF Holds
<1>12. ExclusiveClaims'
  <2> SUFFICES ASSUME NEW w \in Workers, NEW u \in Tasks, Holds(w, u)'
               PROVE  /\ tasks'[u].status = "claimed" /\ tasks'[u].claimedBy = AgentOf[w]
                      /\ \A v \in Workers : Holds(v, u)' => v = w
    BY DEF ExclusiveClaims
  <2>1. w # co /\ Holds(w, u) /\ u # t
    BY <1>6, <1>10
  <2> QED  BY <1>9, <1>10, <2>1 DEF Synchronous, ExclusiveClaims
<1>13. \A u \in Tasks : tasks'[u].status = "claimed" => \E c \in Workers : Holds(c, u)'
  BY <1>9, <1>10, <1>11 DEF Synchronous
<1> QED  BY <1>3, <1>8, <1>12, <1>13 DEF Synchronous

LEMMA FinishSync ==
  ASSUME Truthful, Synchronous, Finish
  PROVE  Synchronous'
<1>1. UNCHANGED jobs /\ thread.kind # "idle"
  BY DEF Finish
<1>2. ASSUME NEW handle, handle = proc[thread.co], Return(handle), UNCHANGED db,
             thread.kind \in CallKinds
      PROVE  Synchronous'
  <2>1. thread.co \in Workers
    BY <1>2 DEF Truthful, AsyncTypes, Running, WellCalled
  <2>2. handle = Idle \/ \E t \in Tasks : handle = Working(t)
    BY <1>2, <2>1 DEF Truthful, AsyncTypes
  <2>3. /\ \A c \in Workers : proc'[c] = IF c = thread.co THEN handle ELSE proc[c]
        /\ proc' \in [Workers -> Proc] /\ proc \in [Workers -> Proc]
        /\ (\A i \in DOMAIN jobs : InStep(jobs[i]))'
        /\ InStep(thread)' /\ OneCallEach'
    BY <1>1, <1>2, <2>2, ReturnSync DEF Truthful, AsyncTypes, TypeOK
  <2>4. UNCHANGED proc
    BY <1>2, <2>3
  <2> QED  BY <1>2, <2>3, <2>4, TablesStill DEF Synchronous
<1>3. CASE \E t \in Tasks : RunClaim(t)
  BY <1>1, <1>3, RunClaimSync
<1>4. CASE RunClaimNone
  <2>1. thread.kind \in CallKinds /\ proc[thread.co] = Idle
    BY <1>4 DEF RunClaimNone, CallKinds, Synchronous, InStep
  <2> QED  BY <1>2, <1>4, <2>1 DEF RunClaimNone
<1>5. CASE RunSettle
  BY <1>1, <1>5, RunSettleSync
<1>6. CASE RunRaises
  <2>1. thread.kind \in CallKinds
    BY <1>1, <1>6 DEF RunRaises, Truthful, AsyncTypes, Running
  <2> QED  BY <1>2, <1>6, <2>1 DEF RunRaises
<1>7. CASE RunClose
  <2>1. thread' = NoJob /\ UNCHANGED <<db, proc, waiting>>
    BY <1>7 DEF RunClose
  <2>2. (\A i \in DOMAIN jobs : InStep(jobs[i]))'
    BY <1>1, <2>1 DEF Synchronous, InStep
  <2>3. InStep(thread)' /\ OneCallEach'
    BY <1>1, <2>1, IdleThread, IdleIsNoCall DEF Synchronous, InStep, OneCallEach
  <2> QED  BY <2>1, <2>2, <2>3, TablesStill DEF Synchronous
<1> QED  BY <1>3, <1>4, <1>5, <1>6, <1>7 DEF Finish

LEMMA CloseSync ==
  ASSUME Truthful, Synchronous, CloseCall
  PROVE  Synchronous'
<1>1. jobs' = Append(jobs, CloseJob) /\ UNCHANGED <<db, proc, thread, waiting>>
  BY DEF CloseCall
<1>2. jobs \in Seq(Job) /\ thread \in Running /\ WellCalled(thread)
      /\ \A i \in DOMAIN jobs : WellCalled(jobs[i])
  BY DEF Truthful, AsyncTypes
<1>3. PICK n : /\ DOMAIN jobs' = DOMAIN jobs \cup {n} /\ jobs'[n] = CloseJob
               /\ \A i \in DOMAIN jobs : jobs'[i] = jobs[i]
  BY <1>1, <1>2, ClosingJob, Appending
<1>4. CloseJob.co = None /\ CloseJob.kind \notin CallKinds
  BY IdleIsNoCall DEF CloseJob
<1>5. (\A i \in DOMAIN jobs : InStep(jobs[i]))'
  BY <1>1, <1>3, <1>4 DEF Synchronous, InStep
<1>6. InStep(thread)'
  BY <1>1 DEF Synchronous, InStep
<1>7. OneCallEach'
  BY <1>1, <1>2, <1>3, <1>4 DEF Synchronous, OneCallEach, WellCalled
<1> QED  BY <1>1, <1>5, <1>6, <1>7, TablesStill DEF Synchronous

(* What leaves calls, handles and tables alone, and a new task.            *)
LEMMA AsideSync ==
  ASSUME Synchronous, UNCHANGED <<jobs, thread, waiting, proc>>,
         UNCHANGED db \/ (Truthful /\ Posting)
  PROVE  Synchronous'
<1>1. /\ (\A i \in DOMAIN jobs : InStep(jobs[i]))'
      /\ InStep(thread)' /\ OneCallEach'
  BY DEF Synchronous, InStep, OneCallEach
<1>2. CASE UNCHANGED db
  BY <1>1, <1>2, TablesStill DEF Synchronous
<1>3. CASE Truthful /\ Posting
  <2>1. PICK t \in Tasks, type \in TaskTypes, sigArg \in Signatures \cup {None},
             prio \in Priorities, limit \in AttemptLimits, created \in 0 .. clock :
               Post(t, type, sigArg, prio, limit, created)
    BY <1>3 DEF Posting
  <2>2. /\ tasks[t].status = "absent" /\ tasks'[t].status = "queued"
        /\ \A u \in Tasks : u # t => tasks'[u] = tasks[u]
        /\ UNCHANGED events
    BY <1>3, <2>1 DEF Post, NewRow, Exists, Truthful, AsyncTypes, TypeOK
  <2>3. LedgerAlternates'
    BY <2>2 DEF Synchronous, LedgerAlternates, History
  <2>4. \A w \in Workers : ~Holds(w, t)
    BY <2>2 DEF Synchronous, ExclusiveClaims
  <2>5. ExclusiveClaims'
    <3>1. \A w \in Workers, u \in Tasks : Holds(w, u)' <=> Holds(w, u)
      BY DEF Holds
    <3> QED  BY <2>2, <2>4, <3>1 DEF Synchronous, ExclusiveClaims
  <2>6. \A u \in Tasks : tasks'[u].status = "claimed" => \E c \in Workers : Holds(c, u)'
    BY <2>2 DEF Synchronous, Holds
  <2> QED  BY <1>1, <2>3, <2>5, <2>6 DEF Synchronous
<1> QED  BY <1>2, <1>3

LEMMA AsyncInvKept == AsyncInv /\ [AsyncNext]_asyncVars => AsyncInv'
<1> SUFFICES ASSUME AsyncInv, [AsyncNext]_asyncVars PROVE AsyncInv'
  OBVIOUS
<1>1. Truthful /\ Truthful'
  BY TruthKept DEF AsyncInv, Truthful
<1>2. ASSUME ~stray' PROVE Synchronous'
  <2>1. ASSUME ~stray PROVE Synchronous
    BY <2>1 DEF AsyncInv
  <2>2. CASE Loop
    <3>1. ASSUME NEW c \in Workers, NEW kind \in {"claim"} \cup SettleKinds, Submit(c, kind)
          PROVE  Synchronous'
      <4>1. ~stray
        BY <1>2, <3>1 DEF Submit
      <4> QED  BY <1>1, <2>1, <3>1, <4>1, SubmitSync DEF CallKinds
    <3>2. CASE CloseCall
      BY <1>1, <1>2, <2>1, <3>2, CloseSync DEF CloseCall
    <3>3. CASE CloseAgain \/ BeginShutdown \/ EndShutdown
      BY <1>2, <2>1, <3>3, AsideSync
         DEF CloseAgain, BeginShutdown, EndShutdown, asyncVars, async
    <3>4. ~CancelClose /\ \A c \in Workers : ~Cancel(c)
      BY <1>2 DEF CancelClose, Cancel
    <3> QED  BY <2>2, <3>1, <3>2, <3>3, <3>4 DEF Loop
  <2>3. CASE Start
    BY <1>1, <1>2, <2>1, <2>3, StartSync DEF Start
  <2>4. CASE Finish
    BY <1>1, <1>2, <2>1, <2>4, FinishSync DEF Finish
  <2>5. CASE Others
    <3>1. /\ ~stray /\ (Tick \/ Posting) /\ UNCHANGED async
      BY <1>2, <2>5 DEF Others
    <3>2. UNCHANGED <<jobs, thread, waiting, proc>>
      BY <3>1 DEF async, Tick, Posting, Post
    <3> QED  BY <1>1, <2>1, <3>1, <3>2, AsideSync DEF Tick
  <2>6. CASE UNCHANGED asyncVars
    BY <1>2, <2>1, <2>6, AsideSync DEF asyncVars, async
  <2> QED  BY <2>2, <2>3, <2>4, <2>5, <2>6 DEF AsyncNext
<1> QED  BY <1>1, <1>2 DEF AsyncInv, Truthful

(* "Semantics are identical": without a cancellation (and without command  *)
(* lines) the calls of aio.py leave the ledger and the claims as the       *)
(* synchronous ones do, whatever they overlap with, also around a close.   *)
THEOREM AsSynchronous == AsyncSpec => []SyncUnlessCancelled
<1>1. AsyncInit => AsyncInv
  BY InitTruthful, InitSynchronous DEF AsyncInv, Truthful
<1>2. AsyncInv => SyncUnlessCancelled
  <2> SUFFICES ASSUME Synchronous, NEW t \in Tasks, tasks[t].status = "claimed"
               PROVE  Cardinality({c \in Workers : Holds(c, t)}) = 1
    BY DEF AsyncInv, SyncUnlessCancelled, Synchronous
  <2>1. PICK c \in Workers : Holds(c, t)
    BY DEF Synchronous
  <2>2. {b \in Workers : Holds(b, t)} = {c}
    BY <2>1 DEF Synchronous, ExclusiveClaims
  <2> QED  BY <2>2, FS_Singleton
<1> QED  BY <1>1, <1>2, AsyncInvKept, PTL DEF AsyncSpec
=============================================================================
