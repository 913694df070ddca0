---------------------------- MODULE StreamProofs ----------------------------
(***************************************************************************)
(* Theorems about the event stream: what a client gets over any number of  *)
(* connections, for all batch and event limits, purges and filters.        *)
(***************************************************************************)
EXTENDS Stream, FiniteSetTheorems, TLAPS

(* ORDER BY id ASC LIMIT n: as every id is another, the number of lower    *)
(* ones is a position, and every position is taken.                        *)
LEMMA Positions ==
  ASSUME NEW rows, IsFiniteSet(rows), \A e \in rows : e.id \in Nat,
         \A d, e \in rows : d.id = e.id => d = e
  PROVE  /\ Cardinality(rows) \in Nat
         /\ \A i \in 1 .. Cardinality(rows) : \E e \in rows :
              Cardinality({d \in rows : d.id < e.id}) = i - 1
         /\ \A d, e \in rows : d.id < e.id <=>
              Cardinality({x \in rows : x.id < d.id}) < Cardinality({x \in rows : x.id < e.id})
  <1> DEFINE Below(e) == {d \in rows : d.id < e.id}
             N == Cardinality(rows)
  <1>1. N \in Nat
    BY FS_CardinalityType
  <1>2. ASSUME NEW e \in rows
        PROVE  /\ IsFiniteSet(Below(e))
               /\ Cardinality(Below(e)) \in Nat /\ Cardinality(Below(e)) < N
    <2>1. Below(e) \in SUBSET rows /\ e \notin Below(e)
      OBVIOUS
    <2>2. /\ IsFiniteSet(Below(e)) /\ Cardinality(Below(e)) <= N
          /\ N # Cardinality(Below(e))
      BY <2>1, FS_Subset
    <2>3. Cardinality(Below(e)) \in Nat
      BY <2>2, FS_CardinalityType
    <2> QED BY <1>1, <2>2, <2>3
  <1>3. ASSUME NEW d \in rows, NEW e \in rows, d.id < e.id
        PROVE  Cardinality(Below(d)) < Cardinality(Below(e))
    <2>1. Below(d) \in SUBSET Below(e) /\ d \in Below(e) /\ d \notin Below(d)
      BY <1>3
    <2>2. /\ Cardinality(Below(d)) <= Cardinality(Below(e))
          /\ Cardinality(Below(d)) # Cardinality(Below(e))
      BY <1>2, <2>1, FS_Subset
    <2>3. Cardinality(Below(d)) \in Nat /\ Cardinality(Below(e)) \in Nat
      BY <1>2
    <2> HIDE DEF Below
    <2> QED BY <2>2, <2>3
  <1> HIDE DEF N, Below
  <1> DEFINE rank == [e \in rows |-> Cardinality(Below(e))]
  <1>4. \A e \in rows : rank[e] = Cardinality(Below(e)) /\ rank[e] \in 0 .. N - 1
    BY <1>1, <1>2
  <1>5. \A d, e \in rows : d.id < e.id => rank[d] < rank[e]
    BY <1>3, <1>4
  <1>6. rank \in [rows -> 0 .. N - 1]
    BY <1>1, <1>2
  <1> HIDE DEF rank
  <1>7. \A d, e \in rows : rank[d] = rank[e] => d = e
    BY <1>4, <1>5
  <1>8. rank \in Injection(rows, 0 .. N - 1)
    BY <1>6, <1>7 DEF Injection, IsInjective
  <1>9. IsFiniteSet(0 .. N - 1) /\ Cardinality(0 .. N - 1) = N
    BY <1>1, FS_Interval
  <1>10. rank \in Surjection(rows, 0 .. N - 1)
    BY <1>8, <1>9, FS_Injection DEF N
  <1>11. \A i \in 1 .. N : \E e \in rows : rank[e] = i - 1
    BY <1>1, <1>10 DEF Surjection
  <1>12. \A d, e \in rows : d.id < e.id <=> rank[d] < rank[e]
    BY <1>4, <1>5
  <1> QED BY <1>1, <1>4, <1>11, <1>12 DEF N, Below

LEMMA LowestRows ==
  ASSUME NEW rows, IsFiniteSet(rows), \A e \in rows : e.id \in Nat,
         \A d, e \in rows : d.id = e.id => d = e, NEW n \in Nat \ {0}
  PROVE  LET s == Lowest(rows, n) IN
         /\ s \in Seq(rows)
         /\ \A i, j \in DOMAIN s : i < j => s[i].id < s[j].id
         /\ \A e \in rows : e \in Range(s) \/ \A i \in DOMAIN s : s[i].id < e.id
  <1> DEFINE Pos(e) == Cardinality({d \in rows : d.id < e.id})
             len == Min({Cardinality(rows), n})
             s == Lowest(rows, n)
  <1>1. /\ Cardinality(rows) \in Nat
        /\ \A i \in 1 .. Cardinality(rows) : \E e \in rows : Pos(e) = i - 1
        /\ \A d, e \in rows : d.id < e.id <=> Pos(d) < Pos(e)
    BY Positions
  <1>2. len \in Nat /\ len <= Cardinality(rows) /\ (len = n \/ len = Cardinality(rows))
    BY <1>1 DEF Min
  <1>3. s = [i \in 1 .. len |-> CHOOSE e \in rows : Pos(e) = i - 1]
    BY DEF Lowest
  <1>4. \A e \in rows : Pos(e) \in Nat
    BY FS_Subset, FS_CardinalityType
  <1> HIDE DEF Pos, len, s
  <1>5. ASSUME NEW i \in 1 .. len PROVE s[i] \in rows /\ Pos(s[i]) = i - 1
    <2>0. i \in 1 .. Cardinality(rows)
      BY <1>1, <1>2
    <2>1. \E e \in rows : Pos(e) = i - 1
      BY <1>1, <2>0
    <2>2. s[i] = CHOOSE e \in rows : Pos(e) = i - 1
      BY <1>3
    <2> QED BY <2>1, <2>2
  <1>6. s \in Seq(rows) /\ DOMAIN s = 1 .. len
    BY <1>2, <1>3, <1>5
  <1>7. \A i, j \in 1 .. len : i < j => s[i].id < s[j].id
    BY <1>1, <1>2, <1>5
  <1>8. ASSUME NEW e \in rows, e \notin Range(s), NEW i \in 1 .. len PROVE s[i].id < e.id
    <2>1. Pos(e) \notin 0 .. len - 1
      <3>1. ASSUME Pos(e) \in 0 .. len - 1 PROVE FALSE
        <4>1. PICK j \in 1 .. len : Pos(e) = j - 1
          BY <1>2, <1>4, <3>1
        <4>2. s[j] \in rows /\ Pos(s[j]) = Pos(e)
          BY <1>5, <4>1
        <4>3. ~(s[j].id < e.id) /\ ~(e.id < s[j].id)
          BY <1>1, <1>4, <4>2
        <4>4. s[j].id = e.id
          BY <4>2, <4>3
        <4>5. s[j] = e
          BY <4>2, <4>4
        <4> QED BY <1>6, <1>8, <4>5 DEF Range
      <3> QED BY <3>1
    <2>2. Pos(s[i]) < Pos(e)
      BY <1>2, <1>4, <1>5, <2>1
    <2> QED BY <1>1, <1>5, <2>2
  <1> QED BY <1>6, <1>7, <1>8 DEF s
-----------------------------------------------------------------------------
(* What holds of the tables, the generator and the client                  *)

EventRow == [id: Nat, task: Tasks, kind: Kinds, nth: Nat]

StreamTypes ==
  /\ lastId \in Nat /\ appends \in Nat
  /\ ledger \subseteq EventRow /\ IsFiniteSet(ledger)
  /\ received \in Seq(EventRow)
  /\ conn \in [pc: {"ended", "poll", "yield", "idle"}, cursor: Nat, batch: Seq(EventRow),
               emitted: Nat, idle: Nat, quiet: Nat]

(* The events there are and those that are copies by now: an id is used    *)
(* once, and ids are drawn in the order of the appends.                    *)
Known == ledger \cup Range(conn.batch) \cup Range(received)

IdsInOrder ==
  /\ \A e \in Known : 0 < e.id /\ e.id <= lastId /\ e.nth <= appends
  /\ \A d, e \in Known : (d.id = e.id => d = e) /\ (d.id < e.id => d.nth < e.nth)

(* The batch in hand continues what the client has, without a gap.         *)
BatchContinues ==
  /\ conn.pc # "ended" => conn.cursor = LastSeen
  /\ conn.pc = "yield" =>
       /\ conn.batch # <<>>
       /\ \A i \in DOMAIN conn.batch :
            conn.batch[i].kind \in Wanted /\ LastSeen < conn.batch[i].id
       /\ \A i, j \in DOMAIN conn.batch : i < j => conn.batch[i].id < conn.batch[j].id
       /\ \A e \in ledger : e.kind \in Wanted /\ LastSeen < e.id =>
            e \in Range(conn.batch) \/ \A i \in DOMAIN conn.batch : conn.batch[i].id < e.id

StreamInv ==
  /\ StreamTypes
  /\ IdsInOrder
  /\ BatchContinues
  /\ NothingSkipped
  /\ InLedgerOrder
  /\ NeverSilentForLong

LEMMA KnownRows ==
  ASSUME StreamTypes PROVE Known \subseteq EventRow
  <1>1. conn.batch \in Seq(EventRow) /\ received \in Seq(EventRow) /\ ledger \subseteq EventRow
    BY DEF StreamTypes
  <1>2. \A s \in Seq(EventRow) : Range(s) \subseteq EventRow
    BY DEF Range
  <1> QED BY <1>1, <1>2 DEF Known

LEMMA LastSeenBounds ==
  ASSUME StreamTypes, IdsInOrder PROVE LastSeen \in Nat /\ LastSeen <= lastId
  <1>1. CASE received = <<>>
    BY <1>1 DEF LastSeen, StreamTypes
  <1>2. CASE received # <<>>
    <2>1. Len(received) \in DOMAIN received /\ LastSeen = received[Len(received)].id
      BY <1>2 DEF LastSeen, Last, StreamTypes
    <2>2. received[Len(received)] \in Known /\ received[Len(received)] \in EventRow
      BY <2>1 DEF Known, Range, StreamTypes
    <2> QED BY <2>1, <2>2 DEF IdsInOrder, EventRow
  <1> QED BY <1>1, <1>2

LEMMA InitStream == Init => StreamInv
  <1> SUFFICES ASSUME Init PROVE StreamInv
    OBVIOUS
  <1>1. StreamTypes
    BY FS_EmptySet DEF Init, StreamTypes, Ended
  <1>2. Known = {}
    BY DEF Init, Ended, Known, Range
  <1>3. NeverSilentForLong
    BY StreamAssumption DEF Init, Ended, NeverSilentForLong
  <1> QED BY <1>1, <1>2, <1>3
          DEF Init, Ended, StreamInv, IdsInOrder, BatchContinues, NothingSkipped, InLedgerOrder

LEMMA AppendKept ==
  ASSUME StreamInv, NEW t \in Tasks, NEW k \in Kinds, AppendEvent(t, k) PROVE StreamInv'
  <1> DEFINE n == [id |-> lastId + 1, task |-> t, kind |-> k, nth |-> appends + 1]
  <1>1. /\ ledger' = ledger \cup {n} /\ lastId' = lastId + 1 /\ appends' = appends + 1
        /\ conn' = conn /\ received' = received
    BY DEF AppendEvent, NextId
  <1>2. n.id = lastId + 1 /\ n.nth = appends + 1 /\ n \in EventRow
    BY DEF StreamInv, StreamTypes, EventRow
  <1> HIDE DEF n
  <1>3. StreamTypes'
    BY <1>1, <1>2, FS_AddElement DEF StreamInv, StreamTypes
  <1>4. Known' = Known \cup {n} /\ LastSeen' = LastSeen
    BY <1>1 DEF Known, LastSeen
  <1>5. \A e \in Known : e.id \in Nat /\ e.nth \in Nat
    BY KnownRows DEF StreamInv, EventRow
  <1>6. IdsInOrder'
    BY <1>1, <1>2, <1>4, <1>5 DEF StreamInv, StreamTypes, IdsInOrder
  <1>7. LastSeen \in Nat /\ LastSeen <= lastId /\ lastId \in Nat
    BY LastSeenBounds DEF StreamInv, StreamTypes
  <1>8. BatchContinues'
    <2>1. \A i \in DOMAIN conn.batch : conn.batch[i].id \in Nat /\ conn.batch[i].id <= lastId
      BY <1>5 DEF StreamInv, IdsInOrder, Known, Range
    <2> QED BY <1>1, <1>2, <1>4, <1>7, <2>1 DEF StreamInv, BatchContinues
  <1>9. NothingSkipped'
    BY <1>1, <1>2, <1>4, <1>7 DEF StreamInv, NothingSkipped
  <1> QED BY <1>1, <1>3, <1>6, <1>8, <1>9 DEF StreamInv, InLedgerOrder, NeverSilentForLong

LEMMA PurgeKept ==
  ASSUME StreamInv, NEW t \in Tasks, Purge(t) PROVE StreamInv'
  <1>1. /\ ledger' \subseteq ledger
        /\ UNCHANGED <<lastId, appends, conn, received>>
    BY DEF Purge
  <1>2. StreamTypes'
    BY <1>1, FS_Subset DEF StreamInv, StreamTypes
  <1>3. Known' \subseteq Known /\ LastSeen' = LastSeen
    BY <1>1 DEF Known, LastSeen
  <1>4. IdsInOrder'
    BY <1>1, <1>3 DEF StreamInv, IdsInOrder
  <1> QED BY <1>1, <1>2, <1>3, <1>4
          DEF StreamInv, BatchContinues, NothingSkipped, InLedgerOrder, NeverSilentForLong

(* The generator begins, ends, or waits: it takes nothing and gives nothing. *)
LEMMA WaitKept ==
  ASSUME StreamInv, UNCHANGED <<ledger, lastId, appends, received>>, StreamTypes',
         conn'.pc # "yield",
         conn'.pc # "ended" => conn'.cursor = LastSeen,
         conn'.batch = <<>> \/ conn'.batch = conn.batch,
         NeverSilentForLong'
  PROVE  StreamInv'
  <1>1. Known' \subseteq Known /\ LastSeen' = LastSeen
    BY DEF Known, LastSeen, Range
  <1>2. IdsInOrder'
    BY <1>1 DEF StreamInv, IdsInOrder
  <1> QED BY <1>1, <1>2 DEF StreamInv, BatchContinues, NothingSkipped, InLedgerOrder

LEMMA EndedKept ==
  ASSUME StreamInv, conn' = Ended, UNCHANGED <<ledger, lastId, appends, received>> PROVE StreamInv'
  <1>1. StreamTypes' /\ NeverSilentForLong'
    BY StreamAssumption DEF StreamInv, StreamTypes, Ended, NeverSilentForLong
  <1> QED BY <1>1, WaitKept DEF Ended

LEMMA ConnectKept ==
  ASSUME StreamInv, Connect PROVE StreamInv'
  <1>1. LastSeen \in Nat
    BY LastSeenBounds DEF StreamInv
  <1>2. conn' = [pc |-> "poll", cursor |-> LastSeen, batch |-> <<>>, emitted |-> 0, idle |-> 0,
                 quiet |-> 0]
    BY DEF Connect, Ended
  <1>3. UNCHANGED <<ledger, lastId, appends, received>>
    BY DEF Connect, writers
  <1>4. /\ conn'.pc = "poll" /\ conn'.cursor = LastSeen /\ conn'.batch = <<>> /\ conn'.quiet = 0
        /\ conn' \in [pc: {"ended", "poll", "yield", "idle"}, cursor: Nat, batch: Seq(EventRow),
                      emitted: Nat, idle: Nat, quiet: Nat]
    BY <1>1, <1>2
  <1>5. StreamTypes'
    BY <1>3, <1>4 DEF StreamInv, StreamTypes
  <1>6. NeverSilentForLong'
    BY <1>4, StreamAssumption DEF NeverSilentForLong
  <1> QED BY <1>3, <1>4, <1>5, <1>6, WaitKept

(* A heartbeat comes before the silence is longer than it may be.          *)
LEMMA IdleKept ==
  ASSUME StreamInv, Idle PROVE StreamInv'
  <1>1. CASE conn' = Ended
    BY <1>1, EndedKept DEF Idle, writers
  <1>2. CASE conn' # Ended
    <2>1. conn' = [conn EXCEPT !.pc = "poll",
                     !.idle = IF IdleLimit = None THEN 0 ELSE conn.idle + PollInterval,
                     !.quiet = (IF HeartbeatDue THEN 0 ELSE conn.quiet) + PollInterval]
      BY <1>2 DEF Idle
    <2>2. StreamTypes'
      <3>1. /\ (IF IdleLimit = None THEN 0 ELSE conn.idle + PollInterval) \in Nat
            /\ (IF HeartbeatDue THEN 0 ELSE conn.quiet) + PollInterval \in Nat
        BY StreamAssumption DEF StreamInv, StreamTypes
      <3> QED BY <2>1, <3>1 DEF Idle, writers, StreamInv, StreamTypes
    <2>3. NeverSilentForLong'
      BY <2>1, StreamAssumption
         DEF StreamInv, StreamTypes, NeverSilentForLong, HeartbeatDue
    <2>4. conn'.pc = "poll" /\ conn'.cursor = conn.cursor /\ conn'.batch = conn.batch
      BY <2>1 DEF StreamInv, StreamTypes
    <2>5. conn.cursor = LastSeen
      BY DEF Idle, StreamInv, BatchContinues
    <2> QED BY <2>2, <2>3, <2>4, <2>5, WaitKept DEF Idle, writers
  <1> QED BY <1>1, <1>2

(* A batch begins where the client stopped.                                *)
LEMMA PollKept ==
  ASSUME StreamInv, Poll PROVE StreamInv'
  <1> DEFINE rows == {e \in ledger : e.id > LastSeen /\ e.kind \in Wanted}
             batch == Lowest(rows, BatchLimit)
  <1>1. /\ conn' = [conn EXCEPT !.batch = batch, !.pc = IF batch = <<>> THEN "idle" ELSE "yield"]
        /\ UNCHANGED <<ledger, lastId, appends, received>>
    BY DEF Poll, EventsSince, writers, StreamInv, BatchContinues
  <1>2. /\ IsFiniteSet(rows) /\ \A e \in rows : e.id \in Nat
        /\ \A d, e \in rows : d.id = e.id => d = e
    <2>1. IsFiniteSet(rows)
      BY FS_Subset DEF StreamInv, StreamTypes
    <2> QED BY <2>1 DEF StreamInv, StreamTypes, IdsInOrder, Known, EventRow
  <1> HIDE DEF rows
  <1>3. /\ batch \in Seq(rows)
        /\ \A i, j \in DOMAIN batch : i < j => batch[i].id < batch[j].id
        /\ \A e \in rows : e \in Range(batch) \/ \A i \in DOMAIN batch : batch[i].id < e.id
    BY <1>2, LowestRows, StreamAssumption
  <1> HIDE DEF batch
  <1>4. rows \subseteq ledger
    BY DEF rows
  <1>5. /\ conn'.batch = batch /\ conn'.pc = (IF batch = <<>> THEN "idle" ELSE "yield")
        /\ conn'.cursor = conn.cursor /\ conn'.quiet = conn.quiet
    BY <1>1 DEF StreamInv, StreamTypes
  <1>6. batch \in Seq(EventRow)
    BY <1>3, <1>4 DEF StreamInv, StreamTypes
  <1>7. StreamTypes'
    BY <1>1, <1>6 DEF StreamInv, StreamTypes
  <1>8. Known' \subseteq Known /\ LastSeen' = LastSeen
    <2>1. Range(batch) \subseteq ledger
      BY <1>3, <1>4 DEF Range
    <2> QED BY <1>1, <1>5, <2>1 DEF Known, LastSeen
  <1>9. IdsInOrder'
    BY <1>1, <1>8 DEF StreamInv, IdsInOrder
  <1>10. BatchContinues'
    <2>1. conn'.cursor = LastSeen'
      BY <1>5, <1>8 DEF Poll, StreamInv, BatchContinues
    <2>2. \A i \in DOMAIN batch : batch[i] \in rows
      BY <1>3
    <2>3. \A i \in DOMAIN batch : batch[i].kind \in Wanted /\ LastSeen < batch[i].id
      BY <2>2, LastSeenBounds DEF rows, StreamInv, StreamTypes, EventRow
    <2>4. \A e \in ledger : e.kind \in Wanted /\ LastSeen < e.id => e \in rows
      BY LastSeenBounds DEF rows, StreamInv, StreamTypes, EventRow
    <2> QED BY <1>1, <1>3, <1>5, <1>8, <2>1, <2>3, <2>4 DEF BatchContinues
  <1> QED BY <1>1, <1>5, <1>7, <1>8, <1>9, <1>10
          DEF StreamInv, NothingSkipped, InLedgerOrder, NeverSilentForLong
(* The row that is yielded is the next one the client asked for.           *)
LEMMA YieldKept ==
  ASSUME StreamInv, Yield PROVE StreamInv'
  <1> DEFINE e == Head(conn.batch)
             rest == Tail(conn.batch)
  <1>1. /\ conn.batch \in Seq(EventRow) /\ received \in Seq(EventRow) /\ conn.batch # <<>>
        /\ \A i \in DOMAIN conn.batch :
             conn.batch[i].kind \in Wanted /\ LastSeen < conn.batch[i].id
        /\ \A i, j \in DOMAIN conn.batch : i < j => conn.batch[i].id < conn.batch[j].id
        /\ \A x \in ledger : x.kind \in Wanted /\ LastSeen < x.id =>
             x \in Range(conn.batch) \/ \A i \in DOMAIN conn.batch : conn.batch[i].id < x.id
    BY DEF Yield, StreamInv, StreamTypes, BatchContinues
  <1>2. /\ 1 \in DOMAIN conn.batch /\ e = conn.batch[1] /\ e \in EventRow /\ e \in Range(conn.batch)
        /\ rest \in Seq(EventRow) /\ Len(rest) = Len(conn.batch) - 1
        /\ \A i \in DOMAIN rest : i + 1 \in DOMAIN conn.batch /\ rest[i] = conn.batch[i + 1]
    BY <1>1 DEF Range
  <1>3. \A x \in Range(conn.batch) : x = e \/ x \in Range(rest)
    <2>1. ASSUME NEW i \in DOMAIN conn.batch, i # 1
          PROVE  i - 1 \in DOMAIN rest /\ rest[i - 1] = conn.batch[i]
      BY <1>1, <1>2, <2>1
    <2>2. ASSUME NEW i \in DOMAIN conn.batch
          PROVE  conn.batch[i] = e \/ conn.batch[i] \in Range(rest)
      BY <1>2, <2>1 DEF Range
    <2> HIDE DEF e, rest
    <2> QED BY <2>2 DEF Range
  <1>4. Range(rest) \subseteq Range(conn.batch)
    BY <1>2 DEF Range
  <1>5. /\ received' = Append(received, e)
        /\ UNCHANGED <<ledger, lastId, appends>>
        /\ conn' = IF EventLimit # None /\ conn.emitted + 1 >= EventLimit THEN Ended
                   ELSE [conn EXCEPT !.emitted = IF EventLimit = None THEN 0 ELSE conn.emitted + 1,
                                     !.cursor = e.id, !.batch = rest,
                                     !.idle = IF rest = <<>> THEN 0 ELSE conn.idle,
                                     !.quiet = IF rest = <<>> THEN 0 ELSE conn.quiet,
                                     !.pc = IF rest = <<>> THEN "poll" ELSE "yield"]
    BY DEF Yield, Advanced, writers
  <1> HIDE DEF e, rest
  <1>6. /\ received' \in Seq(EventRow) /\ Len(received') = Len(received) + 1
        /\ received'[Len(received) + 1] = e
        /\ \A i \in DOMAIN received : received'[i] = received[i]
    BY <1>1, <1>2, <1>5
  <1>7. LastSeen' = e.id /\ Range(received') = Range(received) \cup {e}
    <2>1. received' # <<>>
      BY <1>6
    <2>2. \A i \in DOMAIN received' : i \in DOMAIN received \/ i = Len(received) + 1
      BY <1>1, <1>6
    <2>3. \A i \in DOMAIN received : i \in DOMAIN received'
      BY <1>1, <1>6
    <2>4. Len(received) + 1 \in DOMAIN received'
      BY <1>1, <1>6
    <2>5. Range(received') = Range(received) \cup {e}
      BY <1>6, <2>2, <2>3, <2>4 DEF Range
    <2> QED BY <1>6, <2>1, <2>5 DEF LastSeen, Last
  <1>8. StreamTypes'
    <2>1. /\ (IF EventLimit = None THEN 0 ELSE conn.emitted + 1) \in Nat
          /\ (IF rest = <<>> THEN 0 ELSE conn.idle) \in Nat
          /\ (IF rest = <<>> THEN 0 ELSE conn.quiet) \in Nat /\ e.id \in Nat
      BY <1>2 DEF StreamInv, StreamTypes, EventRow
    <2>2. conn' \in [pc: {"ended", "poll", "yield", "idle"}, cursor: Nat, batch: Seq(EventRow),
                     emitted: Nat, idle: Nat, quiet: Nat]
      <3>1. CASE conn' = Ended
        BY <3>1 DEF Ended
      <3>2. CASE conn' # Ended
        BY <1>2, <1>5, <2>1, <3>2 DEF StreamInv, StreamTypes
      <3> QED BY <3>1, <3>2
    <2> QED BY <1>5, <1>6, <2>2 DEF StreamInv, StreamTypes
  <1>9. /\ conn'.batch = <<>> \/ conn'.batch = rest
        /\ conn'.pc = "yield" => rest # <<>> /\ conn'.batch = rest
        /\ conn'.pc # "ended" => conn'.cursor = e.id
        /\ conn'.quiet = 0 \/ conn'.quiet = conn.quiet
    BY <1>5 DEF StreamInv, StreamTypes, Ended
  <1>10. IdsInOrder'
    <2>1. Known' \subseteq Known
      BY <1>2, <1>4, <1>5, <1>7, <1>9 DEF Known, Range
    <2> QED BY <1>5, <2>1 DEF StreamInv, IdsInOrder
  <1>11. NothingSkipped'
    <2>1. ASSUME NEW x \in ledger, x.kind \in Wanted, x.id <= e.id
          PROVE  x \in Range(received) \cup {e}
      <3>1. CASE x.id <= LastSeen
        BY <2>1, <3>1 DEF StreamInv, NothingSkipped
      <3>2. CASE LastSeen < x.id
        <4>1. x.id \in Nat /\ e.id \in Nat
          BY <1>2 DEF StreamInv, StreamTypes, EventRow
        <4>2. x \in Range(conn.batch)
          BY <1>1, <1>2, <2>1, <3>2, <4>1
        <4>3. PICK i \in DOMAIN conn.batch : x = conn.batch[i]
          BY <4>2 DEF Range
        <4>4. i = 1
          <5>1. i \in Nat /\ i >= 1
            BY <1>1
          <5>2. ~(1 < i)
            BY <1>1, <1>2, <2>1, <4>1, <4>3
          <5> QED BY <5>1, <5>2
        <4> QED BY <1>2, <4>3, <4>4
      <3>3. x.id \in Nat /\ LastSeen \in Nat
        BY LastSeenBounds DEF StreamInv, StreamTypes, EventRow
      <3> QED BY <3>1, <3>2, <3>3
    <2> QED BY <1>5, <1>7, <2>1 DEF NothingSkipped
  <1>12. InLedgerOrder'
    <2>1. ASSUME NEW i \in DOMAIN received
          PROVE  received[i].id <= LastSeen /\ received[i] \in Known /\ received[i].id \in Nat
      <3>1. LastSeen = received[Len(received)].id /\ i <= Len(received)
            /\ Len(received) \in DOMAIN received
        BY <1>1, <2>1 DEF LastSeen, Last
      <3>2. received[i].id \in Nat /\ received[Len(received)].id \in Nat
        <4>1. received[i] \in EventRow /\ received[Len(received)] \in EventRow
          BY <1>1, <3>1
        <4> QED BY <4>1 DEF EventRow
      <3>3. i < Len(received) => received[i].id < received[Len(received)].id
        BY <3>1 DEF StreamInv, InLedgerOrder
      <3>4. i = Len(received) \/ i < Len(received)
        BY <1>1, <3>1
      <3>5. received[i].id <= LastSeen
        BY <3>1, <3>2, <3>3, <3>4
      <3> QED BY <2>1, <3>2, <3>5 DEF Known, Range
    <2>2. e \in Known /\ LastSeen < e.id /\ e.id \in Nat /\ LastSeen \in Nat
      BY <1>1, <1>2, LastSeenBounds DEF Known, StreamInv, EventRow
    <2>3. \A i \in DOMAIN received : received[i].id < e.id /\ received[i].nth < e.nth
      BY <2>1, <2>2 DEF StreamInv, IdsInOrder
    <2>4. DOMAIN received = 1 .. Len(received) /\ DOMAIN received' = 1 .. Len(received) + 1
          /\ Len(received) \in Nat
      BY <1>1, <1>6
    <2>5. ASSUME NEW i \in DOMAIN received', NEW j \in DOMAIN received', i < j
          PROVE  received'[i].id < received'[j].id /\ received'[i].nth < received'[j].nth
      <3>1. i \in DOMAIN received
        BY <2>4, <2>5
      <3>2. CASE j \in DOMAIN received
        BY <1>6, <2>5, <3>1, <3>2 DEF StreamInv, InLedgerOrder
      <3>3. CASE j = Len(received) + 1
        BY <1>6, <2>3, <3>1, <3>3
      <3> QED BY <2>4, <3>2, <3>3
    <2>6. \A i \in DOMAIN received' : received'[i].kind \in Wanted
      BY <1>1, <1>2, <1>6, <2>4 DEF StreamInv, InLedgerOrder
    <2> QED BY <2>5, <2>6 DEF InLedgerOrder
  <1>13. BatchContinues'
    <2>1. ASSUME conn'.pc = "yield"
          PROVE  /\ \A i \in DOMAIN rest : rest[i].kind \in Wanted /\ e.id < rest[i].id
                 /\ \A i, j \in DOMAIN rest : i < j => rest[i].id < rest[j].id
                 /\ \A x \in ledger : x.kind \in Wanted /\ e.id < x.id =>
                      x \in Range(rest) \/ \A i \in DOMAIN rest : rest[i].id < x.id
      <3>1. \A i \in DOMAIN rest : i \in Nat /\ 1 < i + 1
        BY <1>2
      <3>2. \A i \in DOMAIN rest : rest[i].kind \in Wanted /\ e.id < rest[i].id
        BY <1>1, <1>2, <3>1
      <3>3. \A i, j \in DOMAIN rest : i < j => rest[i].id < rest[j].id
        BY <1>1, <1>2, <3>1
      <3>4. ASSUME NEW x \in ledger, x.kind \in Wanted, e.id < x.id
            PROVE  x \in Range(rest) \/ \A i \in DOMAIN rest : rest[i].id < x.id
        <4>1. LastSeen < x.id /\ x # e
          <5>1. LastSeen < e.id /\ LastSeen \in Nat /\ e.id \in Nat /\ x.id \in Nat
            BY <1>1, <1>2, LastSeenBounds DEF StreamInv, StreamTypes, EventRow
          <5> QED BY <3>4, <5>1
        <4> QED BY <1>1, <1>2, <1>3, <3>4, <4>1
      <3> QED BY <3>2, <3>3, <3>4
    <2> QED BY <1>5, <1>7, <1>9, <2>1 DEF BatchContinues
  <1>14. NeverSilentForLong'
    BY <1>9, StreamAssumption DEF StreamInv, NeverSilentForLong
  <1> QED BY <1>8, <1>10, <1>11, <1>12, <1>13, <1>14 DEF StreamInv

LEMMA StreamInvKept == StreamInv /\ [Next]_vars => StreamInv'
  <1> SUFFICES ASSUME StreamInv, [Next]_vars PROVE StreamInv'
    OBVIOUS
  <1>1. CASE UNCHANGED vars
    BY <1>1 DEF vars, StreamInv, StreamTypes, IdsInOrder, Known, BatchContinues, LastSeen,
       NothingSkipped, InLedgerOrder, NeverSilentForLong
  <1>2. CASE Disconnect
    BY <1>2, EndedKept DEF Disconnect, writers
  <1> QED BY <1>1, <1>2, AppendKept, PurgeKept, ConnectKept, PollKept, YieldKept, IdleKept
          DEF Next, Write, Read

-----------------------------------------------------------------------------
(* "Clients reconnect with the last seen id": what the cursor of a client  *)
(* has passed was delivered to it, unless a purge took it first.           *)
THEOREM NoGap == Spec => []NothingSkipped
  <1>1. StreamInv => NothingSkipped
    BY DEF StreamInv
  <1> QED BY <1>1, InitStream, StreamInvKept, PTL DEF Spec

(* Over all its connections a client gets the events it asked for in the   *)
(* order they were written, and none twice.                                *)
THEOREM LedgerOrder == Spec => []InLedgerOrder
  <1>1. StreamInv => InLedgerOrder
    BY DEF StreamInv
  <1> QED BY <1>1, InitStream, StreamInvKept, PTL DEF Spec

(* A quiet connection is silent for less than the heartbeat interval and   *)
(* one poll.                                                               *)
THEOREM Heartbeats == Spec => []NeverSilentForLong
  <1>1. StreamInv => NeverSilentForLong
    BY DEF StreamInv
  <1> QED BY <1>1, InitStream, StreamInvKept, PTL DEF Spec
=============================================================================
