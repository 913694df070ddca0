---------------------------- MODULE BudgetProofs ----------------------------
(***************************************************************************)
(* Theorems about Budget, for any number of workers, any set of            *)
(* configurations and any bounds: an allowance is warranted, work settled  *)
(* on an exhausted budget is announced, and no worker settles two tasks    *)
(* while a budget refuses claims.                                          *)
(*                                                                         *)
(* SpentInOrder says that the sums of the ledger grow with the age asked   *)
(* for, which is what makes time shrink a window's spend.                  *)
(***************************************************************************)
EXTENDS Budget, TLAPS

WorkerState ==
  [pc : {"idle", "again", "sum", "allowed", "refused", "working"} \cup Emitting,
   cfg : Configs \cup {None}, exhausted : BOOLEAN]

BudgetTypes ==
  /\ config \in Configs \cup {None}
  /\ spent \in [Ages -> Nat]
  /\ worker \in [Workers -> WorkerState]
  /\ warranted \in [Workers -> BOOLEAN]
  /\ late \in [Workers -> Nat]
  /\ owed \in BOOLEAN

SpentInOrder ==
  /\ \A a \in Ages : spent[a] <= Cap
  /\ \A a \in 1 .. Horizon : spent[a - 1] <= spent[a]

(* A worker that is about to sum was warranted when it read its            *)
(* configuration, or the lifetime budget it read is exhausted since.       *)
SumsAreOpen ==
  \A w \in Workers : worker[w].pc = "sum" =>
    /\ worker[w].cfg # None
    /\ worker[w].cfg.window = None => warranted[w] \/ spent[Horizon] >= worker[w].cfg.limit

(* The worker will say that the budget in force is exhausted, if it is.    *)
WillAnnounce(w) ==
  \/ worker[w].pc = "settled"
  \/ worker[w].pc = "snapshot" /\ worker[w].cfg = config
  \/ worker[w].pc = "insert" /\ worker[w].exhausted

SomeoneWillAnnounce == owed => Reached /\ \E w \in Workers : WillAnnounce(w)

SnapshotsHaveConfig == \A w \in Workers : worker[w].pc = "snapshot" => worker[w].cfg # None

(* Whoever settled a task since the budget refuses has asked again since,  *)
(* or is about to, and will be refused: no answer in its hand is older.    *)
LateOnesAreRefused ==
  \A w \in Workers : late[w] = 0 \/
    /\ late[w] = 1 /\ Refusing
    /\ worker[w].pc \notin {"allowed", "working"}
    /\ worker[w].pc = "sum" => worker[w].cfg = config

BudgetInv ==
  /\ BudgetTypes /\ SpentInOrder /\ LateOnesAreRefused
  /\ SumsAreOpen /\ AllowancesAreWarranted
  /\ SnapshotsHaveConfig /\ SomeoneWillAnnounce
-----------------------------------------------------------------------------
(* What the steps do to the sums *)

(* Tokens that come with an event keep the sums in order.                  *)
LEMMA InsertSpends ==
  ASSUME BudgetTypes, SpentInOrder, NEW tokens \in 0 .. MaxTokens, Insert(tokens)
  PROVE  spent' \in [Ages -> Nat] /\ SpentInOrder'
<1> USE BudgetAssumption DEF Ages
<1>1. PICK age \in 0 .. Lag :
        spent' = [a \in Ages |-> IF a >= age THEN Capped(spent[a] + tokens) ELSE spent[a]]
  BY DEF Insert
<1>2. \A a \in Ages : spent[a] \in Nat /\ spent[a] <= Cap
  BY DEF BudgetTypes, SpentInOrder
<1>3. \A a \in Ages :
        spent'[a] = IF a >= age THEN IF spent[a] + tokens < Cap THEN spent[a] + tokens ELSE Cap
                    ELSE spent[a]
  BY <1>1 DEF Capped
<1>4. \A a \in Ages : /\ spent'[a] \in Nat /\ spent'[a] <= Cap
                      /\ spent'[a] >= spent[a]
  BY <1>2, <1>3
<1>5. spent' \in [Ages -> Nat]
  BY <1>1, <1>4
<1>6. \A a \in 1 .. Horizon : spent'[a - 1] <= spent'[a]
  <2> TAKE a \in 1 .. Horizon
  <2>1. a \in Ages /\ a - 1 \in Ages /\ spent[a - 1] <= spent[a]
    BY DEF SpentInOrder
  <2>2. CASE a - 1 >= age
    BY <2>1, <2>2, <1>2, <1>3
  <2>3. CASE ~(a - 1 >= age)
    <3>1. spent'[a - 1] = spent[a - 1] /\ spent'[a] >= spent[a]
      BY <2>1, <2>3, <1>3, <1>4
    <3> QED  BY <2>1, <3>1, <1>2, <1>4
  <2> QED  BY <2>2, <2>3
<1> QED  BY <1>4, <1>5, <1>6 DEF SpentInOrder

(* A purge lowers the sums and keeps them in order.                        *)
LEMMA PurgeSpends ==
  ASSUME BudgetTypes, SpentInOrder, Purge
  PROVE  /\ spent' \in [Ages -> Nat] /\ SpentInOrder'
         /\ \A a \in Ages : spent'[a] <= spent[a]
<1> USE BudgetAssumption DEF Ages
<1>1. PICK left \in [Ages -> 0 .. Cap] :
        /\ left[0] <= spent[0]
        /\ \A a \in 1 .. Horizon : Remains(left, a)
        /\ spent' = left
  BY DEF Purge
<1>2. \A a \in Ages : left[a] \in 0 .. Cap
  BY <1>1
<1>3. spent' \in [Ages -> Nat]
  BY <1>1, <1>2
<1>4. \A a \in 1 .. Horizon : left[a - 1] <= left[a] /\ left[a] <= spent[a]
  BY <1>1 DEF Remains
<1>5. \A a \in Ages : spent'[a] <= spent[a]
  <2> TAKE a \in Ages
  <2>1. CASE a = 0  BY <2>1, <1>1
  <2>2. CASE a # 0  BY <2>2, <1>1, <1>4
  <2> QED  BY <2>1, <2>2
<1> QED  BY <1>1, <1>2, <1>3, <1>4, <1>5 DEF SpentInOrder

(* Time lowers the sums of windows, keeps that of the lifetime and keeps   *)
(* them in order.                                                          *)
LEMMA PassSpends ==
  ASSUME BudgetTypes, SpentInOrder, Pass
  PROVE  /\ spent' \in [Ages -> Nat] /\ SpentInOrder'
         /\ \A a \in Ages : spent'[a] <= spent[a]
         /\ spent'[Horizon] = spent[Horizon]
<1> USE BudgetAssumption DEF Ages
<1>1. spent' = [a \in Ages |->
                  IF a = Horizon THEN spent[a] ELSE IF a = 0 THEN 0 ELSE spent[a - 1]]
  BY DEF Pass
<1>2. \A a \in Ages : spent[a] \in Nat /\ spent[a] <= Cap
  BY DEF BudgetTypes, SpentInOrder
<1>3. \A a \in 1 .. Horizon : a \in Ages /\ a - 1 \in Ages /\ spent[a - 1] <= spent[a]
  BY DEF SpentInOrder
<1>4. \A a \in Ages : spent'[a] = IF a = Horizon THEN spent[a]
                                  ELSE IF a = 0 THEN 0 ELSE spent[a - 1]
  BY <1>1
<1>5. \A a \in Ages : spent'[a] \in Nat /\ spent'[a] <= spent[a]
  <2> TAKE a \in Ages
  <2>1. CASE a = Horizon \/ a = 0  BY <2>1, <1>2, <1>4
  <2>2. CASE ~(a = Horizon \/ a = 0)
    <3>1. a \in 1 .. Horizon  BY <2>2
    <3> QED  BY <2>2, <3>1, <1>2, <1>3, <1>4
  <2> QED  BY <2>1, <2>2
<1>6. spent' \in [Ages -> Nat]
  BY <1>1, <1>5
<1>7. \A a \in 1 .. Horizon : spent'[a - 1] <= spent'[a]
  <2> TAKE a \in 1 .. Horizon
  <2>1. a - 1 # Horizon /\ a # 0 /\ a \in Ages /\ a - 1 \in Ages /\ spent[a - 1] <= spent[a]
    BY <1>3
  <2>2. spent'[a] = IF a = Horizon THEN spent[a] ELSE spent[a - 1]
    BY <2>1, <1>4
  <2>3. spent'[a - 1] <= spent[a - 1]
    BY <2>1, <1>5
  <2> QED  BY <2>1, <2>2, <2>3, <1>2, <1>5
<1>8. \A a \in Ages : spent'[a] <= Cap
  BY <1>2, <1>5
<1> QED  BY <1>4, <1>5, <1>6, <1>7, <1>8 DEF SpentInOrder
-----------------------------------------------------------------------------
(* The types *)

LEMMA GoesTo ==
  ASSUME BudgetTypes, NEW w \in Workers, NEW pc, NEW cfg \in Configs \cup {None},
         pc \in {"idle", "again", "sum", "allowed", "refused", "working"} \cup Emitting,
         Goto(w, pc, cfg)
  PROVE  /\ worker' \in [Workers -> WorkerState]
         /\ worker'[w] = [pc |-> pc, cfg |-> cfg, exhausted |-> FALSE]
         /\ \A v \in Workers \ {w} : worker'[v] = worker[v]
<1>1. [pc |-> pc, cfg |-> cfg, exhausted |-> FALSE] \in WorkerState
  BY DEF WorkerState
<1> QED  BY <1>1 DEF BudgetTypes, Goto

LEMMA BudgetInit == Init => BudgetInv
<1> SUFFICES ASSUME Init PROVE BudgetInv  OBVIOUS
<1> USE DEF Init
<1>1. Resting \in WorkerState
  BY DEF Resting, WorkerState
<1>2. BudgetTypes
  BY <1>1 DEF BudgetTypes
<1>3. \A w \in Workers : worker[w].pc = "idle"
  BY DEF Resting
<1>4. SumsAreOpen /\ AllowancesAreWarranted /\ SnapshotsHaveConfig /\ LateOnesAreRefused
  BY <1>3 DEF SumsAreOpen, AllowancesAreWarranted, SnapshotsHaveConfig, LateOnesAreRefused
<1>5. SpentInOrder
  BY BudgetAssumption DEF SpentInOrder, Ages
<1>6. SomeoneWillAnnounce
  BY DEF SomeoneWillAnnounce
<1> QED  BY <1>2, <1>4, <1>5, <1>6 DEF BudgetInv

LEMMA TypesKept == BudgetTypes /\ SpentInOrder /\ Next => BudgetTypes' /\ SpentInOrder'
<1> SUFFICES ASSUME BudgetTypes, SpentInOrder, Next PROVE BudgetTypes' /\ SpentInOrder'
  OBVIOUS
<1>1. warranted' \in [Workers -> BOOLEAN] /\ owed' \in BOOLEAN /\ late' \in [Workers -> Nat]
  BY DEF Next, Observed, Watch, CountLate, Notice, BudgetTypes
<1>2. CASE \E w \in Workers : Work(w)
  <2>1. PICK w \in Workers : Work(w)
    BY <1>2
  <2>2. config' = config
    BY <2>1 DEF Work, Check, Emit, CheckConfig, CheckConfigAgain, CheckSpend, Claim, Settle,
       EmitConfig, EmitSpend, EmitInsert
  <2>3. spent' \in [Ages -> Nat] /\ SpentInOrder'
    <3>1. CASE Settle(w) \/ EmitInsert(w)  BY <3>1, InsertSpends DEF Settle, EmitInsert
    <3>2. CASE spent' = spent  BY <3>2 DEF BudgetTypes, SpentInOrder
    <3> QED
      BY <2>1, <3>1, <3>2 DEF Work, Check, Emit, CheckConfig, CheckConfigAgain, CheckSpend,
         Claim, EmitConfig, EmitSpend
  <2>4. worker[w].cfg \in Configs \cup {None} /\ config \in Configs \cup {None}
    BY DEF BudgetTypes, WorkerState
  <2>5. worker' \in [Workers -> WorkerState]
    <3>1. CASE CheckConfig(w)
      BY <2>4, <3>1, GoesTo DEF CheckConfig
    <3>2. CASE CheckConfigAgain(w)
      BY <2>4, <3>2, GoesTo DEF CheckConfigAgain
    <3>3. CASE CheckSpend(w)
      BY <2>4, <3>3, GoesTo DEF CheckSpend
    <3>4. CASE Claim(w)
      BY <3>4, GoesTo DEF Claim
    <3>5. CASE Settle(w)
      BY <3>5, GoesTo DEF Settle, Emitting
    <3>6. CASE EmitConfig(w)
      BY <2>4, <3>6, GoesTo DEF EmitConfig, Emitting
    <3>7. CASE EmitSpend(w)
      <4>1. NothingRemains(worker[w].cfg) \in BOOLEAN
        BY DEF NothingRemains
      <4>2. [pc |-> "insert", cfg |-> None, exhausted |-> NothingRemains(worker[w].cfg)]
              \in WorkerState
        BY <4>1 DEF WorkerState, Emitting
      <4> QED  BY <3>7, <4>2 DEF EmitSpend, BudgetTypes
    <3>8. CASE EmitInsert(w)
      BY <3>8, GoesTo DEF EmitInsert
    <3> QED  BY <2>1, <3>1, <3>2, <3>3, <3>4, <3>5, <3>6, <3>7, <3>8 DEF Work, Check, Emit
  <2> QED  BY <1>1, <2>2, <2>3, <2>5 DEF BudgetTypes
<1>3. CASE \E cfg \in Configs \cup {None} : Configure(cfg)
  BY <1>1, <1>3 DEF Configure, BudgetTypes, SpentInOrder
<1>4. CASE Pass
  <2>1. config' = config /\ worker' = worker
    BY <1>4 DEF Pass
  <2> QED  BY <1>1, <1>4, <2>1, PassSpends DEF BudgetTypes
<1>5. CASE Purge
  <2>1. config' = config /\ worker' = worker
    BY <1>5 DEF Purge
  <2> QED  BY <1>1, <1>5, <2>1, PurgeSpends DEF BudgetTypes
<1>6. CASE SpendAside
  <2>1. config' = config /\ worker' = worker
    BY <1>6 DEF SpendAside
  <2>2. PICK tokens \in 1 .. MaxTokens : Insert(tokens)
    BY <1>6 DEF SpendAside
  <2>3. tokens \in 0 .. MaxTokens
    OBVIOUS
  <2> QED  BY <1>1, <2>1, <2>2, <2>3, InsertSpends DEF BudgetTypes
<1> QED  BY <1>2, <1>3, <1>4, <1>5, <1>6 DEF Next

-----------------------------------------------------------------------------
(* A step of the system is a step of one worker, or of none. *)

LEMMA OneWorks ==
  ASSUME BudgetTypes, Next, NEW v \in Workers, worker'[v] # worker[v]
  PROVE  Work(v) /\ config' = config
<1>1. CASE \E w \in Workers : Work(w)
  <2>1. PICK w \in Workers : Work(w)
    BY <1>1
  <2>2. \A u \in Workers \ {w} : worker'[u] = worker[u]
    BY <2>1 DEF BudgetTypes, Work, Check, Emit, CheckConfig, CheckConfigAgain, CheckSpend, Claim,
       Settle, EmitConfig, EmitSpend, EmitInsert, Goto
  <2>3. w = v
    BY <2>2
  <2>4. config' = config
    BY <2>1 DEF Work, Check, Emit, CheckConfig, CheckConfigAgain, CheckSpend, Claim, Settle,
       EmitConfig, EmitSpend, EmitInsert
  <2> QED  BY <2>1, <2>3, <2>4
<1>2. CASE worker' = worker
  BY <1>2
<1> QED  BY <1>1, <1>2 DEF Next, Configure, SpendAside, Pass, Purge

LEMMA WarrantsKept ==
  ASSUME BudgetInv, Next, BudgetTypes', NEW v \in Workers
  PROVE  /\ worker'[v].pc = "sum" =>
              /\ worker'[v].cfg # None
              /\ worker'[v].cfg.window = None =>
                   warranted'[v] \/ spent'[Horizon] >= worker'[v].cfg.limit
         /\ /\ worker'[v].pc = "allowed"
            /\ worker'[v].cfg = None \/ worker'[v].cfg.window = None
            => warranted'[v]
         /\ worker'[v].pc = "snapshot" => worker'[v].cfg # None
<1> USE DEF BudgetInv
<1>1. warranted'[v] =
        (/\ worker'[v].pc \in {"again", "sum", "allowed"}
         /\ \/ warranted[v]
            \/ worker[v].pc # "allowed" /\ (~Refusing' \/ spent'[Horizon] < spent[Horizon]))
  BY DEF Next, Observed, Watch
<1>2. Horizon \in Ages /\ spent[Horizon] \in Nat /\ spent'[Horizon] \in Nat
  BY BudgetAssumption DEF Ages, BudgetTypes
<1>3. worker[v] \in WorkerState /\ worker'[v] \in WorkerState /\ config \in Configs \cup {None}
  BY DEF BudgetTypes
<1>4. \A cfg \in Configs : cfg.limit \in Nat
  BY BudgetAssumption
<1>5. CASE worker'[v] = worker[v]
  <2>1. CASE worker[v].pc = "sum"
    <3>1. worker[v].cfg \in Configs
      BY <1>3, <2>1 DEF SumsAreOpen, WorkerState
    <3>2. worker[v].cfg.limit \in Nat
      BY <1>4, <3>1
    <3>3. worker[v].cfg.window = None => warranted[v] \/ spent[Horizon] >= worker[v].cfg.limit
      BY <2>1 DEF SumsAreOpen
    <3> QED  BY <1>1, <1>2, <1>5, <2>1, <3>1, <3>2, <3>3 DEF SumsAreOpen
  <2>2. CASE worker[v].pc = "allowed"
    BY <1>1, <1>5, <2>2 DEF AllowancesAreWarranted
  <2>3. CASE worker[v].pc = "snapshot"
    BY <1>5, <2>3 DEF SnapshotsHaveConfig
  <2> QED  BY <1>5, <2>1, <2>2, <2>3
<1>6. CASE worker'[v] # worker[v]
  <2>1. Work(v) /\ config' = config
    BY <1>6, OneWorks
  <2>2. CASE CheckConfig(v)
    <3>1. worker'[v].pc = (IF Enforced(config) THEN "again" ELSE "allowed")
          /\ worker'[v].cfg = config
      BY <2>2 DEF CheckConfig, Goto, BudgetTypes
    <3>2. ~Enforced(config) => ~Refusing'
      BY <2>1 DEF Enforced, Refusing, Reached
    <3>3. worker[v].pc # "allowed"
      BY <2>2 DEF CheckConfig
    <3> QED  BY <1>1, <3>1, <3>2, <3>3
  <2>3. CASE CheckConfigAgain(v)
    <3>1. worker'[v].pc = (IF config = None THEN "allowed" ELSE "sum") /\ worker'[v].cfg = config
      BY <2>3 DEF CheckConfigAgain, Goto, BudgetTypes
    <3>2. worker[v].pc # "allowed"
      BY <2>3 DEF CheckConfigAgain
    <3>3. CASE config = None
      BY <1>1, <2>1, <3>1, <3>2, <3>3 DEF Refusing, Reached
    <3>4. CASE config # None
      <4>1. config.limit \in Nat
        BY <1>3, <1>4, <3>4
      <4>2. config.window = None => warranted'[v] \/ spent'[Horizon] >= config.limit
        BY <1>1, <2>1, <3>1, <3>2, <3>4 DEF Refusing, Reached, Spend
      <4> QED  BY <3>1, <3>4, <4>2
    <3> QED  BY <3>3, <3>4
  <2>4. CASE CheckSpend(v)
    <3>1. worker'[v].pc = (IF Exhausted(worker[v].cfg) THEN "refused" ELSE "allowed")
          /\ worker'[v].cfg = worker[v].cfg
      <4>1. worker[v].cfg \in Configs \cup {None}
        BY <1>3 DEF WorkerState
      <4> QED  BY <2>4, <4>1 DEF CheckSpend, Goto, BudgetTypes
    <3>2. worker[v].pc = "sum" /\ worker[v].cfg # None
      BY <2>4 DEF CheckSpend, SumsAreOpen
    <3>3. worker[v].cfg.window = None => warranted[v] \/ spent[Horizon] >= worker[v].cfg.limit
      BY <3>2 DEF SumsAreOpen
    <3>4. worker[v].cfg.window = None /\ ~Exhausted(worker[v].cfg) => warranted[v]
      BY <3>2, <3>3 DEF Exhausted, Spend
    <3> QED  BY <1>1, <3>1, <3>2, <3>4
  <2>5. CASE Claim(v) \/ Settle(v) \/ EmitInsert(v)
    <3>1. worker'[v].pc \in {"idle", "working", "settled"}
      BY <2>5 DEF Claim, Settle, EmitInsert, Goto, BudgetTypes
    <3> QED  BY <3>1
  <2>6. CASE EmitConfig(v)
    <3>1. worker'[v].pc = (IF config = None THEN "idle" ELSE "snapshot") /\ worker'[v].cfg = config
      BY <2>6 DEF EmitConfig, Goto, BudgetTypes
    <3> QED  BY <3>1
  <2>7. CASE EmitSpend(v)
    <3>1. worker'[v].pc = "insert"
      BY <2>7 DEF EmitSpend, BudgetTypes
    <3> QED  BY <3>1
  <2> QED  BY <2>1, <2>2, <2>3, <2>4, <2>5, <2>6, <2>7 DEF Work, Check, Emit
<1> QED  BY <1>5, <1>6

(* While an announcement is owed the budget is exhausted, and somebody     *)
(* will announce it: a worker that settled since, at the latest.           *)
LEMMA AnnouncementKept ==
  ASSUME BudgetInv, Next, BudgetTypes', owed'
  PROVE  Reached' /\ \E v \in Workers : WillAnnounce(v)'
<1> USE DEF BudgetInv
<1>1. Reached' /\ config' = config /\ ~Announced /\ (owed \/ \E v \in Workers : Settles(v))
  BY DEF Next, Observed, Notice
<1>2. config \in Configs /\ config # None
  BY <1>1, BudgetAssumption DEF Reached, BudgetTypes
<1>3. CASE owed
  <2>1. PICK v \in Workers : WillAnnounce(v)
    BY <1>3 DEF SomeoneWillAnnounce
  <2>2. CASE worker'[v] = worker[v]
    <3>1. WillAnnounce(v)'
      BY <1>1, <2>1, <2>2 DEF WillAnnounce
    <3> QED  BY <1>1, <3>1
  <2>3. CASE worker'[v] # worker[v]
    <3>1. Work(v)
      BY <2>3, OneWorks
    <3>2. CASE worker[v].pc = "settled"
      <4>1. EmitConfig(v)
        BY <3>1, <3>2 DEF Work, Check, Emit, CheckConfig, CheckConfigAgain, CheckSpend, Claim,
           Settle, EmitSpend, EmitInsert
      <4>2. worker'[v].pc = "snapshot" /\ worker'[v].cfg = config
        BY <1>2, <4>1 DEF EmitConfig, Goto, BudgetTypes
      <4>3. WillAnnounce(v)'
        BY <1>1, <4>2 DEF WillAnnounce
      <4> QED  BY <1>1, <4>3
    <3>3. CASE worker[v].pc = "snapshot" /\ worker[v].cfg = config
      <4>1. EmitSpend(v)
        BY <3>1, <3>3 DEF Work, Check, Emit, CheckConfig, CheckConfigAgain, CheckSpend, Claim,
           Settle, EmitConfig, EmitInsert
      <4>2. worker'[v].pc = "insert" /\ worker'[v].exhausted = NothingRemains(config)
        BY <3>3, <4>1 DEF EmitSpend, BudgetTypes
      <4>3. Spend(config.window) >= config.limit
        BY <1>3 DEF SomeoneWillAnnounce, Reached
      <4>4. Spend(config.window) \in Nat /\ config.limit \in Nat
        BY <1>2, BudgetAssumption DEF BudgetTypes, Spend, Ages
      <4>5. NothingRemains(config)
        BY <4>3, <4>4 DEF NothingRemains
      <4>6. WillAnnounce(v)'
        BY <4>2, <4>5 DEF WillAnnounce
      <4> QED  BY <1>1, <4>6
    <3>4. CASE worker[v].pc = "insert" /\ worker[v].exhausted
      <4>1. EmitInsert(v)
        BY <3>1, <3>4 DEF Work, Check, Emit, CheckConfig, CheckConfigAgain, CheckSpend, Claim,
           Settle, EmitConfig, EmitSpend
      <4>2. ~worker'[v].exhausted
        BY <4>1 DEF EmitInsert, Goto, BudgetTypes
      <4> QED  BY <1>1, <3>4, <4>2 DEF Announced
    <3> QED  BY <2>1, <3>2, <3>3, <3>4 DEF WillAnnounce
  <2> QED  BY <2>2, <2>3
<1>4. CASE \E v \in Workers : Settles(v)
  <2>1. PICK v \in Workers : Settles(v)
    BY <1>4
  <2>2. Work(v)
    BY <2>1, OneWorks DEF Settles
  <2>3. Settle(v)
    BY <2>1, <2>2 DEF Settles, Work, Check, Emit, CheckConfig, CheckConfigAgain, CheckSpend, Claim,
       EmitConfig, EmitSpend, EmitInsert
  <2>4. WillAnnounce(v)'
    BY <2>3 DEF Settle, Goto, BudgetTypes, WillAnnounce
  <2> QED  BY <1>1, <2>4
<1> QED  BY <1>1, <1>3, <1>4

(* One task at most: a worker whose count is not zero is not at work, and  *)
(* while the same budget refuses, no check allows it anything.             *)
LEMMA LateKept ==
  ASSUME BudgetInv, Next, BudgetTypes', NEW v \in Workers
  PROVE  late'[v] = 0 \/
           /\ late'[v] = 1 /\ Refusing'
           /\ worker'[v].pc \notin {"allowed", "working"}
           /\ worker'[v].pc = "sum" => worker'[v].cfg = config'
<1> USE DEF BudgetInv
<1>1. late'[v] = IF ~Refusing' THEN 0
                 ELSE (IF Refusing /\ config' = config THEN late[v] ELSE 0)
                        + (IF Settles(v) THEN 1 ELSE 0)
  BY DEF Next, Observed, CountLate
<1>2. late[v] = 0 \/ late[v] = 1
  BY DEF LateOnesAreRefused
<1>3. CASE Settles(v)
  <2>1. late[v] = 0
    BY <1>3 DEF LateOnesAreRefused, Settles
  <2>2. Work(v)
    BY <1>3, OneWorks DEF Settles
  <2>3. Settle(v)
    BY <1>3, <2>2 DEF Settles, Work, Check, Emit, CheckConfig, CheckConfigAgain, CheckSpend, Claim,
       EmitConfig, EmitSpend, EmitInsert
  <2>4. worker'[v].pc = "settled"
    BY <2>3 DEF Settle, Goto, BudgetTypes
  <2> QED  BY <1>1, <2>1, <2>4
<1>4. CASE ~Settles(v) /\ late'[v] # 0
  <2>1. /\ Refusing' /\ Refusing /\ config' = config
        /\ late'[v] = late[v] /\ late[v] = 1
    BY <1>1, <1>2, <1>4
  <2>2. /\ worker[v].pc \notin {"allowed", "working"}
        /\ worker[v].pc = "sum" => worker[v].cfg = config
    BY <2>1 DEF LateOnesAreRefused
  <2>3. CASE worker'[v] = worker[v]
    BY <2>1, <2>2, <2>3
  <2>4. CASE worker'[v] # worker[v]
    <3>1. Work(v)
      BY <2>4, OneWorks
    <3>2. CASE CheckConfig(v)
      <4>1. worker'[v].pc = "again"
        BY <2>1, <3>2 DEF CheckConfig, Goto, BudgetTypes, Enforced, Refusing, Reached
      <4> QED  BY <2>1, <4>1
    <3>3. CASE CheckConfigAgain(v)
      <4>1. worker'[v].pc = "sum" /\ worker'[v].cfg = config
        BY <2>1, <3>3 DEF CheckConfigAgain, Goto, BudgetTypes, Refusing, Reached
      <4> QED  BY <2>1, <4>1
    <3>4. CASE CheckSpend(v)
      <4>1. Exhausted(worker[v].cfg)
        BY <2>1, <2>2, <3>4 DEF CheckSpend, Exhausted, Refusing, Reached
      <4>2. worker'[v].pc = "refused"
        BY <3>4, <4>1 DEF CheckSpend, Goto, BudgetTypes
      <4> QED  BY <2>1, <4>2
    <3>5. CASE EmitConfig(v) \/ EmitSpend(v) \/ EmitInsert(v)
      <4>1. worker'[v].pc \in {"idle", "snapshot", "insert"}
        BY <3>5 DEF EmitConfig, EmitSpend, EmitInsert, Goto, BudgetTypes
      <4> QED  BY <2>1, <4>1
    <3> QED  BY <2>2, <3>1, <3>2, <3>3, <3>4, <3>5 DEF Work, Check, Emit, Claim, Settle
  <2> QED  BY <2>3, <2>4
<1> QED  BY <1>3, <1>4

LEMMA BudgetStep == BudgetInv /\ [Next]_vars => BudgetInv'
<1> SUFFICES ASSUME BudgetInv, [Next]_vars PROVE BudgetInv'
  OBVIOUS
<1>1. CASE Next
  <2>1. BudgetTypes' /\ SpentInOrder'
    BY <1>1, TypesKept DEF BudgetInv
  <2>2. SumsAreOpen' /\ AllowancesAreWarranted' /\ SnapshotsHaveConfig'
    BY <1>1, <2>1, WarrantsKept DEF SumsAreOpen, AllowancesAreWarranted, SnapshotsHaveConfig
  <2>3. SomeoneWillAnnounce'
    BY <1>1, <2>1, AnnouncementKept DEF SomeoneWillAnnounce
  <2>4. LateOnesAreRefused'
    BY <1>1, <2>1, LateKept DEF LateOnesAreRefused
  <2> QED  BY <2>1, <2>2, <2>3, <2>4 DEF BudgetInv
<1>2. CASE UNCHANGED vars
  BY <1>2 DEF vars, BudgetInv, BudgetTypes, SpentInOrder, SumsAreOpen, AllowancesAreWarranted,
     SnapshotsHaveConfig, SomeoneWillAnnounce, WillAnnounce, LateOnesAreRefused, Refusing,
     Reached, Spend
<1> QED  BY <1>1, <1>2

LEMMA BudgetInvariant == Spec => []BudgetInv
BY BudgetInit, BudgetStep, PTL DEF Spec

(* check_back_pressure allows a claim under a lifetime budget, or none,    *)
(* only if allowing was right at some moment of the check, whatever        *)
(* operators change between its reads; a purge during the check excepted.  *)
THEOREM Warranted == Spec => []AllowancesAreWarranted
<1>1. BudgetInv => AllowancesAreWarranted  BY DEF BudgetInv
<1> QED  BY <1>1, BudgetInvariant, PTL

(* A worker that settled a task on an exhausted budget has announced it by *)
(* emit_state, or somebody is on the way to, for as long as it stays       *)
(* exhausted, whatever else spends.                                        *)
THEOREM Announcement == Spec => []ExhaustionAnnounced
<1>1. BudgetInv => ExhaustionAnnounced
  BY DEF BudgetInv, SomeoneWillAnnounce, ExhaustionAnnounced, WillAnnounce, Emitting
<1> QED  BY <1>1, BudgetInvariant, PTL

(* "In-flight work is preserved; only new draws are gated": from the       *)
(* moment on that a budget refuses claims no worker settles more than one  *)
(* task, however stale the answer of its check and whatever else spends.   *)
THEOREM Overshoot == Spec => []OvershootBounded
<1>1. BudgetInv => OvershootBounded
  BY DEF BudgetInv, LateOnesAreRefused, OvershootBounded
<1> QED  BY <1>1, BudgetInvariant, PTL
=============================================================================
