------------------------------- MODULE Budget -------------------------------
(***************************************************************************)
(* Token-budget back-pressure (budget.py): the configuration in _meta, the *)
(* tokens the ledger accumulates, and workers that ask check_back_pressure *)
(* before they claim and announce the state (emit_state) after they spent. *)
(*                                                                         *)
(* check_back_pressure reads the configuration, then (is_exhausted) reads  *)
(* it again, then sums the ledger: three reads, between which operators    *)
(* change the configuration and workers spend.  The claim comes later      *)
(* still.  Queue.claim itself asks nobody: asking is up to its caller.     *)
(*                                                                         *)
(* Claims are all that is gated.  Tokens also come with every other call   *)
(* that takes a token_count: emit_state itself, honor (interventions.py),  *)
(* emit_diagnosis (diagnose.py), and the complete and fail of the command  *)
(* line, which settle tasks that nobody claimed.                           *)
(*                                                                         *)
(* Time is kept as the ages of the tokens.  An event's ts is read before   *)
(* its transaction waits for the lock, so it may be Lag old when it lands. *)
(* The ledger is kept as the sums one may ask of it: spent[a] are the      *)
(* tokens of age a or less, so a window's spend is one of them.            *)
(***************************************************************************)
EXTENDS Integers, FiniteSets

CONSTANTS
  None,
  Workers,
  Configs,   \* the configurations operators set
  Horizon,   \* ages up to which tokens are told apart; no window is longer
  Lag,       \* the longest wait for the write lock
  MaxTokens, \* the most tokens that come with one event
  Cap        \* bound: sums are kept up to here; above every limit

Policies == {"soft", "refuse_claim", "freeze"}
Ages == 0 .. Horizon

ASSUME BudgetAssumption ==
  /\ Horizon \in Nat /\ Lag \in 0 .. Horizon /\ MaxTokens \in Nat /\ Cap \in Nat
  /\ Configs \subseteq [limit : Nat, window : (1 .. Horizon) \cup {None}, policy : Policies]
  /\ \A cfg \in Configs : cfg.limit < Cap
  /\ None \notin Configs

VARIABLES
  config,     \* the three budget keys of _meta, or None
  spent,      \* the tokens in the ledger of each age or less; the last is all
  worker,     \* where each worker is, and the configuration it read last
  warranted,  \* history: allowing was right at some moment of the check
  late,       \* history: the tasks each worker has settled since the budget
              \* in force refuses claims
  owed        \* history: a task was settled on a budget that is exhausted,
              \* and no budget_state event in the ledger says so yet

vars == <<config, spent, worker, warranted, late, owed>>

Capped(n) == IF n < Cap THEN n ELSE Cap

LifetimeSpend(window) == spent[Horizon]

(* current_spend: SUM(token_count) [WHERE ts > now - window] *)
Spend(window) == spent[IF window = None THEN Horizon ELSE window - 1]

ExhaustedAbove(cfg) == cfg # None /\ Spend(cfg.window) > cfg.limit

(* is_exhausted, under the configuration it read *)
Exhausted(cfg) == cfg # None /\ Spend(cfg.window) >= cfg.limit

Enforced(cfg) == cfg # None /\ cfg.policy # "soft"

Resting == [pc |-> "idle", cfg |-> None, exhausted |-> FALSE]
Emitting == {"settled", "snapshot", "insert"}

Init ==
  /\ config \in Configs \cup {None}
  /\ spent = [a \in Ages |-> 0]
  /\ worker = [w \in Workers |-> Resting]
  /\ warranted = [w \in Workers |-> FALSE]
  /\ late = [w \in Workers |-> 0]
  /\ owed = FALSE

(* What the documentation asks for, at one moment *)
Reached == config # None /\ Spend(config.window) >= config.limit
Refusing == Reached /\ config.policy # "soft"

(* A check warrants its answer by any moment from its first read to its    *)
(* end at which the budget in force allowed claims, and by a purge.        *)
Watch ==
  warranted' = [w \in Workers |->
    /\ worker'[w].pc \in {"again", "sum", "allowed"}
    /\ \/ warranted[w]
       \/ worker[w].pc # "allowed" /\ (~Refusing' \/ spent'[Horizon] < spent[Horizon])]

Settles(w) == worker[w].pc = "working" /\ worker'[w].pc # "working"

CountLate ==
  late' = [w \in Workers |->
    IF ~Refusing' THEN 0
    ELSE (IF Refusing /\ config' = config THEN late[w] ELSE 0) + (IF Settles(w) THEN 1 ELSE 0)]

Announced == \E w \in Workers : worker[w].exhausted /\ ~worker'[w].exhausted

Notice ==
  owed' = (Reached' /\ config' = config /\ ~Announced /\ (owed \/ \E w \in Workers : Settles(w)))

Goto(w, pc, cfg) ==
  worker' = [worker EXCEPT ![w] = [pc |-> pc, cfg |-> cfg, exhausted |-> FALSE]]

(* An INSERT INTO task_events, stamped up to Lag ago *)
Insert(tokens) ==
  \E age \in 0 .. Lag :
    spent' = [a \in Ages |-> IF a >= age THEN Capped(spent[a] + tokens) ELSE spent[a]]

-----------------------------------------------------------------------------
(* check_back_pressure, read by read *)

(* get_config: no budget and "soft" are allowed at once *)
CheckConfig(w) ==
  /\ worker[w].pc \in {"idle", "refused"}
  /\ Goto(w, IF Enforced(config) THEN "again" ELSE "allowed", config)
  /\ UNCHANGED <<config, spent>>

(* is_exhausted reads the configuration anew; no budget is not exhausted *)
CheckConfigAgain(w) ==
  /\ worker[w].pc = "again"
  /\ Goto(w, IF config = None THEN "allowed" ELSE "sum", config)
  /\ UNCHANGED <<config, spent>>

CheckSpend(w) ==
  /\ worker[w].pc = "sum"
  /\ Goto(w, IF Exhausted(worker[w].cfg) THEN "refused" ELSE "allowed", worker[w].cfg)
  /\ UNCHANGED <<config, spent>>

-----------------------------------------------------------------------------
(* Queue.claim of a worker that was allowed; there may be no task for it *)
Claim(w) ==
  /\ worker[w].pc = "allowed"
  /\ Goto(w, "working", None) \/ Goto(w, "idle", None)
  /\ UNCHANGED <<config, spent>>

(* complete or fail, with its token_count *)
Settle(w) ==
  /\ worker[w].pc = "working"
  /\ \E tokens \in 0 .. MaxTokens : Insert(tokens)
  /\ Goto(w, "settled", None)
  /\ UNCHANGED config

-----------------------------------------------------------------------------
(* emit_state, for the task just completed; no purge takes that one.       *)

(* snapshot reads the configuration and raises when there is none. *)
EmitConfig(w) ==
  /\ worker[w].pc = "settled"
  /\ Goto(w, IF config = None THEN "idle" ELSE "snapshot", config)
  /\ UNCHANGED <<config, spent>>

NothingLeftOver(cfg) == cfg.limit - Spend(cfg.window) < 0

(* remaining <= 0 *)
NothingRemains(cfg) == cfg.limit - Spend(cfg.window) <= 0

EmitSpend(w) ==
  /\ worker[w].pc = "snapshot"
  /\ worker' = [worker EXCEPT ![w] =
       [pc |-> "insert", cfg |-> None, exhausted |-> NothingRemains(worker[w].cfg)]]
  /\ UNCHANGED <<config, spent>>

(* The budget_state event comes with tokens that its snapshot cannot tell. *)
EmitInsert(w) ==
  /\ worker[w].pc = "insert"
  /\ \E tokens \in 0 .. MaxTokens : Insert(tokens)
  /\ Goto(w, "idle", None)
  /\ UNCHANGED config

-----------------------------------------------------------------------------
(* honor, emit_diagnosis and the command line: at any time, asking nobody  *)
SpendAside ==
  /\ \E tokens \in 1 .. MaxTokens : Insert(tokens)
  /\ UNCHANGED <<config, worker>>

(* A purge of the dead-letter queue deletes events with their tokens: of   *)
(* each age some remain, of a sum at the bound any number.                 *)
Remains(left, a) ==
  /\ left[a - 1] <= left[a] /\ left[a] <= spent[a]
  /\ spent[a] = Cap \/ left[a] - left[a - 1] <= spent[a] - spent[a - 1]

Purge ==
  /\ \E left \in [Ages -> 0 .. Cap] :
       /\ left[0] <= spent[0]
       /\ \A a \in 1 .. Horizon : Remains(left, a)
       /\ spent' = left
  /\ UNCHANGED <<config, worker>>

(* set_config and clear_config, one transaction each *)
Configure(cfg) ==
  /\ config' = cfg
  /\ UNCHANGED <<spent, worker>>

(* All tokens get older. *)
Pass ==
  /\ spent' = [a \in Ages |->
       IF a = Horizon THEN spent[a] ELSE IF a = 0 THEN 0 ELSE spent[a - 1]]
  /\ UNCHANGED <<config, worker>>

Check(w) == CheckConfig(w) \/ CheckConfigAgain(w) \/ CheckSpend(w)
Emit(w) == EmitConfig(w) \/ EmitSpend(w) \/ EmitInsert(w)
Work(w) == Check(w) \/ Claim(w) \/ Settle(w) \/ Emit(w)
Observed == Watch /\ CountLate /\ Notice

Next ==
  /\ \/ \E w \in Workers : Work(w)
     \/ \E cfg \in Configs \cup {None} : Configure(cfg)
     \/ SpendAside
     \/ Pass
     \/ Purge
  /\ Observed

Spec == Init /\ [][Next]_vars

(* Time passes, and a worker that is refused asks again. *)
FairSpec ==
  /\ Spec
  /\ WF_vars(Pass /\ Observed)
  /\ \A w \in Workers : WF_vars(Work(w) /\ Observed)

-----------------------------------------------------------------------------
(* "In-flight work is preserved; only new draws are gated": however stale  *)
(* the answers of their checks, from the moment on that a budget refuses   *)
(* claims no worker settles more than one task, the one that exhausted it  *)
(* included.  What honors, diagnoses, command lines and the events of      *)
(* emit_state spend besides is gated by nobody, and is not bounded.        *)
OvershootBounded == \A w \in Workers : late[w] <= 1

(* "Pauses new claims until consumption drops below cap": with a window,   *)
(* refusals end, however the workers' checks and spending interleave, once *)
(* operators leave the budget alone and nobody spends aside.               *)
ClaimsResume ==
  \A cfg \in {c \in Configs : Enforced(c) /\ c.window # None /\ c.limit > 0} :
    <>[](config = cfg) /\ <>[][~SpendAside]_vars
      => []<>(\E w \in Workers : worker[w].pc = "allowed")

(* A claim is allowed under a lifetime budget, or none, only if at some    *)
(* time during the check the budget then in force allowed it, whatever     *)
(* operators change between the reads; a purge during the check excepted.  *)
AllowancesAreWarranted ==
  \A w \in Workers :
    /\ worker[w].pc = "allowed"
    /\ worker[w].cfg = None \/ worker[w].cfg.window = None
    => warranted[w]

(* "Emits this event so the [...] stream surfaces the new state": while a  *)
(* budget stays exhausted, a worker that settled a task on it has left an  *)
(* event that says so, or somebody is about to, whatever others, the       *)
(* window and purges put in and took out between a snapshot and its        *)
(* INSERT.  Tokens that come with other events than a settling one exhaust *)
(* a budget unannounced, until the next task is settled.                   *)
ExhaustionAnnounced == owed => \E w \in Workers : worker[w].pc \in Emitting
=============================================================================
