# Bounty Board in TLA+

Bounty Board is a task queue in one SQLite file. Agents claim tasks their track
record entitles them to, work, and complete, fail or decline them; operators
post, inspect, replay and purge. There is no server: every process opens the
file, and SQLite's single write lock is the only coordination.

## The system

| Part | Source | State | Operations | What makes it correct |
|---|---|---|---|---|
| Task queue | `queue.py` | tables `tasks`, `task_events`, `agent_track_record`; each worker's `Task` handle | post, claim, complete, fail, decline | one holder per task; rows, counters and ledger agree; routing is earned; retries bounded |
| Command line | `_cli.py` | one process per command | init, post, claim, complete, fail, decline, status, `dlq ...`, inspect | what an operator does cannot make the tables disagree |
| Dead-letter queue | `dlq.py` | `tasks.parent_id`, failed rows | list, get, replay, purge | the failed task stays; purge removes whole tasks or nothing |
| Interventions | `interventions.py` | table `interventions` | post, list, check_pending, honor | honored once, with its event |
| Replay-time patches | `patches.py` | table `patches` | propose, record_outcome, promote_eligible, retire, find_applicable | a candidate reaches only its proposer; promotion follows evidence |
| Diagnosis | `diagnose.py` | none (reads; writes `diagnose` events) | similar success, payload diff, dossier, emit | the baseline is a success of the same signature, with its trajectory |
| Budget | `budget.py` | `_meta` config, token sums over the ledger | set/clear/get config, snapshot, guarded claim, emit_state | a claim is admitted only by a budget that was in force; a worker settles at most one task past it; a window reopens |
| Event stream | `stream.py` | the reader's cursor | poll, stream | no event lost, repeated or reordered over reconnections; never silent too long |
| Dashboard | `inspect.py` | none | read-only pages and JSON, intervention and replay endpoints | a page's parts fit together |
| Async shell | `aio.py` | one executor thread per queue | awaitable queue calls | same semantics as the sync calls until one is cancelled; close answers every call |
| Opening and migration | `_meta.py`, `migrations/` | `_meta.schema_version`, the tables' existence | open_db | every open ends at the expected schema |
| Demo | `demo.py` | none of its own | a scripted run | not modelled |

Interaction is through the tables only. Dead-letter queue, interventions, budget,
diagnosis and the dashboard all read and append to the ledger `task_events`, whose
AUTOINCREMENT id is the stream's cursor; routing reads the track record that
settling writes; a replay posts a task whose `parent_id` is the failed one, which
with the interventions' foreign key decides what purge may delete.

What is hard here: Python's sqlite3 opens a transaction only before the first
write, so every "SELECT, then write" outside `BEGIN IMMEDIATE` can act on a stale
row; the clock is read before waiting up to five seconds for the lock; settling
checks neither status nor claimant; a process may die anywhere and there is no
lease; and the tables must agree with a ledger they are not computed from.

## Modules

**Ownership** is the promise, without mechanism: a task is granted to one worker
at a time; only its owner returns or closes it; closed tasks stay closed; a task
whose owner is gone stays claimed.

**Queue** is `queue.py` with each SQL transaction atomic. `tasks`, `events`,
`eventSeq` and `track` are the tables, `proc[w]` the call worker `w` is in with
its local variables (`pc`, the task of its handle, `now`, the verdict `_mark_fail`
read). Every call is at least two steps: `ClaimCall` and `SettleCall` read the
clock (and the row, for fail), then `ClaimTxn`, `ClaimNone` or `SettleTxn` is the
transaction. `TxnError` is a transaction that raised and was rolled back (a settler
keeps its handle and may settle again, as the docstring's `try: complete except:
fail` does); `Crash` loses the handle. Several workers may share one agent id.
`SELECT ... ORDER BY priority DESC, created_at ASC LIMIT 1` is `First(Eligible(..))`,
with ties left open as SQL leaves them. Payloads, results, tokens and
`last_seen_at` are left out: `queue.py` never reads them back. Time is a
nondecreasing tick; a wall clock set back is not modelled.

**QueueStatements** splits the transactions into statements under an explicit
write lock: `lock`, the holder's uncommitted `draft`, how far each transaction is
(`at`) and the selected id (`pick`). Errors and deaths may strike between any two
statements. It is shown to implement `Queue` on the committed tables.

**CliOperator** adds command-line processes that settle any existing task for any
agent, through the same transactions (`Settle`) as the handles.

**Board** puts the dead-letter queue and the interventions on the same tables:
`parent` (`tasks.parent_id`), `purged`, `notes` (table `interventions`), and
`desk[c]`, the call each clerk is in. Replay, purge, post and honor all read first
(`ReplayCall`, `PurgeCall`, `InterveneCall`, `HonorCall`) and write later in a
transaction (`...Txn`); between the two anything may happen. Foreign keys are
guards of the transactions: `ReplayTxn` needs its parent, `PurgeTxn` needs
`Deletable`; a transaction that would raise is `ClerkLost`. The age bound of a
purge is any cutoff up to now.

**Views** lets clerks read the board too: the task page of the dashboard
(`PageCall`, then `PageEvents`) and the self-diagnosis of an agent, which reads a
dead-letter entry (`EntryCall`), its trajectory and a baseline (`DossierBaseline`),
the baseline's trajectory and the clock (`DiagnoseCall`), and inserts its event
(`DiagnoseTxn`). `desk[c].first` is what the first SELECT returned; the invariants
speak of what the reader would put together if its second came now, at every moment
until it does.

**Migration** is `open_db`: each opener connects, reads the version, runs the
script one CREATE at a time (each commits by itself; a CREATE of a table that is
there raises) and writes the version in a last transaction. `Die` may strike
anywhere. A new file, a current one and one of a newer library are the starts.

**Stream** is the generator of `iter_sse` (`iter_events` is the same without
heartbeats): poll, yield row by row, idle with heartbeat and idle limit, over a
ledger that writers append to and purges cut from. `conn` holds its locals
(`cursor`, `batch`, `emitted`, and the ages of `last_event_at` and
`last_heartbeat_at`); the client may leave at any time and comes back with the
last id it saw.

**Payloads** is `apply_transformer` and `compute_payload_diff` as operators: a
payload maps fields to values; of a text it keeps where it comes from and how long a
prefix is left, of a list its items. A raised error is `Missing`, as is a key that
`dict.get` does not find.

**Patches** is the table `patches` with agents that propose, find, apply and
record, a promoter and an operator who retires. `Propose` tries the transformer on the
empty payload; `FindApplicable` takes the rows in an order that ORDER BY allows and
applies them to the payload of a task. `agent[a]` holds the payload so patched
(`used`), the candidate on trial and, in `todo`, the patches whose outcome is not
recorded yet; `outcomes` is a history variable. The wiring of `find_applicable` to
`record_outcome` is the callers', as the docstrings say. `proposed_at` orders the
patches of one agent; between agents, who read it before the write lock, any order is
possible.

**Budget** splits `check_back_pressure` into its three reads (`CheckConfig`,
`CheckConfigAgain`, `CheckSpend`), with operators replacing the configuration and
workers settling with tokens between them. After settling, a worker announces the
state as `emit_state` does: configuration, spend, INSERT (`EmitConfig`, `EmitSpend`,
`EmitInsert`), the last with a `token_count` of its own, which its snapshot does not
know. Every other call that writes tokens, and that no check gates, is `SpendAside`:
`honor`, `emit_diagnosis`, and the command line's complete and fail. `Purge` takes
tokens out of the ledger, as purging the dead-letter queue does with the events it
deletes. The worker's own task is one it completed, which no purge takes, so the
existence check of `emit_state` passes. Time is the age of tokens, so that a rolling
window needs no clock; the ledger is kept as the sums a budget asks for, `spent[a]`
being the tokens of age `a` or less. Three history variables: `warranted`, which says
that at some moment of a check the budget then in force allowed claims (or that a purge
lowered the spend during it); `late`, the number of tasks each worker has settled since
the budget in force refuses claims; and `owed`, which says that a task was settled on a
budget that is exhausted and no event in the ledger says so yet.

**Async** is `aio.py` on the queue's tables: workers are coroutines, their calls are
`jobs` for the one `thread`. A job starts (clock and, for fail, attempts are read) and
finishes (the transaction) in two steps, so other processes come in between. `Cancel`
strikes an await: a job that has not started may be taken back, one that runs is not
stopped and its result is lost, and a settler keeps its handle. `closer` follows
`close()` through its own job and the shutdown that blocks the loop. An answer that
is cancelled on its way from the thread to the loop is the same as a cancellation
while the job runs.

**MC...** modules give TLC the instances. The theorems are in **QueueProofs**,
**StatementsProofs**, **BoardProofs** (of `Board` and `Views`), **AsyncProofs**,
**MigrationProofs**, **StreamProofs**, **PatchesProofs** and **BudgetProofs**; the
three after the first build on its lemmas about rows and events.

A definition named after a fault (`EligibleAnyStatus`, `VerdictAllowingEqual`,
`SelectInAutocommit`, ...) is a plausible mistake next to the operator it would
replace; it is used by nothing, and exists to show that a property can fail.

## What is checked

| Run | Question | Bounds |
|---|---|---|
| `queue_lifecycle` | Ownership, order of the ledger, retries and finality under crashes and errors | 3 workers (2 of one agent), 2 tasks, limits 0, 1, 2, 2 clock values, claims until 3 events |
| `queue_routing` | Is every claim earned, open or stale, in order; do the counters equal the ledger | 2 agents, 2 tasks, open and signed, 2 priorities, 3 clock values, claims until 4 events |
| `statements` | Do the statements add up to atomic transactions; does the lock always come back, does every call return, is the foremost task claimed | 2 workers, 2 tasks, 2 clock values, 3 events, no symmetry |
| `async` | Do rows follow the ledger whatever cancelled coroutines and the command line do; is the shell the sync queue until a cancellation; does every await end, and close last | 2 coroutines, 1 operator, 1 task, limits 1 and 2, claims until 2 events, no symmetry |
| `board_safety` | Are references, provenance, the dossier and the audit row intact, and what readers see of a piece, while replay, purge, post, honor, pages, diagnoses and a worker interleave | 2 task ids, 1 worker, 2 clerks, 1 intervention, 2 clock values, claims, replays, honors and diagnoses until 4 events |
| `migration` | Does an open connection see the whole schema, does one process run the script, does everyone open in the end | 3 openers, a script of 5 tables, no symmetry |
| `stream` | Is every event delivered once, in order, and in the end; is the connection never silent too long | 2 tasks, 2 kinds (1 wanted), 4 events, batches of 2, connections of 3 events, no symmetry |
| `patches_safety` | Who may touch a candidate, what promoted a patch, is retirement final, can a row raise, is the candidate applied last in effect | 2 agents, 2 signatures, 2 patches, 3 outcomes each, thresholds 2 and 3, 6 transformers (3 malformed), 2 payloads |
| `budget` | Is an allowance warranted, how many tasks are settled past the limit, do refusals end, is exhaustion announced | 2 workers, 5 configurations (two lifetime, windowed, soft, zero) or none, 3 ages, 0 or 1 token per event, no symmetry |
| `cli_fail`, `honor_twice`, `async_timeout` | Violations: the code does not do what its documents say (see below) | the smallest instance that shows it |

Bounds. `MaxEvents` stops only claims, so a held task can always be settled and the
ledger grows past it by the tasks in hand. Three and four events are a claim, a
release, a reclaim and its release: every two-step pattern of one task (claim,
fail, requeue, claim, park) and every interleaving of two tasks. `StaleOpen` 1
with three clock values lets a task be fresh, just short of stale and stale.
Deadlock is checked everywhere: a worker can always start a call and any call can
raise; after a close, `CloseAgain` is still possible. Tasks are
interchangeable and used as a symmetry set in the safety runs.

In `board_safety` two ids are a failed source and its replayed child, a failure and
its baseline, or two purgeable rows; two clerks are every pair of racing calls. There are no command
lines there: an operator can complete a failed task, and then "the failed task
stays" is false by design of `_mark_*`. Five tables in `migration` stand for all
statements of the script: what matters is that there is a first, a last and some
between. Three openers are a migrator, one that failed at the first CREATE and one
that has not looked yet. In `stream` a batch of two and connections of three events
make a connection end inside a batch, and the idle limit of 8 lets two heartbeats
(interval 4, poll 2) fall due before it. In `async` two events
stop new calls, not the ones in the queue or cancelled and still running, so a
claim, a complete and the fail that follows it still happen. In `budget`, `Cap` (3) is
above every limit, so every comparison with a limit is exact; what lies above it is
told apart by no property. The oldest of the ages collects everything outside the
window of 2, and two lifetime limits let a check combine one configuration's policy
with the other's limit. In `patches_safety` a patch takes
up to three outcomes, as many as the higher threshold; of the transformers, one
prepends a prompt and one truncates it, so their order shows, and the malformed ones
are an unknown kind, a missing argument and a negative length; of the payloads, one has
a list of messages and one has a text in its place and a prompt longer than the limit.

Properties worth a word:

- `LedgerDeterminesRow`: status, claimant, claim time, attempts and completion
  time of every row are the fold of its events by id. It holds even beside the
  command line and cancelled coroutines, whatever they do.
- `TrackRecordIsLedger`: the counters that routing trusts equal the ledger counted.
- `EarnedRouting` ties a claim to the *ledger* (a success by that agent on that
  signature, or a stale task and no decline ever), not to the counter it reads.
- `FailDecisionFresh`: `_mark_fail` reads attempts outside its transaction. Among
  workers that keep to their handles that is harmless, because nobody else touches a
  held row; `FailFollowsAttempts` shows that with a command line it is not.
- `ReplayProvenance` relates the chain of `parent_id`, the row copied before the
  transaction and the ledger: a purge, an id reused, or a source settled in between
  would break it.
- `NothingSkipped` is what makes "reconnect with the last seen id" correct. It
  rests on AUTOINCREMENT: with ids drawn from the rows that remain (`NextIdOfRows`),
  a purge of the newest events makes later ones invisible to a waiting client.
- `ExperimentBoundary` and `PromotedOnOwnSuccesses`: an outcome recorded late,
  after promotion or retirement, may still count, but a patch never reaches a second
  agent before its proposer's own successes promoted it.
- `OvershootBounded`: a check is stale when its claim starts and work in flight is
  never refused, so a budget is overshot, but by at most one task of each worker: none
  settles a second one while the budget refuses. It is counted in tasks because tokens
  have no bound: those of `honor`, `emit_diagnosis`, `emit_state` and the command line
  are refused to nobody.
- `LedgerExplainsRow`: the row a page or entry shows is what some prefix of the shown
  ledger leads to. It rests on the row being read first: read last (`LedgerFirst`), a
  claim in between shows as an attempt nobody made.
- `BaselineIsSound`: a done row stays done and no purge takes it, so the baseline
  of a diagnosis is still a success when its trajectory is read.
- `NoPoisonedRow`: `propose` tries a transformer on the empty payload, on which none
  fires; it is enough because every branch checks its arguments before it looks at the
  payload. Checked only when it fires (`CheckedWhenItFires`), a malformed one gets in.
- `ExperimentInEffect`: canonical patches come first, so none can undo the candidate
  an agent applied last. An earlier candidate of its own may be undone by that one, and
  both are credited with the outcome.
- `ExhaustionAnnounced`: snapshots are stale when they land, but a task settled on an
  exhausted budget is never left without an event that says so, nor one on its way.
  Tokens of other events, those of the `budget_state` event itself included, exhaust a
  budget unannounced until the next task is settled.
- `ForemostIsClaimed`: a conditional liveness property. If from some time on no
  transaction raises and no process dies, workers go on calling, and asking for the write
  lock again and again succeeds in the end, then the task that strictly ranks first
  among those a worker may claim does not stay there for ever. It says nothing of
  the others: a declined task returns to the head of the queue each time, and may
  starve what ranks below it. The bound on events is a disjunct of its conclusion.
- `AtomicQueue`: the refinement; `SelectInAutocommit` (a SELECT before the lock)
  breaks it although the UPDATE re-checks the status, since the loser returns
  "nothing to do" while work is queued.

Fairness. `FairStmtSpec` assumes that a process inside a transaction goes on to its
next statement, and that waiting for the lock ends by getting it or by the
`busy_timeout` that `open_db` sets. Nothing obliges a worker to call, a poster to
post, or a transaction to fail once it runs. `Migration`'s assumes that whoever failed
opens the file again; `AllOpenInTheEnd` is conditional on an end of deaths and on no
death having left a half-made schema. `Stream`'s assumes a client that keeps coming
back (weak fairness of `Connect` and of the generator's idle step) and that does not
for ever leave just before the poll or the next row (strong fairness of these: the
client may leave whenever it likes, but not always at that moment). `Budget`'s
assumes that time passes and that a refused worker asks again, as the poll loop of an
agent does; `ClaimsResume` is conditional on operators leaving the budget alone and on an
end of the tokens that nobody gates, which could keep a window full for ever. `Async`'s
assumes that the thread works and the loop takes up a finished close.

## Where code and documents disagree

Shown by a run:

- A fail can requeue a task whose attempts are used up, when the command line
  declines it and another worker claims it between the SELECT and the UPDATE
  (`cli_fail`). `BEGIN IMMEDIATE` in `_mark_fail` would mend it.
- Two honors that both read the pending intervention both succeed, with two events
  (`honor_twice`), although `interventions.py:194` rules a double honor out. A test
  of `honored_at IS NULL` in the UPDATE would mend it.
- A `complete` that times out on the loop still commits on the thread; the `fail` of
  the usual `except` branch then requeues a task that is done (`async_timeout`), so the
  async surface is not "identical" (`aio.py:12`).

Noticed while translating, each plain from the lines named:

- `max_attempts` does not limit claims: `decline` requeues for ever
  (`queue.py:407`, against `SCHEMA.md:58`).
- Success on an open task earns `open`, not the task's type (`queue.py:349`, against
  `ARCHITECTURE.md:103`).
- `completed_at` stays NULL on failed tasks (`queue.py:376`, against `SCHEMA.md:56`).
- The complete command completes tasks nobody claimed (`queue.py:321`, against
  `_cli.py:645`).
- A purge deletes the ids it selected whatever became of the tasks since
  (`dlq.py:253`), and raises as a whole when one of them has an intervention or a
  replayed child that stays (`dlq.py:272`, against `SCHEMA.md:295`).
- A process that dies in mid-script leaves tables without a version, and every later
  `open_db` fails at `CREATE TABLE tasks` (`_meta.py:109`); `AllOpenInTheEnd` excludes
  just this by `HalfSchemaIsInTheMaking`.
- A `close()` that is cancelled, or runs beside another, returns with the connection
  and the thread still there (`aio.py:158`).
- `promote_eligible` never reads `n_failures` (`patches.py:348`, against
  `SCHEMA.md:162`).
- A budget limit of zero with an enforced policy refuses every claim (`budget.py:249`,
  against `budget.py:126`), while the dashboard shows it as not configured
  (`inspect.py:178`); `check_back_pressure` can combine the policy of one
  configuration with the limit of the next (`budget.py:276`); `Queue.claim` never consults the
  budget (`queue.py:179`, against `ARCHITECTURE.md:208`).
- The tokens of `honor` (`interventions.py:229`), `emit_diagnosis` (`diagnose.py:300`),
  `emit_state` (`budget.py:321`) and the command line's complete and fail count as spend,
  but no check gates them: what a budget is overshot by has no bound in tokens. `emit_state`
  takes its snapshot (`budget.py:311`) before it inserts its own, so it may say "not
  exhausted" in the event that exhausts the budget.
- A check that reads its configuration, then sees operators replace it and a purge lower
  the spend, can allow a claim that no budget in force allowed at any moment of the
  check (`budget.py:276`, `dlq.py:268`); `AllowancesAreWarranted` therefore excepts a
  purge during the check.
- `emit_state` can put an older snapshot after a newer one (`budget.py:311`), so the
  last `budget_state` event may say "under" of an exhausted budget; and a purge lowers
  the lifetime spend (`dlq.py:268`).
- `DLQ.list` is ordered by `created_at` (`dlq.py:121`, against `dlq.py:110`:
  "most-recently-failed first"); the dashboard orders the dead-letter queue by `completed_at`, which is NULL
  there (`inspect.py:146`).
- The task page reads the interventions after the events: one that is honored in
  between shows as honored without its event (`inspect.py:111`).
- When an agent applies two candidates of its own, the later may undo the earlier and
  both are credited (`patches.py:304`).
- The demo seeds track records by task type, but posts its tasks under signatures
  (`demo.py:81`), so its agents are not "earned-eligible" for them.

## What is proved

Every safety property that a passing run checks is also a theorem, for all sets of
tasks, workers, agents and clerks, all limits and all lengths of behaviours. The
theorems rest on the named assumptions beside the constants (NULL is no task, agent,
row and so on; limits and priorities are integers) and on the hypotheses named below,
on nothing else. Each is the conjunct of an inductive invariant; what follows says
which, and why the property alone would not do.

### The queue: `QueueProofs`

| Theorem | States |
|---|---|
| `TypeCorrect`, `Exclusive`, `FailFresh`, `Terminal` | `TypeOK`, `ExclusiveClaims`, `FailDecisionFresh`, `TerminalIsFinal` |
| `QueueKeepsPromise` | `Queue` implements `Ownership` |
| `LedgerTells`, `Alternation`, `TrackRecordTrue`, `Retries` | `LedgerDeterminesRow`, `LedgerAlternates`, `TrackRecordIsLedger`, `RetriesWithinLimit` |
| `Earned`, `Order` | `EarnedRouting`, `ClaimOrder` |

`ClaimInv` is types, `HandleShape` (which worker states carry a handle and a verdict)
and `ExclusiveClaims`. `HandleShape` is needed because `ExclusiveClaims` says nothing
of a worker about to claim: without it such a worker could hold a task already. A claim
takes a queued row, and no handle points at a queued row; a settler changes only the row
of its own handle, and no other handle points there (`HeldRows`, `RowChange`). A held
row therefore changes only through its handle, which makes the verdict of `_mark_fail`
stable. For the refinement, exclusive claims make the owner of a task unique, and each
action becomes one step of `Ownership` on that task or none.

The ledger part is in two layers. `LedgerTold` holds whoever settles what: ids are
unique and below the counter (`LedgerIds`), and every row is what its events say
(`RowTold`). It is kept by one lemma for a claim and one for a settler of any existing
task, so that the async shell and the command line, which keep to no handles, can use
it too. `LedgerOK` adds what needs the handles: claims and releases take turns, the
counters equal the ledger, and `RetryCount`, the strengthening behind
`RetriesWithinLimit`: a claimed task has failed less often than it was claimed, and one
that is not parked less often than its limit, or never. `EarnedRouting` then follows because the
counters the claim reads are the ledger, counted.

### Statements: `StatementsProofs`

`StatementsAddUp`: `StmtSpec => AtomicQueue`. The invariant `StmtInv` says of every
worker that it holds the lock exactly from its first statement on, that the draft is the
committed tables and what its statements did so far (`DraftAt`), and that what its
SELECT chose still ranks first. A commit is then one transaction of `Queue`; every
other statement changes nothing of the committed tables.

### The board: `BoardProofs`

`References`, `Honored`, `PagesAddUp` state `NoDanglingReference`, `HonoredHasEvent`
and `LedgerExplainsRow` with any command lines beside. `Provenance`, `Baseline` and
`Audit` state `ReplayProvenance`, `BaselineIsSound` and `FailedStaysForAudit` under
`Operators = {}`: with a command line, which may complete a failed task, they are false
by the design of `_mark_*`. All are about `ViewsSpec`; `BoardAlone` shows that
`BoardSpec` is included.

`BoardInv` has a part for the tables and the ledger (`LedgerPart`), one for what workers
and command lines hold (`CallersOK`) and one for the clerks' calls (`DeskPart`): what a
call read before its transaction is, at every later moment, still true of a ledger that
has only grown, or its task was purged. That is the whole difficulty of "read first,
write later": `LedgerExplainsRow` needs the row in hand to be explained by a *prefix* of
what the ledger has become. `Undisturbed` is what holds in addition without command
lines: exclusive claims, provenance, and that the rows in the clerks' hands which were
failed or done are so still (`CallFresh`), since nobody but a purge touches them.

### The async shell: `AsyncProofs`

`AsyncLedgerTells`, `CloseAnswers` and `AsSynchronous` state `LedgerDeterminesRow`,
`CloseAnswersAll` and `SyncUnlessCancelled`. `Truthful` holds whatever is cancelled:
`LedgerTold` from the queue, and `CloseInOrder`, by which every coroutine that waits has
a job or the thread to answer it; so when the shutdown has seen the queue empty and the
thread idle, nobody waits. `Synchronous` holds until a call is cancelled or a command
line settles: each job is of the state its coroutine is in (`InStep`), a coroutine has
one (`OneCallEach`), and every claimed task has a holder.

### Opening: `MigrationProofs`

`OpenIsWhole` and `MigratesAlone` state `OpenSeesWholeSchema` and `OneMigrator`, for
any set of openers and any script of distinct statements. `MigrationInv` adds three
facts. `PrefixMade`: the tables are always a prefix of the script; after a death there
is no process left whose position would say so, and without it a half-made schema could
let a later opener past the first CREATE. `Progress`: a process past the first CREATE
has made exactly what is there. `VersionMeansComplete`: a recorded version is one of a
complete schema.

### The stream: `StreamProofs`

`NoGap`, `LedgerOrder` and `Heartbeats` state `NothingSkipped`, `InLedgerOrder` and
`NeverSilentForLong`. `ORDER BY id LIMIT n` is `Lowest`; `Positions` and `LowestRows`
show, by counting, that ranking by the number of lower ids enumerates the rows, so a
batch is in order and leaves out only what lies above it. `StreamInv` needs
`IdsInOrder`, about the rows there are and the copies in the batch and with the client
(a purge deletes rows, not copies; AUTOINCREMENT keeps their ids from being used again),
and `BatchContinues`: the batch in hand goes on where the client is, without a gap.

### Patches: `PatchesProofs`

`Boundary`, `EarnedPromotion`, `Final` and `PatchesTyped` state `ExperimentBoundary`,
`PromotedOnOwnSuccesses`, `RetiredIsFinal` and types. `PatchesInv` adds three facts.
`UnusedIsFresh`: no outcome is recorded for an id that has no row yet, so a new patch
starts from nothing. `CanonicalIsPromoted` makes what `find_applicable` lets through the
proposer's own or promoted. `CandidateCountsItsProposer`: until a patch is promoted its
`n_successes` is the number of successes of its proposer, which is what the promoter's
WHERE clause compares; it rests in turn on the boundary, since nobody else can have
recorded one.

`NothingPoisoned` and `TrialInEffect` state `NoPoisonedRow` and `ExperimentInEffect`,
which are about what transformers do. Their hypotheses say what a payload is: NULL is
neither an input nor a dict nor a list (`NullIsNoPayload`, because a raised error is
NULL in the model); and, for the second, lengths are numbers and lists are sequences in
the inputs and transformers (`TypedPayload`, `TypedTransformer`). `WellFormedRows`:
whatever got into the table passed the checks of its arguments, although it was tried on
the empty payload only. `TransformedShows` is then the effect of one transformer, and
`ComposeShows` that of all of them in order: the candidate on trial is the last
candidate, and only candidates follow canonical patches, so nothing undoes it. The
induction over the order is done by a least counterexample (`LeastNatural`,
`StepByStep`).

### The budget: `BudgetProofs`

`Warranted` and `Announcement` state `AllowancesAreWarranted` and
`ExhaustionAnnounced`. `SpentInOrder`: the sums grow with the age asked for, which is
why time never raises a window's spend. `SumsAreOpen`: a check about to sum was
warranted when it read its configuration, or the limit it read is reached already and
only a purge could bring the spend back below it. `SomeoneWillAnnounce`: while an
announcement is owed some worker has yet to take its snapshot, or took one of the
configuration in force, or carries one that says "exhausted".

`Overshoot` states `OvershootBounded`, for any number of workers and any `Cap`, beside
spending that nobody gates. `LateOnesAreRefused` is the invariant: a worker that has
settled a task since the budget refuses is not at work or allowed, nor about to be, because
whatever configuration it reads from then on is the one in force and is exhausted. When
the budget stops refusing, nobody is late any more.

### Only model-checked

Liveness under fairness is beyond the prover: `LockReleased`, `CallsReturn` and
`ForemostIsClaimed` of the statements, `AwaitsEnd` of the shell, `AllOpenInTheEnd` of the
migration, `EveryEventArrives` of the stream, `ClaimsResume` of the budget. The three
violations are TLC's counterexamples. `Payloads` has no module of theorems of its own; its
operators are reasoned about in `PatchesProofs`.

## Not modelled

Printing, argument parsing, the SSE wire format, HTML and HTTP. `demo.py` is a
scripted, single-process run over the other parts. Of `inspect.py` and `_cli.py` the
panels and listings that are one SELECT (depth, recent tasks, recent events, budget,
patches) have no interleaving of their own and change nothing. Of payloads only what
transformers and the diff tell apart; sizes, confidence and the prompt of a dossier are
left out. A worker that dies between settling and announcing is not modelled: the
exhaustion then stays unannounced until the next `emit_state`. SQLite is external: one
writer, rollback on death, foreign keys as declared.

## Plan

1. done: `Ownership`, `Queue`, `QueueStatements` with its liveness, `CliOperator`;
   `Board`, `Views`; `Migration`; `Stream`; `Payloads`, `Patches`; `Budget`; `Async`;
   a theorem for each safety property of a passing run.
2. Theorems worth adding: that `AsyncSpec` without cancellations implements the queue
   step by step, as `Ownership` (now only its invariants are shown); the command line
   beside handles keeps `LedgerTold` as a theorem of `CliOperator` itself; what
   survives of `ReplayProvenance` when a command line settles a failed task.
