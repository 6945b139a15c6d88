# BeyondQuant: a verification project in TLA+

BeyondQuant is a research and simulation platform for A-share strategies. A
FastAPI backend keeps everything of value in PostgreSQL; a gateway and a runtime
adapter connect an external agent runtime to it; small polling processes
("workers") carry out the long-running work. There is no message broker: a
queue is a table, a worker's right to a row is a lease plus an attempt number,
and what a worker computed counts only if its last transaction finds both still
valid. This directory holds TLA+ modules of the parts of that design that are
hard to test, the TLC configurations that check them, and TLAPS proofs.

Run everything inside this directory:

    tlc -workers 2 -config FactorJobs.cfg FactorJobs
    tlapm FactorJobsProofs.tla

Every model `M` with theorems has them in a module `MProofs` of its own: the five queues,
the paper ledger, the continuation protocol and the feedback relay.

`PROJECT.json` lists components, runs, mutants, hazards, findings and theorems,
and maps every definition to the source lines it models.

## 1. Inventory

### Components, their state and their operations

| Component | State | Operations | Correct when | Module |
|---|---|---|---|---|
| Business Job projection (`business_job.py`) | none; reads every Job table | projects a row on one status vocabulary | a Job moves only along the advertised lifecycle, a result appears only with completion | `JobLifecycle` |
| Factor queue (`factor_job.py`, `factor_submission.py`, `workers/factor`) | `factor_jobs`, Artifacts | create, cancel, claim, execute under a row lock, complete, fail, emit audit | one owner per attempt, Artifact and completion atomic, one audit event | `FactorJobs`, `FactorJobsProofs` |
| Backtest queue (`backtest.py`, `workers/backtest`) | `backtest_jobs`, object directory, Artifacts | create, cancel, delete, collect objects, requeue stale, pick, claim, compute, store, complete, retry | completed rows have Artifact and object, one worker per attempt, Jobs end | `BacktestJobs`, `BacktestJobsProofs` |
| Optimization queue (`optimization_job.py`, `workers/optimization`) | `optimization_jobs`, Artifacts; cites backtests | submit, cancel, claim, rank, commit, fail | cited sources survive, comparison exactly for completed Jobs | `OptimizationJobs`, `OptimizationJobsProofs` |
| Market-data sync (`data_sync.py`, `workers/data`) | `data_sync_jobs`, market tables | create, claim, fetch, import and checkpoint, finish | imports once per symbol, reports match what is stored | `DataSyncJobs`, `DataSyncJobsProofs` |
| Paper trading and stock pools (`paper_trading.py`) | accounts, positions, orders, ledger, snapshots, controls, pools | create, order, settle, rebind, delete, controls, pool edits and lifecycle | books reconcile, frozen universe, T+1, sufficient cash, final days | `PaperTrading`, `PaperTradingProofs` |
| Research store (`research.py`) | tasks, experiments, Artifacts, ML studies | create, transition, archive, complete with evidence | a task or study is at rest only when nothing of it is unfinished | `MLRuns` for studies; Artifacts as far as Jobs use them |
| Audit emitter (`audit_event.py`) | external sink | emit, best effort | never blocks or duplicates | in `FactorJobs` |
| Signal queue (`signal_producer.py`, `workers/signal`) | `signal_producer_jobs` | create, claim, publish, cancel | ends after a crash | its results, in `TaskContinuation` |
| ML training and prediction (`ml_training.py`, `ml_prediction.py`, `workers/ml`) | runs, preparation claims, Artifacts | submit, prepare, repair, promote, claim, publish, complete, fail, cancel | one active run per submission, one outcome per attempt, runs end | `MLRuns`, `MLRunsProofs` |
| Data demands, market automation and readiness, stock-pool producers | demand, automation and producer rows | derive jobs, repair data, publish snapshots | one job per session or demand, a snapshot published once | the repair request, in `MLRuns` |
| Continuation ledger (`research_continuation.py`) with the Gateway's poller (`task_continuation.py`) | reservations on the task's row, the cancel marker | reserve, claim, dispatch, record receipts, revoke, cancel | a signal starts the model at most once, a cancelled one never, an accepted one is settled | `TaskContinuation`, `ContinuationPromise`, `TaskContinuationProofs` |
| Domain-call admission | claims, receipts, ingress evidence | admit, claim, settle | no root closes over a call of unknown outcome | whether a root has such calls, in `TaskContinuation` |
| Judgment | dispatches | claim, dispatch, settle | a judgment dispatched at most once | not modelled |
| Agent research, approvals, execution plans (`agent_research.py` and others) | approvals, plans, effects | request, decide, execute | no effect without its approval | not modelled |
| Product feedback (`product_feedback.py`, relay, Hub, publisher) | drafts, two outboxes, Hub records, queue, issues | submit, withdraw, deliver, moderate, dispatch, publish, report back | one issue at most, none for what was withdrawn or rejected, every delivery ends | `FeedbackRelay`, `FeedbackHub`, `FeedbackRelayProofs` |
| Workspace reset and operator fence | epochs, fences | reset, fence | no work of the old epoch survives | not modelled |
| Gateway (sessions, containment, delivery) and conversation catalog | sessions, holds, traces | open, hold, cancel, idle release, restore, deliver | a held session is not released, a terminal event is acknowledged | `TaskContinuation`, as far as continuations use it |
| Runtime adapter, ACP product runner | prompt keys, the current root, receipts, slots | submit prompt, cancel, acknowledge, release | one root at a time, one run per key | `TaskContinuation`; slots not modelled |
| Learning loop, users and policy, credentials | lessons, sessions, bindings | single-row updates | | not modelled |
| Data provider, database access | external | fetch; transactions | | seen through their callers |
| Plugin center, engineering, operations, MCP server, frontend, contracts | projections, none | | | not modelled |

### How they interact

The API process writes rows and never calls a worker. Workers find rows by
polling and talk to each other only through the rows they claim. The backtest and
the optimization queue share `backtest_jobs`: a comparison takes its candidates
`FOR SHARE`, a deletion takes its row `FOR UPDATE` and then looks for a citing
comparison. Every Job store publishes Artifacts through the research store. The
paper ledger reads pool snapshots, which users and pool producers replace. An ML
study's requests serialize on an advisory lock, its workers do not take it.

Two chains leave the database. A ready signal makes the Gateway's poller reserve a
continuation in the Backend, fence it, and post a prompt to the runtime adapter, whose
receipts it carries back: three processes, no common transaction, and only the Backend's
rows and one marker file survive a crash. A feedback goes from the installation's outbox
over a relay to the central Hub, from the Hub's outbox over a Cloudflare queue to a
publisher and to GitHub, and its status comes back the same way.

### What is hard

- *Leases judged by different clocks.* `claim_next` compares with the worker host's
  clock, reports compare with `clock_timestamp()`. The clocks may disagree.
- *Late workers.* A worker whose lease ended still reports: every report must be fenced.
- *Crashes between two commits*, in particular between publication and acknowledgement.
- *Lost answers*: a commit that succeeded and was reported as an error.
- *Work outside transactions* (computing, objects on disk) committed later on facts
  that were read earlier.
- *Boundaries without a transaction*: a prompt, an intake or an issue may have been
  created although no answer came back; it must not be created twice, nor forgotten.
- *Stopping what may already run*: cancel and withdraw race dispatch and delivery.
- *Awaits inside a handler*: a Durable Object reads, awaits and writes while another
  request does the same.
- *Free order of operations* in the ledger: the caller chooses every trade date.
- *Termination* when every process may crash at every step.

`PROJECT.json` lists these as hazards, each at its line, with the properties that
would catch it.

## 2. Modules

**JobLifecycle** is the abstract specification: the statuses a Job shows its owner
and the eight transitions between them (submit, start, retry, succeed, give up,
withdraw, purge, stay). An attempt is counted and never exceeds its budget; a result
exists exactly from `Succeed` on; a terminal Job moves no more, except that its row
may be removed. One transaction of a store may move several rows, so `Next` lets every
Job make one transition per step. The five Job stores below (factor, backtest,
optimization, sync, ML) are checked to implement it (`LifecycleSpec`). A sync job's *partial* outcome counts
as completed, since it does carry results.

**FactorJobs.** Variables are the columns of `factor_jobs` that decide anything
(`status`, `created`, `attempts`, the lease, the result reference), the state of the
Artifact under the Job's result key, and each worker's program counter, claimed Job,
claimed attempt and deferred audit observations. Every store method is one
transaction and one action. The worker's execution transaction is the
exception: it holds the row `FOR UPDATE` during the computation, so opening it,
`submit_factor` and the commit are three actions and all others can run between.
Its writes become visible only when it commits, which is when the model makes them.
There is no clock: `lapsed[j]` is the set of clocks (one per worker host, one of the
database) by which the lease of row `j` is over; any subset can occur. `Inherited`
rows are rows that an older worker, which published and acknowledged in two
transactions, left running; the code has a recovery path for them.

**BacktestJobs.** As above, but a claim is four steps in the code and in the model:
requeue stale rows, read a queued id, the guarded `UPDATE`, and a second read that
supplies the attempt number. The result object is written outside every transaction;
deletion is three actions (the row lock, the search for a citation, the commit), as
other transactions run between its statements; object collection is a separate
best-effort step of the API thread.

**OptimizationJobs** extends `BacktestJobs` and composes the two queues. Submission is
three actions (candidate locks, checks, insert and commit) because a deletion can run
against it: without the shared locks each would miss the other.

**DataSyncJobs.** One action per checkpoint transaction. `imports` counts, as a history
variable, the imports made for each symbol of each job; `CheckpointFails` is a commit
that raised, whether it took effect or not.

**PaperTrading.** One account and the pools it can be bound to; each operation holds
the row it changes, so each is one action. Money is in units of 0.0001 CNY, the scale of
the columns, and quantities in lots. Any positive price is one the caller may state. Fees,
minimum fee and tax are computed as in the code; with prices in whole fen they are whole
units, and what a finer price leaves over is cut off here and rounded there.
`seen` is what a caller last read and bases its `expected_version` on.

**MLRuns.** One study with its training and prediction rows. Requests that take the
study's advisory lock (train, predict, archive, restore, delete) are two actions: `Begin`,
which takes the lock and makes the checks, and the commit; `open` is the set of requests in
between. What a worker does is one guarded statement per action. A training row waits
for data first: a worker claims its preparation under a ten-minute lease, assesses
readiness, requests a repair or promotes the row, and releases it; `recoveries` counts
takeovers of a lapsed claim, which the code bounds by two. An attempt publishes its
Artifacts in `LastStage` transactions of their own and then completes, fenced by worker
and attempt. The data repair is worked on (`open`), over (`ended`), or stuck (`lost`): a data
worker that dies in a session job and starts again before that job's lease of 900 s is over
leaves the job running, and `reconcile_data_repairs` skips the repair from then on
(`SessionLost`). A start after the lease recovers it (`SessionRecovered`); an assessment that
fails or finds the data ends it all the same; somebody else's request reopens one that has
ended (`Reopen`). The refinement of `JobLifecycle` starts where the input is frozen
(`prepared`): before that a training row is a request, not yet a Job.

**ContinuationPromise** is the abstract specification of a continuation: each signal is
reserved once, then cancelled before its dispatch or dispatched for good; the model starts
only for a dispatched signal, and once; settlement comes when the run is over and is final.
Its variables are the ledger's commitment, the number of runs and the running processes.

**TaskContinuation.** The v3 reservation protocol, with one conversation and the signal
Jobs of its task. The Backend's part is the ledger (`entry`, `attempts`, `bound`,
`cancelAt`) and every operation on it one action, since each locks the task's row. The
adapter's part is the current root, the keys it knows and the receipts it keeps; all of it
is forgotten in `AdapterCrash` and `IdleRelease`. The Gateway's part is the poller, with a
program counter because every request it makes is a step of its own, the cancel handler,
which runs beside it in three steps (read the root, write the fence, stop the root), the
session hold and the marker file. `post` is the prompt request, which may arrive after its
sender gave up. A process may survive the adapter (`live`), as nothing in the code rules
that out. A receipt settles only with all its evidence: the process gone, the terminal event
acknowledged, and no `gaps`. A gap is *open* (a request proxy not closed, calls not
acknowledged) or *unproven* (a provider request without its one known answer, a guard or usage
that cannot be read), and an unproven run keeps its receipt unknown for good, in `shelved` even
after another root has replaced it. `liable` is what the Backend sees of that: roots with
domain calls that are pending or unknown, which it neither closes nor settles. So a settlement
may never come, and ADR-0105 section 5 wants that. `faults` bounds crashes, lost answers,
calls that stay open and proofs that are lost together. `PromiseSpec` maps the ledger's
statuses to commitments: *outcome_unknown* and *accepted* are both dispatched.

**FeedbackHub** and **FeedbackRelay.** `FeedbackHub` has the Hub's two tables, moderators,
dispatcher, queue, publishers and GitHub; `FeedbackRelay` extends it with the owner's
rows and the relay, and is the module the runs check. A D1 statement or batch is a step,
and handlers that read before they write are two. Queue delivery is at least once up
to a drop (`dropped`), and a create or intake request may take effect after its
caller's timeout (`late`, `lateIntake`).

## 3. Runs

| Run | Instance | What it shows |
|---|---|---|
| `factor` | 2 Jobs (1 inherited), 2 workers, 2 attempts | row lock, fence, atomic publication, unique audit event, live attempts kept, implements `JobLifecycle`, every Job ends |
| `backtest` | 1 row, 2 workers, 3 attempts | completed rows have Artifact and object, implements `JobLifecycle`, whatever late workers, cancels, deletions and object collections do |
| `backtest_fence` | 1 row, 2 workers, 2 attempts | violation: two workers under one attempt |
| `optimization` | 2 backtests, 1 comparison, one worker each, 2 attempts | cited sources kept, comparisons exactly with completion, lifecycle, termination |
| `data_sync` | 1 job, 2 symbols, 2 workers, 3 attempts | imports once, truthful reports, final checkpoints, lifecycle, termination |
| `paper` | 2 symbols, 1 pool, 2 prices, 2 dates, 3 fills, 1 pool change | books, universe, versions, daily results, settled sales, a debt of at most one minimum fee per fill, final days |
| `paper_tplus_one` | 1 symbol, 2 dates, 2 fills | violation: T+1 |
| `paper_cash` | cash for one lot without the minimum fee | violation: sufficient cash |
| `continuation` | 2 signals, 1 fault | at most one run per signal, none for a cancelled one, settlement only of what is over, accounted for and proven, a marker removed only when quiet, implements `ContinuationPromise`, accepted continuations settle unless one of these never comes |
| `feedback` | 1 relay, 2 publishers, 1 moderator, 2 attempts each, 2 message copies, 1 fault | at most one issue, none for a withdrawn feedback, truthful status, deliveries and publications end |
| `feedback_reject` | 2 moderators, no fault | violation: a rejected feedback is published |
| `ml` | 2 trainings, 1 prediction, 2 workers, 2 attempts, 1 takeover | studies at rest have no active run, one active training, lifecycle, every run ends unless its repair is stuck or reopened for ever |

*Why the bounds are enough.* A takeover needs two workers and two attempts: the
late worker, its successor, and the budget reached by the second. Three clocks (two
hosts, one database) can disagree in every way. Two Jobs are needed because one claim
may settle one row and start another, and because a waiting Job can be starved. A
comparison needs two candidates (`Cardinality(C) >= 2`, as in the code). In the sync
run, three attempts let a second takeover find the checkpoints of two predecessors,
and two symbols give the *partial* outcome. In the ledger, three fills over two dates
with a settlement between them make a position go through zero and come back, and
two prices let an order be affordable at one and not at the other; one lot is worth 2 CNY at
the lower price, less than the minimum fee, so that a sale can cost cash. In `continuation` two
signals give the hold of one row beside the reservation of another and a root that
replaces another; one fault is enough to put a crash, a lost answer, an open call or an unprovable run at any single
step, and each property has a mutant that needs no more. In `feedback` the second
publisher and the second attempt give the lease that passes on while its first holder
works; eight and six attempts in the code differ from two only in length. In `ml` two
training rows give two submissions that race, two workers and attempts a takeover; one
transaction of publication instead of four is enough, since what another worker can see of
it is only that it is not over.

*Under a condition.* Three more configurations restrict the behaviours by an action
conjoined with `Next`, for theorems that do the same. The code enforces none of the three
conditions: each is the assumption under which a property that a finding refutes
holds after all, and so says how far the finding reaches.

| Configuration | Condition | What holds |
|---|---|---|
| `BacktestTimely.cfg` | `ReadInTime`: no lease ends between a claim and the read that follows it at once, a moment against 15 minutes; everything after that read may be as late as it likes | one worker per attempt |
| `PaperForward.cfg` | `InDateOrder`: an order that fills is dated neither before another fill nor before the last settlement, as a caller does who trades day by day | T+1 |
| `FeedbackModerated.cfg` | `OneAtATime`: no administrator reads a feedback while another one's decision is being written | nothing rejected is published, an announced rejection is final |

*Types.* The runs do not repeat the type invariants, which are theorems of all eight
proof modules; nor `CheckpointsShared`, whose consequence `CheckpointsFinal` they check.

*Deadlock* checking is off in all runs: when every Job has ended and no owner asks for
another, nothing is left to do.

*Fairness.* Workers are supervised and poll for ever, a computation and a provider
call end, an opened API transaction ends, and clocks advance: weak fairness of each
worker step and of `Lapse`. Nothing is assumed of owners, moderators, other
producers or crashes, so a worker may crash at every attempt. In `continuation` the poller
and the delivery of terminal events loop for ever, the adapter answers, a run ends (its
watchdog sees to it) and a handler returns; nothing makes a call be accounted for, or the
adapter close what is open, and while it is open the acknowledgement may fail: `AcceptedSettles`
excepts what stays so for ever, and it excepts a lost or an unproven run. In `feedback` the relay, the cron dispatcher
and the queue go on and leases run out. These steps are strongly fair.
`ClaimBacktest`, because a crash between reading an id and claiming it uses up no
attempt, and a run that crashes exactly there for ever is not one a supervisor
produces. `CommitComparison`, because PostgreSQL queues the waiters of a row
lock, so refused deletions cannot overtake it for ever. The three claims of the ML
worker, because a crash between two polls uses up no budget, and the processes do not
die there every time. `RepairEnds`, because the data worker does not die in every session job.
But nothing makes it start late enough to recover one that it did die in: `SessionRecovered` has
no fairness, and `EveryRunSettles` excepts a repair that stays lost for ever, as it does one that
others reopen for ever.

*Mutants.* For every property of every passing run `PROJECT.json` names a change of the
model that a plausible bug would make (a forgotten budget, an unfenced update, a
missing `FOR SHARE`, a publication in its own transaction) and that the property
catches. They are the operators marked *Mutant* beside the definitions they replace.

## 4. Findings

1. **Backtest claims** (`backtest.py:1838`, `backtest_fence`). `claim()` commits and then
   reads the row again in a second transaction; the worker takes its fence from that
   read. A worker that stalls there for longer than the lease reads the attempt number
   of its successor: two workers hold one attempt. The docstring calls claim "the atomic
   execution gate". What completes stays sound all the same: in the same instance,
   `backtest` shows that `CompletedHasResult` and the lifecycle hold. And that window is the
   only one: when the read comes before the lease ends, an attempt has one worker, whatever
   late reports, requeues and deletions do (`AttemptsFenceInTime`).
2. **T+1** (`paper_trading.py:2017`, `paper_tplus_one`). A sell is checked against the
   sellable quantity only, its date against nothing: a buy dated day 1, a settlement of
   day 2, then a sell dated day 1 is filled. What does hold, for every order of dates: no sale
   takes lots bought after the last settlement (`SalesWereSettled`). T+1 itself holds when
   orders come in the order of their dates (`TPlusOneInOrder`).
3. **Minimum fee** (`paper_trading.py:2020`, `paper_cash`). The estimate of a buy has
   the proportional fee, the charge has a minimum of 5 CNY: cash can become negative. A sale is
   not checked against the cash at all (`paper_trading.py:2014`), and one worth less than its
   fee takes cash away, also from an account in debt: a sequence of small sales drives the debt
   without bound. What holds is that each filled order adds at most one minimum fee to it
   (`DebtIsFees`).
4. **Rejected feedback is published** (`feedback-hub-cloudflare/src/index.ts:439`,
   `feedback_reject`). `moderate` batches a status update guarded by the status it read
   with an outbox insert that has no guard. When two moderators read *triaged* and the
   rejection commits first, the accept changes no feedback row and is answered with 409,
   but its outbox row stays and is dispatched. The contract says only `accept` creates the
   outbox row, and atomically with the status. With decisions one at a time nothing rejected is
   published, and an owner told of a rejection can rely on it (`AcceptanceComesFirst`,
   `RejectionsAreFinal`): the insert without a guard is the whole of it.

## 5. Proofs

The runs check small instances; the theorems hold for every value of the constants: any
sets of Jobs, workers, symbols, publishers and callers, and any budgets and bounds that the
assumptions below allow.

| Module | Theorem | States |
|---|---|---|
| `FactorJobsProofs` | `TypeCorrect` | `TypeOK`: attempts never exceed the budget |
| | `RowLockProtects` | an open execution transaction keeps its row running under its attempt |
| | `AttemptNumbersFence` | attempt numbers are unique among a Job's workers |
| | `PublicationIsAtomic` | a validated result exists exactly for completed Jobs |
| | `AuditIsUnique` | a completion is announced at most once, after it committed |
| | `LiveAttemptsAreKept` | the action property `LiveAttemptKept` |
| | `ImplementsLifecycle` | `Spec => LifecycleSpec`, the refinement |
| `BacktestJobsProofs` | `BacktestTypeCorrect` | `BacktestTypeOK` |
| | `CompletionHasResult` | a completed row has its Artifact and its object |
| | `AttemptsFenceInTime` | one worker per attempt, under `TimelySpec` |
| | `BacktestImplementsLifecycle` | the refinement, although two workers may share an attempt |
| `OptimizationJobsProofs` | `TypeCorrect` | `TypeOK` of both queues |
| | `CitationsHold` | a cited backtest is there, completed, with Artifact and object |
| | `ComparisonsAreOfCompletedRows` | a comparison exists exactly for completed rows |
| | `ImplementsLifecycle` | the refinement, for both queues side by side |
| `DataSyncJobsProofs` | `TypeCorrect` | `TypeOK` |
| | `ImportsAreUnique` | each symbol of a job is imported at most once |
| | `ReportsAreStored` | what a job reports as stored is stored |
| | `CheckpointsAreShared` | the current token's holder knows its predecessors' checkpoints |
| | `CheckpointsAreFinal` | the action property `CheckpointsFinal`: none is opened again, no ended job's report changes |
| | `ImplementsLifecycle` | the refinement |
| `MLRunsProofs` | `TypeCorrect` | `TypeOK` |
| | `ArchivedIsAtRest` | a study at rest has no active run |
| | `SubmissionsConverge` | at most one active training run |
| | `ImplementsLifecycle` | the refinement, from the frozen input on |
| `PaperTradingProofs` | `TypeCorrect` | `TypeOK` |
| | `PositionsPartitioned` | no lot is negative, each is sellable or locked |
| | `BooksAddUp` | cash and positions are the sums of the order history |
| | `ResultsAddUp` | the daily results sum to the settled equity less the initial funding |
| | `SalesWereSettled` | no sale takes lots bought after the last settlement |
| | `TPlusOneInOrder` | T+1, under `ForwardSpec` |
| | `DebtIsFees` | the debt is at most one minimum fee per filled order |
| | `UniverseIsFrozen` | what is held belongs to the bound snapshot |
| | `VersionsAreSound` | a version that is current was read with the present account |
| | `SettlementsAreFinal` | the action property `SettledDaysAreFinal` |
| | `BooksAreReplayed` | a replay of the order history gives the cash and every position, never short of a lot |
| | `ResultsAreMeasured` | a day's profit is measured from the settlement right before it |
| `TaskContinuationProofs` | `TypeCorrect` | `TypeOK` |
| | `SignalsRunOnce` | a signal starts the model at most once |
| | `CancellationIsEffective` | a cancelled reservation was never sent and never ran |
| | `SettlementIsFinal` | a settled row's process is gone, its root closed, its calls accounted for, its run proven |
| | `CancellationEndsQuiet` | the action property `ClearedIsQuiet` |
| | `ImplementsPromise` | `Spec => PromiseSpec`, the refinement of `ContinuationPromise` |
| `FeedbackRelayProofs` | `TypeCorrect` | `TypeOK` |
| | `OneIssue` | at most one issue per feedback |
| | `WithdrawnStaysHome` | a withdrawn feedback never left the installation |
| | `PublicationIsReal` | the owner is told "published" only with exactly one issue |
| | `AcceptanceComesFirst` | nothing rejected is published, under `ModeratedSpec` |
| | `RejectionsAreFinal` | a rejection the owner was told of stands, under `ModeratedSpec` |

*Assumptions*, all evaluated by TLC in the runs. Budgets of attempts, deliveries and
publications, the message bound of the Hub and the number of publication stages are
positive naturals; takeovers and faults are naturals. The
database's clock is not a worker's. The factor queue's Jobs are finite and contain
`Inherited`, the symbols of a sync job are finite and not empty, a training is not a
prediction, no Job is called "none". The paper ledger's amounts and the
initial cash are positive; its limits and bounds are naturals, that of the versions
a positive one. Nothing else limits the number of workers, relays, publishers, callers or
rows, and no proof uses fairness.

*Argument.* Each proof is an induction over a conjunction (`IInv`, for the backtests
`BInv`) of named parts. TLC checked them as invariants of the module's runs before
they were proved, except for the replayed books of the paper ledger, whose running totals
range over functions into the integers. The properties alone are not inductive; what has to be
added is the reason the code is right:

- `FactorJobs`. The row lock keeps a row unchanged only because attempts fence every
  other worker; publication follows completion only because the committing worker's row
  still runs; an observation is unique only because a completed row never
  completes again. `ClaimRows` states once what one claim touches: at most one exhausted
  and one claimable row, unlocked, never the same.
- `BacktestJobs`. A row that a deletion holds is over and stays over (`DeletedIsOver`), so a
  worker that has stored its object finds it again, or its row is gone (`StoredIsThere`).
  No part speaks of unique attempts, since they are not (finding 1): soundness
  comes from the status of the row alone. Under `TimelySpec` they are: while a claim is unread
  its row is nobody else's and its lease runs, and every other worker of that row is an attempt
  behind (`UnreadClaims`). The lemmas take the rows that a comparison shares
  or cites as parameters, so that the next module can use them.
- `OptimizationJobs`. The candidates of a submission are locked against deletion until it
  commits (`SubmissionHolds`), and no deletion that has passed its search for citations
  holds a cited row (`CandidatesComplete`). Either part fails without the other: the shared
  lock closes the gap before the insert, the search the one after. `BInv` supplies
  Artifact and object.
- `DataSyncJobs`. A running row's token is its attempt number (`Tokens`), no two workers were
  given the same one (`TokensDiffer`), so only one can write; that one knows all the
  checkpoints (`HolderKnows`), except the one whose import's answer was lost. An import
  leaves a checkpoint in the same transaction (`ImportsMarked`).
- `MLRuns`. The study's lock is held by one request, and what it decided on is still so when
  it commits (`LockKeepsDecision`), because no worker makes an inactive run active: workers
  take no lock, and this is why they need none. `BudgetLeft` and `FrozenRows` keep
  attempts and frozen inputs apart from waiting rows, `PublishedFirst` puts every Artifact
  before completion.
- `PaperTrading`. A read version is never ahead of the account's (`ReadInThePast`), so a
  step that raises the version makes every reader's stale; no closed day lies after the
  last settlement (`SettledInOrder`). `UpsertRows` and `PromoteRows` say what an order and a
  settlement do to a position. The sums of the books (`Totals`) are folds, and what a fold over
  one element more gives is an induction over data, for which the provers have no rule. The
  rule is proved first: a set of naturals has a least element (`LeastNatural`), hence a set
  that contains zero and every successor is all of Nat (`NatSetInduction`), and likewise for
  the subsets of a finite set (`SubsetInduction`); properties are sets there, so no operator
  has to be instantiated. `SumApart` and `SumExtended` follow, and each fill adds one term to each
  sum (`FillTotals`). T+1 rests on how much of what was bought has been released for sale
  (`Released`): up to the last settlement in general, and up to the day before it when
  dates go forward, because a row's last buy is then its latest (`LastBuys`).
- `TaskContinuation`. The ledger counts the attempt before the poller posts (`Fenced`), and the
  poller posts right behind the fence it has just set (`SentOnce`); what the adapter keeps
  is about a run that took place (`CurrentRoot`). A settled receipt, a settlement and a
  settled row need a run that is over (`SettlementIsOver`), and what is over stays so
  (`OverStays`): nothing posts for it again. A settled receipt is a proven one (`Proven`), and
  the next root keeps an unknown one apart from its own evidence (`Shelved`). For the
  refinement, a step changes the ledger or the runs, never both (`LedgerOrRuns`), so that each
  signal makes one transition of the promise.
- `FeedbackRelay`. The first permit reaches GitHub, no later one does, and its holder is
  alone (`OnePermit`). Whoever says "published" has seen the issue, on every hop back to
  the owner (`PublishedSeen`). A feedback whose delivery was never claimed left no trace
  anywhere (`Unsent`), because a Hub without its row does nothing (`HubAtRest`). With decisions one at a time,
  what a moderator has read is still so when it is written (`DecisionHolds`), so an outbox row
  follows an acceptance (`OutboxFollows`), and whoever says "rejected" on the way back to the
  owner has seen the Hub say so for good (`RejectionSeen`).

Most models have a lemma that says once, with a case for each action, what any step may do
to a single row or process (`EveryRowMove`, `EveryOptRowMove`, `EveryMove`,
`EveryLedgerMove`, `EveryRunMove`, `EveryPollerMove`, `EveryKind`). Wherever the single
action does not matter, the invariants, the action properties and the refinements are
proved from these few kinds of moves. The refinements map the row variables to themselves; a
sync job's *partial* outcome is a completion, an ML run is absent until its input is frozen,
and a continuation whose outcome is unknown is dispatched.

*Only model-checked.* Liveness (`EveryJobSettles`, `EveryRunSettles`, `AcceptedSettles`,
`DeliveryEnds`, `PublicationEnds`), since the prover has no reasoning about `ENABLED`. Every
invariant, action property and refinement that a passing run checks is a theorem.

## 6. Not modelled, and why

Most of the repository is code in which no state changes under concurrency: arithmetic of
factors, backtests, models, rankings and metrics; validators and canonical forms of
contracts; projections for the product API, the MCP facade and the frontend; and the
runtime adapter's relay of an external agent's protocol. It is larger by far than the
transactional core, so the share of all lines that the map covers stays small although
the operations listed above are modelled whole.

Left out of modelled components: realized profit, average cost and the rounding of
`NUMERIC`; bundle export and import of paper accounts; the `--job-id` mode of the backtest
worker; `claim_job` and `run_job` of `data_sync.py` and `retry_failed` of
`ml_training.py`, which only tests call; receipt watches of ML submissions; an ML study's
approval and its backtests; `retry_data_repair`, which nothing calls; the operator's audit that
closes a root over calls of unknown outcome; the v1 and v2 continuation reservations, token budgets and plan
continuations; feedback drafts, rate limits and the historical local publisher; providers'
protocols. Requests with a used idempotency key return the earlier answer or a
conflict, so the models have only first uses.

Components without a module, with the reason for each, are in `PROJECT.json`. The ones a
further module would serve best are the signal queue (no lease), research task completion
(a count of unfinished Jobs), judgment dispatch and approvals.

Some behaviour was met that no property is about, because no document says what should
hold: a data repair, and the training runs that wait for it, stuck behind a session job that a
data worker left running, until a later start of that worker (`market_automation.py:823`,
`1053`; `workers/data/worker.py:62`); a settled continuation whose hold is never released, when its answer was lost and an
earlier row of the ledger is terminal too (`research_continuation.py:1513`); a training
run that fails because its repair completed between the readiness assessment and the
repair request (`ml_training.py:1214`); the Hub's `central_feedback` row, which a publisher
whose lease has passed on overwrites without a fence (`index.ts:504`, `545`, `581`); an
attempt budget tested before the lease (`index.ts:487`), so that a repeated message fails
a publication its publisher is still working on; the equity of a paper account between a fill
and the next settlement (`paper_trading.py:1311`).

## 7. Plan

Done: the business Job lifecycle and the five queues that implement it, the paper ledger,
the continuation protocol across Backend, Gateway and adapter, feedback from owner to
issue; and of all of them the proofs of every invariant, action property and refinement
the runs check. What is left are modules for the components listed at the end of section 6.
