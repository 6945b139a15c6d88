------------------------------- MODULE MLRuns -------------------------------
(***************************************************************************)
(* One machine-learning study: its lifecycle (research.py), its training   *)
(* and prediction queues (ml_training.py, ml_prediction.py), and the       *)
(* worker process that prepares, trains and predicts (workers/ml).         *)
(*                                                                         *)
(* Submitting, archiving, restoring and deleting all take the advisory     *)
(* lock "ml-study|...", look, and write; the lock is held to the commit.   *)
(* open is the set of requests that hold it.  The store methods a worker   *)
(* calls are single guarded statements and take no lock.  All leases are   *)
(* judged by the database's clock, so one set of lapsed rows is enough.    *)
(***************************************************************************)
EXTENDS Naturals, FiniteSets

CONSTANTS
    Trainings,      \* rows of ml_training_runs, all for one task and pool
    Predictions,    \* rows of ml_prediction_runs
    Workers,        \* ML worker processes
    MaxAttempts,    \* max_attempts of both tables
    MaxRecoveries,  \* preparations that may be taken over (2 in the code)
    LastStage       \* transactions that publish a run's Artifacts: a draft and
                    \* its validation, twice (4 in the code)

ASSUME RunsAssumption == Trainings \cap Predictions = {}
ASSUME BudgetAssumption ==
    /\ MaxAttempts \in Nat \ {0}
    /\ LastStage \in Nat \ {0}
    /\ MaxRecoveries \in Nat

VARIABLES
    study,        \* status of the ml_strategy_version Artifact
    open,         \* requests whose transaction holds the study's lock
    status,       \* [Runs -> Status]
    attempts,     \* [Runs -> 0..MaxAttempts]
    lapsed,       \* rows whose lease is over: of the preparation while the row
                  \* waits, of the attempt while it runs
    claim,        \* [Trainings -> Workers \cup {Nobody}], preparation_claim, and
    recoveries,   \* [Trainings -> 0..MaxRecoveries], both kept only while the row
                  \* waits: nothing reads them afterwards
    prepared,     \* training rows with a frozen input
    published,    \* [Runs -> Stages], how far its Artifacts have come
    data,         \* whether the frozen requirement is covered
    repair,       \* the data repair request of that requirement: see Repairs
    pc, job, att, stage   \* worker processes

request == <<study, open>>
row     == <<status, attempts, lapsed>>
prep    == <<claim, recoveries, prepared>>
market  == <<data, repair>>
proc    == <<pc, job, att, stage>>
vars    == <<study, open, status, attempts, lapsed, claim, recoveries,
             prepared, published, data, repair, pc, job, att, stage>>

Nobody   == "nobody"
NoRun    == "none"
Runs     == Trainings \cup Predictions
Terminal == {"completed", "failed", "cancelled"}
Active   == {"waiting_for_data", "queued", "running"}
Status   == {"absent"} \cup Active \cup Terminal
Requests == {"train", "predict", "archive", "restore", "supersede"}

\* The Artifacts of an attempt are created and validated in transactions of
\* their own: feature draft and validated, then model draft and validated, or
\* the same for a prediction and its signal.
Stages == 0..LastStage

\* open     queued, or running in the data worker, which queues it again when it
\*          restarts, or waiting for session jobs that are queued or running
\* lost     waiting for a session job that was left running by a data worker
\*          that died
\* ended    completed or failed
Repairs == {"none", "open", "lost", "ended"}

\* idle     polling
\* assess, repair, promote, release
\*          preparing job[w]
\* run      executing attempt att[w] of job[w]
Preparing == {"assess", "repair", "promote"}
PC == {"idle", "release", "run"} \cup Preparing

TypeOK ==
    /\ study \in {"validated", "archived", "superseded"}
    /\ open \subseteq Requests
    /\ status \in [Runs -> Status]
    /\ attempts \in [Runs -> 0..MaxAttempts]
    /\ lapsed \subseteq Runs
    /\ claim \in [Trainings -> Workers \cup {Nobody}]
    /\ recoveries \in [Trainings -> 0..MaxRecoveries]
    /\ prepared \subseteq Trainings
    /\ published \in [Runs -> Stages]
    /\ data \in {"missing", "ready"}
    /\ repair \in Repairs
    /\ pc \in [Workers -> PC]
    /\ job \in [Workers -> Runs \cup {NoRun}]
    /\ att \in [Workers -> 0..MaxAttempts]
    /\ stage \in [Workers -> Stages]

Init ==
    /\ study = "validated"
    /\ open = {}
    /\ status = [r \in Runs |-> "absent"]
    /\ attempts = [r \in Runs |-> 0]
    /\ lapsed = {}
    /\ claim = [t \in Trainings |-> Nobody]
    /\ recoveries = [t \in Trainings |-> 0]
    /\ prepared = {}
    /\ published = [r \in Runs |-> 0]
    /\ data = "missing"
    /\ repair = "none"
    /\ pc = [w \in Workers |-> "idle"]
    /\ job = [w \in Workers |-> NoRun]
    /\ att = [w \in Workers |-> 0]
    /\ stage = [w \in Workers |-> 0]

----------------------------------------------------------------------------
(* Requests under the study's lock *)

ActiveRuns == {r \in Runs : status[r] \in Active}
Executed   == {r \in Runs : status[r] # "absent"}

\* _ml_study_management_in_transaction: history_count and active_count, which
\* also count the study's backtests; those are left out here, their submission
\* takes the same lock and makes the same check as a prediction's.
HasHistory == Executed # {}
HasActive  == ActiveRuns # {}

\* Mutant: a request reads and decides before it holds the study's lock.
LockableEarly(q) == q \notin open

\* pg_advisory_xact_lock on the study.
Lockable(q) == open = {}

\* What each request re-reads once it holds the lock; anything else refuses it.
\* A prediction names the model of a completed run (prediction_material).
Permitted(q) ==
    \/ q = "train" /\ study = "validated"
    \/ q = "predict" /\ study = "validated"
                     /\ \E t \in Trainings : status[t] = "completed"
    \/ q = "archive" /\ study = "validated" /\ HasHistory /\ ~HasActive
    \/ q = "restore" /\ study = "archived"
    \/ q = "supersede" /\ study = "validated" /\ ~HasHistory

Begin(q) ==
    /\ Lockable(q)
    /\ Permitted(q)
    /\ open' = open \cup {q}
    /\ UNCHANGED <<study, row, prep, published, market, proc>>

\* Mutant: the lookup of an equivalent run forgets those that already run.
EquivalentQueued == {t \in Trainings : status[t] \in {"waiting_for_data", "queued"}}

\* create_waiting's lookup for the same task, strategy and pool.
Equivalent == {t \in Trainings : status[t] \in Active}

\* create_waiting: an equivalent active run answers the new submission,
\* otherwise a row is inserted.
CommitTraining ==
    /\ "train" \in open
    /\ open' = open \ {"train"}
    /\ IF Equivalent # {}
         THEN UNCHANGED status
         ELSE \E t \in Trainings :
                /\ status[t] = "absent"
                /\ status' = [status EXCEPT ![t] = "waiting_for_data"]
    /\ UNCHANGED <<study, attempts, lapsed, prep, published, market,
                   proc>>

\* MLPredictionRunStore.create.
CommitPrediction ==
    /\ "predict" \in open
    /\ open' = open \ {"predict"}
    /\ \E p \in Predictions :
         /\ status[p] = "absent"
         /\ status' = [status EXCEPT ![p] = "queued"]
    /\ UNCHANGED <<study, attempts, lapsed, prep, published, market,
                   proc>>

\* set_ml_study_lifecycle and supersede_unexecuted_ml_study.
CommitStudy(q, s) ==
    /\ q \in open
    /\ open' = open \ {q}
    /\ study' = s
    /\ UNCHANGED <<row, prep, published, market, proc>>

\* The transaction rolls back.
Rollback(q) ==
    /\ q \in open
    /\ open' = open \ {q}
    /\ UNCHANGED <<study, row, prep, published, market, proc>>

\* The row stops waiting.
Unclaim(t) ==
    /\ claim' = [claim EXCEPT ![t] = Nobody]
    /\ recoveries' = [recoveries EXCEPT ![t] = 0]

\* MLTrainingRunStore.cancel: one guarded UPDATE, never of a running row.
Cancel(t) ==
    /\ status[t] \in {"waiting_for_data", "queued"}
    /\ status' = [status EXCEPT ![t] = "cancelled"]
    /\ lapsed' = lapsed \ {t}
    /\ Unclaim(t)
    /\ UNCHANGED <<request, attempts, prepared, published, market, proc>>

----------------------------------------------------------------------------
(* Preparation: promote_waiting_training_runs *)

Goto(w, next) == pc' = [pc EXCEPT ![w] = next]

\* claim_preparation's first statement.
PreparationSpent(t) ==
    /\ claim[t] # Nobody
    /\ t \in lapsed
    /\ recoveries[t] >= MaxRecoveries

\* list_waiting and claim_preparation of one listed run.  The list is read
\* before the claims, but every claim looks at the row again.
ClaimPreparation(w) ==
    /\ pc[w] = "idle"
    /\ \E t \in Trainings :
         /\ status[t] = "waiting_for_data"
         /\ claim[t] = Nobody \/ t \in lapsed
         /\ lapsed' = lapsed \ {t}
         /\ IF PreparationSpent(t)
              THEN /\ status' = [status EXCEPT ![t] = "failed"]
                   /\ Unclaim(t)
                   /\ UNCHANGED <<pc, job>>
              ELSE /\ claim' = [claim EXCEPT ![t] = w]
                   /\ recoveries' = [recoveries EXCEPT ![t] =
                          IF claim[t] = Nobody THEN @ ELSE @ + 1]
                   /\ job' = [job EXCEPT ![w] = t]
                   /\ Goto(w, "assess")
                   /\ UNCHANGED status
    /\ UNCHANGED <<request, attempts, prepared, published, market, att, stage>>

\* PREPARATION_FENCE, which also guards renew_preparation.
Fenced(w) ==
    /\ status[job[w]] = "waiting_for_data"
    /\ claim[job[w]] = w
    /\ job[w] \notin lapsed

\* The preparation of job[w] is over.  release_preparation would find a claim
\* that is gone or lapsed, or a row that no longer waits.
Leave(w) ==
    /\ Goto(w, "idle")
    /\ job' = [job EXCEPT ![w] = NoRun]

\* Renew, then assess every partition.  Here and below a claim that is gone
\* ends the preparation without an effect.
Assess(w) ==
    /\ pc[w] = "assess"
    /\ IF Fenced(w)
         THEN /\ Goto(w, IF data = "ready" THEN "promote" ELSE "repair")
              /\ UNCHANGED job
         ELSE Leave(w)
    /\ UNCHANGED <<request, row, prep, published, market, att, stage>>

\* fail_waiting, a no-op for a claim that is gone.
FailWaiting(w) ==
    /\ IF Fenced(w)
         THEN /\ status' = [status EXCEPT ![job[w]] = "failed"]
              /\ Unclaim(job[w])
         ELSE UNCHANGED <<status, claim, recoveries>>
    /\ Leave(w)

\* Renew and request_data_repair without retry: a repair that has already ended
\* fails the run.
RequestRepair(w) ==
    /\ pc[w] = "repair"
    /\ IF repair = "ended" \/ ~Fenced(w)
         THEN FailWaiting(w) /\ UNCHANGED repair
         ELSE /\ repair' = IF repair = "none" THEN "open" ELSE repair
              /\ Goto(w, "release")
              /\ UNCHANGED <<status, claim, recoveries, job>>
    /\ UNCHANGED <<request, attempts, lapsed, prepared, published, data, att, stage>>

\* release_preparation of a run that still waits: a lapsed claim stays for the
\* next claim, which counts it.
Release(w) ==
    /\ pc[w] = "release"
    /\ claim' = IF Fenced(w) THEN [claim EXCEPT ![job[w]] = Nobody] ELSE claim
    /\ Leave(w)
    /\ UNCHANGED <<request, row, recoveries, prepared, published, market, att, stage>>

\* build_ready_input, build_feature_snapshot and store_feature_snapshot, with
\* renewals between them, and promote_ready.
Promote(w) ==
    /\ pc[w] = "promote"
    /\ IF Fenced(w)
         THEN /\ status' = [status EXCEPT ![job[w]] = "queued"]
              /\ prepared' = prepared \cup {job[w]}
              /\ Unclaim(job[w])
         ELSE UNCHANGED <<status, claim, recoveries, prepared>>
    /\ Leave(w)
    /\ UNCHANGED <<request, attempts, lapsed, published, market, att, stage>>

\* An exception while preparing.
PreparationFails(w) ==
    /\ pc[w] \in Preparing
    /\ FailWaiting(w)
    /\ UNCHANGED <<request, attempts, lapsed, prepared, published, market, att, stage>>

----------------------------------------------------------------------------
(* Execution: claim_next, run_next *)

\* Mutant: claim_next never gives up a row whose last attempt expired.
ExpiredRetryable(S) ==
    {r \in S : status[r] = "running" /\ r \in lapsed /\ attempts[r] < MaxAttempts}

\* Rows whose attempt is taken for lost.
Expired(S) == {r \in S : status[r] = "running" /\ r \in lapsed}

\* claim_next on one of the two tables: expired rows are queued again or given
\* up, then one queued row starts (any of them stands for the oldest).
ClaimNext(w, S) ==
    LET now   == [r \in Runs |-> IF r \notin Expired(S) THEN status[r]
                                 ELSE IF attempts[r] < MaxAttempts THEN "queued"
                                 ELSE "failed"]
        queue == {r \in S : now[r] = "queued"}
    IN  /\ pc[w] = "idle"
        /\ lapsed' = lapsed \ Expired(S)
        /\ \/ /\ queue = {} /\ Expired(S) # {}
              /\ status' = now
              /\ UNCHANGED <<attempts, pc, job, att>>
           \/ \E r \in queue :
              /\ status' = [now EXCEPT ![r] = "running"]
              /\ attempts' = [attempts EXCEPT ![r] = @ + 1]
              /\ job' = [job EXCEPT ![w] = r]
              /\ att' = [att EXCEPT ![w] = attempts[r] + 1]
              /\ Goto(w, "run")
        /\ UNCHANGED <<request, prep, published, market, stage>>

ClaimTraining(w)   == ClaimNext(w, Trainings)
ClaimPrediction(w) == ClaimNext(w, Predictions)

\* The next transaction of an attempt: find_artifact_by_content, then create or
\* validate; what an earlier attempt did is found and kept.  Not fenced.
Publish(w) ==
    /\ pc[w] = "run"
    /\ stage[w] < LastStage
    /\ stage' = [stage EXCEPT ![w] = @ + 1]
    /\ published' = [published EXCEPT ![job[w]] =
           IF @ < stage[w] + 1 THEN stage[w] + 1 ELSE @]
    /\ UNCHANGED <<request, row, prep, market, pc, job, att>>

\* Mutant: a report is accepted from whoever ran the row last.
CurrentAny(w) == status[job[w]] \in {"running", "queued", "failed"}

\* The fence of complete and fail.  worker_id does not help: all processes use
\* BYQ_ML_WORKER_ID, the same by default.
Current(w) == status[job[w]] = "running" /\ attempts[job[w]] = att[w]

\* complete (all stages done) or, after an exception at any point, fail.
Report(w, outcome) ==
    /\ pc[w] = "run"
    /\ outcome = "completed" => stage[w] = LastStage
    /\ IF Current(w)
         THEN /\ status' = [status EXCEPT ![job[w]] = outcome]
              /\ lapsed' = lapsed \ {job[w]}
         ELSE UNCHANGED <<status, lapsed>>
    /\ Goto(w, "idle")
    /\ job' = [job EXCEPT ![w] = NoRun]
    /\ att' = [att EXCEPT ![w] = 0]
    /\ stage' = [stage EXCEPT ![w] = 0]
    /\ UNCHANGED <<request, attempts, prep, published, market>>

Complete(w) == Report(w, "completed")
Fail(w)     == Report(w, "failed")

\* The process dies and is started again.
Crash(w) ==
    /\ pc[w] # "idle"
    /\ Goto(w, "idle")
    /\ job' = [job EXCEPT ![w] = NoRun]
    /\ att' = [att EXCEPT ![w] = 0]
    /\ stage' = [stage EXCEPT ![w] = 0]
    /\ UNCHANGED <<request, row, prep, published, market>>

\* Ten minutes of a preparation, five of an attempt; attempts do not renew.
Lapse(r) ==
    /\ r \notin lapsed
    /\ \/ status[r] = "running"
       \/ r \in Trainings /\ status[r] = "waiting_for_data" /\ claim[r] # Nobody
    /\ lapsed' = lapsed \cup {r}
    /\ UNCHANGED <<request, status, attempts, prep, published, market, proc>>

----------------------------------------------------------------------------
(* The data repair, by the data worker: workers/data/worker.py *)

\* The data worker ends a claimed repair whose data it could assess or fetch, or
\* could not; or it queues the session jobs that are missing, they end, and
\* reconcile_data_repairs ends the repair, with or without the sessions.
RepairEnds ==
    /\ repair = "open"
    /\ repair' = "ended"
    /\ data' \in {data, "ready"}
    /\ UNCHANGED <<request, row, prep, published, proc>>

\* The data worker dies in a session job and starts again before the lease of
\* that job is over: recover_stale_jobs, which runs at the start only, leaves it
\* running, and reconcile_data_repairs skips the repair from then on.
SessionLost ==
    /\ repair = "open"
    /\ repair' = "lost"
    /\ UNCHANGED <<request, row, prep, published, data, proc>>

\* The data worker starts once more, after that lease, and queues the session
\* job again.
SessionRecovered ==
    /\ repair = "lost"
    /\ repair' = "open"
    /\ UNCHANGED <<request, row, prep, published, data, proc>>

\* reconcile_data_repairs ends even such a repair when its assessment fails, or
\* finds that the data came in another way: it assesses before it looks at the
\* session jobs.
EndsByAssessment ==
    /\ repair = "lost"
    /\ repair' = "ended"
    /\ data' \in {data, "ready"}
    /\ UNCHANGED <<request, row, prep, published, proc>>

\* request_data_repair for somebody else's request of the same sessions: unlike
\* the preparation it reopens a repair that has ended.
Reopen ==
    /\ repair = "ended" /\ data = "missing"
    /\ repair' = "open"
    /\ UNCHANGED <<request, row, prep, published, data, proc>>

Prepares(w) == Assess(w) \/ RequestRepair(w) \/ Release(w) \/ Promote(w)

Next ==
    \/ \E q \in Requests : Begin(q) \/ Rollback(q)
    \/ CommitTraining \/ CommitPrediction
    \/ CommitStudy("archive", "archived")
    \/ CommitStudy("restore", "validated")
    \/ CommitStudy("supersede", "superseded")
    \/ RepairEnds \/ SessionLost \/ SessionRecovered \/ EndsByAssessment \/ Reopen
    \/ \E t \in Trainings : Cancel(t)
    \/ \E r \in Runs : Lapse(r)
    \/ \E w \in Workers :
         \/ ClaimPreparation(w) \/ Prepares(w) \/ PreparationFails(w)
         \/ ClaimTraining(w) \/ ClaimPrediction(w)
         \/ Publish(w) \/ Complete(w) \/ Fail(w) \/ Crash(w)

Spec == Init /\ [][Next]_vars

\* A killed worker is restarted, computations end, the database's clock
\* advances; that some worker goes on is enough.  Polling is strongly fair: a
\* crash between two polls uses up no budget, and the processes do not die there
\* every time; nor does the data worker in every session job.  Nothing makes it
\* restart late enough to find a lost session job's lease over.
Fairness ==
    /\ SF_vars(RepairEnds)
    /\ WF_vars(\E r \in Runs : Lapse(r))
    /\ SF_vars(\E w \in Workers : ClaimTraining(w))
    /\ SF_vars(\E w \in Workers : ClaimPrediction(w))
    /\ SF_vars(\E w \in Workers : ClaimPreparation(w))
    /\ WF_vars(\E w \in Workers : Prepares(w))
    /\ WF_vars(\E w \in Workers : Publish(w) \/ Complete(w))

FairSpec == Spec /\ Fairness

----------------------------------------------------------------------------
(* Properties *)

\* "Archiving only blocks new executions; active runs must end first": nothing
\* is waiting, queued or running for a study that is archived, and a deleted
\* study never had a run at all.  Submissions, archiving and deletion race.
StudyAtRest ==
    /\ study # "validated" => ~HasActive
    /\ study = "superseded" => ~HasHistory

\* Retries with other keys "converge on one authoritative active run" of the
\* same task, strategy and pool (create_waiting), while preparation and
\* execution move that run from status to status.
OneActiveRun == Cardinality(Trainings \cap ActiveRuns) <= 1

Life == INSTANCE JobLifecycle WITH
    Jobs <- Runs,
    status <- [r \in Runs |->
        IF r \in Predictions \cup prepared THEN status[r] ELSE "absent"],
    result <- [r \in Runs |->
        status[r] = "completed" /\ published[r] = LastStage]

\* Both queues keep the promise of every business Job from the moment a run's
\* input is frozen: attempts are bounded, a terminal run is never touched again
\* whatever a worker that lost its lease still reports, and a completed run has
\* its Artifacts validated.
LifecycleSpec == Life!Spec

\* Every accepted training or prediction comes to an end, whichever workers and
\* preparations are lost and however a repair ends.  It may wait for ever only
\* for a session job that a data worker left running and no restart takes for
\* stale, or while others reopen its repair for ever.  The rows are finitely many
\* and none starts twice, so this is said of all at once: the study comes to rest
\* and can be archived.
EveryRunSettles ==
    \/ <>[](repair = "lost")
    \/ []<><<Reopen>>_vars
    \/ ActiveRuns # {} ~> ActiveRuns = {}
=============================================================================
