---------------------------- MODULE BacktestJobs ----------------------------
(***************************************************************************)
(* The backtest queue: BacktestJobStore, LocalObjectStore and              *)
(* BacktestWorker of backtest.py, the worker loop of                       *)
(* workers/backtest/worker.py, and the delete endpoint of main.py with its *)
(* best-effort object collection.                                          *)
(*                                                                         *)
(* Unlike the factor queue, a claim is split over several transactions: a  *)
(* worker first requeues stale rows, then reads the id of a queued row,    *)
(* then claims it by a guarded UPDATE, and only then reads the row again   *)
(* to learn which attempt it has.  Computation and the result object's     *)
(* write happen outside every transaction.                                 *)
(*                                                                         *)
(* A row is known by its job_id, which is never reused.  The result object *)
(* is content-addressed, and its content names the job_id, so every Job    *)
(* has an object of its own.  Leases are modelled as in FactorJobs.        *)
(***************************************************************************)
EXTENDS Naturals, FiniteSets

CONSTANTS
    Backtests,      \* job_ids the store may come to hold
    Workers,        \* backtest worker processes
    Database,       \* the database's clock
    MaxAttempts     \* execution.max_attempts, 1..3

ASSUME MaxAttemptsAssumption == MaxAttempts \in Nat \ {0}
ASSUME ClockAssumption == Database \notin Workers

VARIABLES
    \* table backtest_jobs
    status,         \* [Backtests -> Status]
    attempts,       \* [Backtests -> 0..MaxAttempts]
    lapsed,         \* [Backtests -> SUBSET Clocks]
    deleting,       \* rows held FOR UPDATE by an open delete transaction
    uncited,        \* those of them for which it has found no citation
    \* table artifacts and the object directory
    artifact,       \* validated backtest_result Artifacts
    objects,        \* result objects on disk
    garbage,        \* objects an API thread is about to collect
    \* worker processes
    pc,             \* [Workers -> PC]
    job,            \* [Workers -> Backtests \cup {NoJob}]
    att             \* [Workers -> 0..MaxAttempts], the fence it will present

row    == <<status, attempts, lapsed>>
proc   == <<pc, job, att>>
dels   == <<deleting, uncited>>
bvars  == <<status, attempts, lapsed, deleting, uncited, artifact, objects,
            garbage, pc, job, att>>

NoJob    == "none"
Clocks   == Workers \cup {Database}
Terminal == {"completed", "failed", "cancelled"}
Status   == {"absent", "queued", "running", "deleted"} \cup Terminal

\* idle      top of the polling loop
\* picked    next_queued_id returned job[w]
\* claimed   the claiming UPDATE committed, the row not yet read again
\* computing the attempt is known, run_native_backtest is at work
\* stored    the result object is on disk
\* failing   an exception was caught, retry_or_fail is still to be called
PC == {"idle", "picked", "claimed", "computing", "stored", "failing"}

BacktestTypeOK ==
    /\ status \in [Backtests -> Status]
    /\ attempts \in [Backtests -> 0..MaxAttempts]
    /\ lapsed \in [Backtests -> SUBSET Clocks]
    /\ deleting \subseteq Backtests
    /\ uncited \subseteq deleting
    /\ artifact \subseteq Backtests
    /\ objects \subseteq Backtests
    /\ garbage \subseteq Backtests
    /\ pc \in [Workers -> PC]
    /\ job \in [Workers -> Backtests \cup {NoJob}]
    /\ att \in [Workers -> 0..MaxAttempts]
    /\ \A w \in Workers : pc[w] # "idle" => job[w] \in Backtests

BacktestInit ==
    /\ status = [b \in Backtests |-> "absent"]
    /\ attempts = [b \in Backtests |-> 0]
    /\ lapsed = [b \in Backtests |-> {}]
    /\ deleting = {}
    /\ uncited = {}
    /\ artifact = {}
    /\ objects = {}
    /\ garbage = {}
    /\ pc = [w \in Workers |-> "idle"]
    /\ job = [w \in Workers |-> NoJob]
    /\ att = [w \in Workers |-> 0]

----------------------------------------------------------------------------
(* The API's side *)

\* create: a replayed key returns its row or a conflict and changes nothing.
CreateBacktest(b) ==
    /\ status[b] = "absent"
    /\ status' = [status EXCEPT ![b] = "queued"]
    /\ UNCHANGED <<attempts, lapsed, dels, artifact, objects, garbage, proc>>

\* cancel: one guarded UPDATE.
CancelBacktest(b) ==
    /\ status[b] \in {"queued", "running"}
    /\ status' = [status EXCEPT ![b] = "cancelled"]
    /\ lapsed' = [lapsed EXCEPT ![b] = {}]
    /\ UNCHANGED <<attempts, dels, artifact, objects, garbage, proc>>

\* delete, first statement: the row FOR UPDATE, held against every reader that
\* locks it FOR SHARE (shared); an active Job is refused.
OpenDelete(b, shared) ==
    /\ status[b] \in Terminal
    /\ b \notin deleting
    /\ b \notin shared
    /\ deleting' = deleting \cup {b}
    /\ UNCHANGED <<row, uncited, artifact, objects, garbage, proc>>

\* delete, second statement: a row that a committed optimization cites is kept.
FindCitation(b, cited) ==
    /\ b \in deleting \ uncited
    /\ IF b \in cited
         THEN deleting' = deleting \ {b} /\ UNCHANGED uncited
         ELSE uncited' = uncited \cup {b} /\ UNCHANGED deleting
    /\ UNCHANGED <<row, artifact, objects, garbage, proc>>

\* delete, the DELETE and the commit.  The endpoint then goes on to collect the
\* object of a row that had a result.
CommitDelete(b) ==
    /\ b \in uncited
    /\ deleting' = deleting \ {b}
    /\ uncited' = uncited \ {b}
    /\ status' = [status EXCEPT ![b] = "deleted"]
    /\ garbage' = IF status[b] = "completed" THEN garbage \cup {b} ELSE garbage
    /\ UNCHANGED <<attempts, lapsed, artifact, objects, proc>>

\* _gc_deleted_backtest_objects: an error, or the end of the API process,
\* leaves the object behind.
CollectObject(b) ==
    /\ b \in garbage
    /\ garbage' = garbage \ {b}
    /\ \/ objects' = objects \ {b}
       \/ UNCHANGED objects
    /\ UNCHANGED <<row, dels, artifact, proc>>

----------------------------------------------------------------------------
(* The worker's loop *)

Stale(w, b) == status[b] = "running" /\ w \in lapsed[b]

Goto(w, place) == pc' = [pc EXCEPT ![w] = place]

\* The end of run_once, or of the process: the supervisor starts another.
Idle(w) ==
    /\ Goto(w, "idle")
    /\ job' = [job EXCEPT ![w] = NoJob]
    /\ att' = [att EXCEPT ![w] = 0]

\* requeue_stale: two UPDATEs in one transaction.
RequeueStale(w) ==
    LET gaveUp == {b \in Backtests : /\ attempts[b] >= MaxAttempts
                                     /\ status[b] = "queued" \/ Stale(w, b)}
        back   == {b \in Backtests : Stale(w, b) /\ attempts[b] < MaxAttempts}
    IN  /\ pc[w] = "idle"
        /\ gaveUp \cup back # {}
        /\ status' = [b \in Backtests |-> IF b \in gaveUp THEN "failed"
                                          ELSE IF b \in back THEN "queued"
                                          ELSE status[b]]
        /\ lapsed' = [b \in Backtests |-> IF b \in gaveUp \cup back THEN {}
                                          ELSE lapsed[b]]
        /\ UNCHANGED <<attempts, dels, artifact, objects, garbage, proc>>

\* next_queued_id: a plain read.  Any queued row stands for the oldest one.
NextQueued(w) ==
    /\ pc[w] = "idle"
    /\ \E b \in Backtests :
         /\ status[b] = "queued" /\ attempts[b] < MaxAttempts
         /\ job' = [job EXCEPT ![w] = b]
    /\ Goto(w, "picked")
    /\ UNCHANGED <<row, dels, artifact, objects, garbage, att>>

\* claim: the guarded UPDATE.  A row that is no longer queued is left to the
\* worker that has it; a row that is gone ends the process.
ClaimBacktest(w) ==
    LET b == job[w] IN
    /\ pc[w] = "picked"
    /\ IF status[b] = "queued" /\ attempts[b] < MaxAttempts
         THEN /\ status' = [status EXCEPT ![b] = "running"]
              /\ attempts' = [attempts EXCEPT ![b] = @ + 1]
              /\ lapsed' = [lapsed EXCEPT ![b] = {}]
              /\ Goto(w, "claimed")
              /\ UNCHANGED <<job, att>>
         ELSE /\ Idle(w)
              /\ UNCHANGED row
    /\ UNCHANGED <<dels, artifact, objects, garbage>>

\* claim's return self.get(job_id), a transaction of its own: the fence is the
\* attempt the row has by now.  BacktestNotFound ends the process.
ReadAttempt(w) ==
    /\ pc[w] = "claimed"
    /\ IF status[job[w]] = "deleted"
         THEN Idle(w)
         ELSE /\ Goto(w, "computing")
              /\ att' = [att EXCEPT ![w] = attempts[job[w]]]
              /\ UNCHANGED job
    /\ UNCHANGED <<row, dels, artifact, objects, garbage>>

\* run_native_backtest and objects.put: the file appears by one rename.
StoreResult(w) ==
    /\ pc[w] = "computing"
    /\ objects' = objects \cup {job[w]}
    /\ Goto(w, "stored")
    /\ UNCHANGED <<row, dels, artifact, garbage, job, att>>

\* Any exception of the computation, of the object store or of the database.
ExecutionFails(w) ==
    /\ pc[w] \in {"computing", "stored"}
    /\ Goto(w, "failing")
    /\ UNCHANGED <<row, dels, artifact, objects, garbage, job, att>>

\* _require_current_attempt and the guard of _complete_in_transaction.
CurrentAttempt(b, a) ==
    /\ status[b] = "running"
    /\ attempts[b] = a
    /\ Database \notin lapsed[b]

\* Mutant: the result object is not waited for.
CompleteWithArtifactEarly(w) ==
    /\ pc[w] \in {"computing", "stored"}
    /\ CurrentAttempt(job[w], att[w])
    /\ status' = [status EXCEPT ![job[w]] = "completed"]
    /\ lapsed' = [lapsed EXCEPT ![job[w]] = {}]
    /\ artifact' = artifact \cup {job[w]}
    /\ Idle(w)
    /\ UNCHANGED <<attempts, dels, objects, garbage>>

\* complete_with_artifact: Artifact and Job in one transaction, the row locked.
CompleteWithArtifact(w) ==
    /\ pc[w] = "stored"
    /\ IF CurrentAttempt(job[w], att[w])
         THEN /\ status' = [status EXCEPT ![job[w]] = "completed"]
              /\ lapsed' = [lapsed EXCEPT ![job[w]] = {}]
              /\ artifact' = artifact \cup {job[w]}
              /\ Idle(w)
              /\ UNCHANGED attempts
         ELSE /\ Goto(w, "failing")                       \* BacktestConflict
              /\ UNCHANGED <<row, artifact, job, att>>
    /\ UNCHANGED <<dels, objects, garbage>>

\* Mutant: the report of a failure does not look at the row.
RetryOrFailUnfenced(w) ==
    /\ pc[w] = "failing"
    /\ status' = [status EXCEPT ![job[w]] =
         IF attempts[job[w]] >= MaxAttempts THEN "failed" ELSE "queued"]
    /\ lapsed' = [lapsed EXCEPT ![job[w]] = {}]
    /\ Idle(w)
    /\ UNCHANGED <<attempts, dels, artifact, objects, garbage>>

\* retry_or_fail: fenced by status and attempt, not by the lease.
RetryOrFail(w) ==
    /\ pc[w] = "failing"
    /\ IF status[job[w]] = "running" /\ attempts[job[w]] = att[w]
         THEN /\ status' = [status EXCEPT ![job[w]] =
                    IF attempts[job[w]] >= MaxAttempts THEN "failed" ELSE "queued"]
              /\ lapsed' = [lapsed EXCEPT ![job[w]] = {}]
         ELSE UNCHANGED <<status, lapsed>>
    /\ Idle(w)
    /\ UNCHANGED <<attempts, dels, artifact, objects, garbage>>

\* The process dies anywhere and is restarted.
CrashWorker(w) ==
    /\ pc[w] # "idle"
    /\ Idle(w)
    /\ UNCHANGED <<row, dels, artifact, objects, garbage>>

\* BACKTEST_CLAIM_LEASE_SECONDS go by on one clock.
LapseBacktest(c, b) ==
    /\ status[b] = "running"
    /\ c \notin lapsed[b]
    /\ lapsed' = [lapsed EXCEPT ![b] = @ \cup {c}]
    /\ UNCHANGED <<status, attempts, dels, artifact, objects, garbage, proc>>

WorkerStep(w) ==
    \/ RequeueStale(w) \/ NextQueued(w) \/ ClaimBacktest(w) \/ ReadAttempt(w)
    \/ StoreResult(w) \/ ExecutionFails(w) \/ CompleteWithArtifact(w)
    \/ RetryOrFail(w) \/ CrashWorker(w)

\* shared and cited are what the optimization queue holds of these rows.
BacktestNext(shared, cited) ==
    \/ \E b \in Backtests : \/ CreateBacktest(b) \/ CancelBacktest(b)
                            \/ OpenDelete(b, shared) \/ FindCitation(b, cited)
                            \/ CommitDelete(b) \/ CollectObject(b)
    \/ \E w \in Workers : WorkerStep(w)
    \/ \E c \in Clocks, b \in Backtests : LapseBacktest(c, b)

\* The queue by itself, when no optimization looks at it.
BacktestSpec == BacktestInit /\ [][BacktestNext({}, {})]_bvars

\* The workers that need not fear OneWorkerPerAttempt's counterexample: no lease
\* ends between its claim and the second read, which supplies the fence.
ReadInTime == \A w \in Workers : pc[w] = "claimed" => lapsed'[job[w]] = {}

TimelySpec == BacktestInit /\ [][BacktestNext({}, {}) /\ ReadInTime]_bvars

----------------------------------------------------------------------------
(* Properties *)

BacktestLife == INSTANCE JobLifecycle WITH
    Jobs <- Backtests, MaxAttempts <- MaxAttempts,
    result <- [b \in Backtests |-> status[b] = "completed"]

\* The backtest queue keeps the promise every business Job makes, although two
\* workers may come to report under one attempt.
BacktestLifecycle == BacktestLife!Spec

\* "Only short relational writes run while the Job row is locked ... until
\* Artifact + Job commit together": a completed row has its validated
\* Artifact and its result object, whatever late attempts, deletions and
\* object collections run beside it; no other row has an Artifact.
CompletedHasResult ==
    \A b \in Backtests :
        /\ status[b] = "completed" => b \in artifact /\ b \in objects
        /\ b \in artifact => status[b] \in {"completed", "deleted"}

\* next_queued_id: "claim() remains the atomic execution gate".  At most one
\* worker works under one attempt of a Job.
OneWorkerPerAttempt ==
    \A v, w \in Workers :
        /\ v # w
        /\ {pc[v], pc[w]} \subseteq {"computing", "stored", "failing"}
        /\ job[v] = job[w]
        => att[v] # att[w]
=============================================================================
