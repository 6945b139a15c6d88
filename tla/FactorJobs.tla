----------------------------- MODULE FactorJobs -----------------------------
(***************************************************************************)
(* The durable factor-computation queue: the store (factor_job.py), the    *)
(* polling workers (workers/factor/worker.py) and the Artifact a worker    *)
(* publishes for a Job (factor_submission.py, research.py).                *)
(*                                                                         *)
(* Every store method is one PostgreSQL transaction and is one action      *)
(* here, except the worker's execution transaction, which keeps the Job's  *)
(* row locked while the factor is computed: its steps are separate actions *)
(* so that every other actor can run between them.  Its writes are         *)
(* invisible until it commits, so they appear in the action that commits.  *)
(*                                                                         *)
(* A lease has no clock here.  A claim is stale, or live, by the reading   *)
(* of one clock: each worker host's own when it claims (claim_next), the   *)
(* database's when an attempt reports (clock_timestamp()).  lapsed[j] is   *)
(* the set of clocks by which the lease of row j is over; the clocks need  *)
(* not agree, and any of them may run ahead of the others.                 *)
(***************************************************************************)
EXTENDS Naturals, FiniteSets

CONSTANTS
    Jobs,          \* (task_id, idempotency_key) pairs: at most one row each
    Workers,       \* worker processes
    Database,      \* the database's clock
    MaxAttempts,   \* MAX_ATTEMPTS
    Inherited      \* rows a worker that published and acknowledged in two
                   \* transactions left running, with their Artifact validated

ASSUME MaxAttemptsAssumption == MaxAttempts \in Nat \ {0}
ASSUME JobsAssumption == IsFiniteSet(Jobs) /\ Inherited \subseteq Jobs
ASSUME ClockAssumption == Database \notin Workers

VARIABLES
    \* table factor_jobs
    status,        \* [Jobs -> Status]
    created,       \* [Jobs -> Nat], the order of created_at, ties by job_id
    attempts,      \* [Jobs -> 0..MaxAttempts]
    lapsed,        \* [Jobs -> SUBSET Clocks]
    result,        \* [Jobs -> BOOLEAN], result_artifact_id is set
    \* table artifacts
    artifact,      \* [Jobs -> ArtifactState], under "factor-result-<job>"
    reserved,      \* submission keys an Artifact already uses
    \* worker processes
    pc,            \* [Workers -> PC]
    job,           \* [Workers -> Jobs \cup {NoJob}], the claimed Job
    att,           \* [Workers -> 0..MaxAttempts], the claimed attempt
    retryable,     \* [Workers -> BOOLEAN], the class of the caught error
    pending,       \* [Workers -> SUBSET Jobs], deferred audit observations
    \* audit sink
    audited        \* [Jobs -> Nat], "job.completed" events delivered

row  == <<status, created, attempts, lapsed, result>>
proc == <<pc, job, att, retryable, pending>>
vars == <<status, created, attempts, lapsed, result, artifact, reserved,
          pc, job, att, retryable, pending, audited>>

NoJob    == "none"
Clocks   == Workers \cup {Database}
Terminal == {"completed", "failed", "cancelled"}
Status   == {"absent", "queued", "running"} \cup Terminal

\* "foreign": an Artifact of another kind, or a submission receipt, holds the key.
ArtifactState == {"none", "validated", "foreign"}

\* idle      polling
\* claimed   claim_next committed, the execution transaction not yet open
\* locked    require_execution_claim holds the row FOR UPDATE
\* computing submit_factor holds the Artifact's advisory lock too
\* failing   the transaction rolled back, fail() is still to be called
PC == {"idle", "claimed", "locked", "computing", "failing"}

TypeOK ==
    /\ status \in [Jobs -> Status]
    /\ created \in [Jobs -> Nat]
    /\ attempts \in [Jobs -> 0..MaxAttempts]
    /\ lapsed \in [Jobs -> SUBSET Clocks]
    /\ result \in [Jobs -> BOOLEAN]
    /\ artifact \in [Jobs -> ArtifactState]
    /\ reserved \subseteq Jobs
    /\ pc \in [Workers -> PC]
    /\ job \in [Workers -> Jobs \cup {NoJob}]
    /\ att \in [Workers -> 0..MaxAttempts]
    /\ retryable \in [Workers -> BOOLEAN]
    /\ pending \in [Workers -> SUBSET Jobs]
    /\ audited \in [Jobs -> Nat]
    /\ \A w \in Workers : pc[w] # "idle" => job[w] \in Jobs

Init ==
    /\ status = [j \in Jobs |-> IF j \in Inherited THEN "running" ELSE "absent"]
    /\ created = [j \in Jobs |-> 0]
    /\ attempts \in [Jobs -> 0..MaxAttempts]
    /\ \A j \in Jobs : j \in Inherited <=> attempts[j] > 0
    /\ lapsed = [j \in Jobs |-> {}]
    /\ result = [j \in Jobs |-> FALSE]
    /\ artifact = [j \in Jobs |-> IF j \in Inherited THEN "validated" ELSE "none"]
    /\ reserved = {}
    /\ pc = [w \in Workers |-> "idle"]
    /\ job = [w \in Workers |-> NoJob]
    /\ att = [w \in Workers |-> 0]
    /\ retryable = [w \in Workers |-> FALSE]
    /\ pending = [w \in Workers |-> {}]
    /\ audited = [j \in Jobs |-> 0]

----------------------------------------------------------------------------
(* Row locks.  An open execution transaction holds its Job's row; a        *)
(* SELECT ... SKIP LOCKED passes over it, every other writer waits for it. *)

Holds(w, j) == pc[w] \in {"locked", "computing"} /\ job[w] = j
Unlocked(j) == \A w \in Workers : ~Holds(w, j)

\* Mutant: a fence that forgets the attempt number.
LiveClaimUnfenced(j, a) ==
    /\ status[j] = "running"
    /\ Database \notin lapsed[j]

\* The fence of complete, fail and require_execution_claim: the row still
\* runs this attempt, and its lease is live by the database's clock.
LiveClaim(j, a) ==
    /\ status[j] = "running"
    /\ attempts[j] = a
    /\ Database \notin lapsed[j]

\* A worker is about to take its next step only once _transaction has
\* handed over the observations of the transaction before.
At(w, place) == pc[w] = place /\ pending[w] = {}

----------------------------------------------------------------------------
(* The API's side *)

\* create: a replay of an existing key returns its row, or is refused when
\* the request differs, and changes nothing.  created_at is read from the
\* API host's clock before the transaction: rows need not commit in order.
Create(j) ==
    /\ status[j] = "absent"
    /\ j \notin reserved
    /\ \E t \in 1..Cardinality(Jobs) :
         /\ \A k \in Jobs : created[k] # t
         /\ created' = [created EXCEPT ![j] = t]
    /\ status' = [status EXCEPT ![j] = "queued"]
    /\ UNCHANGED <<attempts, lapsed, result, artifact, reserved, proc, audited>>

\* An Artifact is submitted under the key before any Job: create refuses it.
\* (One submitted after the Job changes nothing that a factor Job reads.)
ReserveKey(j) ==
    /\ status[j] = "absent"
    /\ reserved' = reserved \cup {j}
    /\ UNCHANGED <<row, artifact, proc, audited>>

\* create_artifact, called by another producer with the Job's result key: the
\* advisory lock of submit_factor keeps it out while the factor is computed.
TakeResultKey(j) ==
    /\ status[j] # "absent"
    /\ artifact[j] = "none"
    /\ \A w \in Workers : ~(pc[w] = "computing" /\ job[w] = j)
    /\ artifact' = [artifact EXCEPT ![j] = "foreign"]
    /\ UNCHANGED <<row, reserved, proc, audited>>

\* Mutant: a cancel that does not look at the status it overwrites.
CancelAny(j) ==
    /\ status[j] # "absent"
    /\ Unlocked(j)
    /\ status' = [status EXCEPT ![j] = "cancelled"]
    /\ lapsed' = [lapsed EXCEPT ![j] = {}]
    /\ UNCHANGED <<created, attempts, result, artifact, reserved, proc, audited>>

\* cancel: waits for the row lock; a terminal row is returned as it is.
Cancel(j) ==
    /\ status[j] \in {"queued", "running"}
    /\ Unlocked(j)
    /\ status' = [status EXCEPT ![j] = "cancelled"]
    /\ lapsed' = [lapsed EXCEPT ![j] = {}]
    /\ UNCHANGED <<created, attempts, result, artifact, reserved, proc, audited>>

----------------------------------------------------------------------------
(* The worker *)

Stale(w, j) == status[j] = "running" /\ w \in lapsed[j]

\* Mutant: an off-by-one in the budget of the final attempt.
ExhaustedLate(w) ==
    {j \in Jobs : Stale(w, j) /\ attempts[j] > MaxAttempts /\ Unlocked(j)}

Exhausted(w) ==
    {j \in Jobs : Stale(w, j) /\ attempts[j] >= MaxAttempts /\ Unlocked(j)}

\* Mutant: the claim query forgets FOR UPDATE SKIP LOCKED.
ClaimableLocked(w) ==
    {j \in Jobs : (status[j] = "queued" \/ Stale(w, j)) /\ attempts[j] < MaxAttempts}

Claimable(w) ==
    {j \in Jobs : /\ status[j] = "queued" \/ Stale(w, j)
                  /\ attempts[j] < MaxAttempts
                  /\ Unlocked(j)}

Oldest(S) == {j \in S : \A k \in S : created[j] <= created[k]}

\* What one LIMIT 1 query may return: a singleton, or {} if no row matches.
OneOf(S) == IF S = {} THEN {{}} ELSE {{j} : j \in S}

\* Mutant: taking over a stale attempt does not advance the fence.
SameAttempt(j) == IF status[j] = "queued" THEN attempts[j] + 1 ELSE attempts[j]

NextAttempt(j) == attempts[j] + 1

\* Rows whose exact result was committed by a worker that died before it
\* acknowledged the Job.
Recovered(E) == {j \in E : artifact[j] = "validated"}

\* The updates of one claim: E holds the exhausted row, if any, that is settled
\* (to its validated Artifact if it has one) and C the row, if any, that starts.
Claim(w, E, C) ==
    /\ status' = [j \in Jobs |->
           IF j \in C THEN "running"
           ELSE IF j \in Recovered(E) THEN "completed"
           ELSE IF j \in E THEN "failed"
           ELSE status[j]]
    /\ attempts' = [j \in Jobs |->
           IF j \in C THEN NextAttempt(j) ELSE attempts[j]]
    /\ lapsed' = [j \in Jobs |-> IF j \in E \cup C THEN {} ELSE lapsed[j]]
    /\ result' = [j \in Jobs |-> j \in Recovered(E) \/ result[j]]
    /\ pending' = [pending EXCEPT ![w] = Recovered(E)]
    /\ \/ C = {} /\ UNCHANGED <<pc, job, att>>
       \/ \E j \in C :
            /\ pc' = [pc EXCEPT ![w] = "claimed"]
            /\ job' = [job EXCEPT ![w] = j]
            /\ att' = [att EXCEPT ![w] = NextAttempt(j)]

\* claim_next: one transaction settles at most one row whose final attempt
\* is stale and then starts the oldest claimable row.
ClaimNext(w) ==
    /\ At(w, "idle")
    /\ \E E \in OneOf(Exhausted(w)), C \in OneOf(Oldest(Claimable(w))) :
         E \cup C # {} /\ Claim(w, E, C)
    /\ UNCHANGED <<created, artifact, reserved, retryable, audited>>

\* The except clause of run_once: the open transaction has rolled back.
RollBack(w, r) ==
    /\ pc' = [pc EXCEPT ![w] = "failing"]
    /\ retryable' = [retryable EXCEPT ![w] = r]
    /\ UNCHANGED <<row, artifact, reserved, job, att, pending, audited>>

\* require_execution_claim: locks the row, waiting for a holder to finish.
OpenExecution(w) ==
    /\ At(w, "claimed")
    /\ Unlocked(job[w])
    /\ IF LiveClaim(job[w], att[w])
         THEN /\ pc' = [pc EXCEPT ![w] = "locked"]
              /\ UNCHANGED <<row, artifact, reserved, job, att, retryable,
                             pending, audited>>
         ELSE RollBack(w, TRUE)                       \* FactorJobLeaseLost

\* Mutant: the Artifact is validated in a transaction of its own.
SubmitFactorEarly(w) ==
    /\ At(w, "locked")
    /\ IF artifact[job[w]] = "foreign"
         THEN RollBack(w, FALSE)
         ELSE /\ pc' = [pc EXCEPT ![w] = "computing"]
              /\ artifact' = [artifact EXCEPT ![job[w]] = "validated"]
              /\ UNCHANGED <<row, reserved, job, att, retryable, pending, audited>>

\* submit_factor: the advisory lock, then either an exact earlier result or
\* a computation; a key held by something else is an IdempotencyConflict.
SubmitFactor(w) ==
    /\ At(w, "locked")
    /\ IF artifact[job[w]] = "foreign"
         THEN RollBack(w, FALSE)
         ELSE /\ pc' = [pc EXCEPT ![w] = "computing"]
              /\ UNCHANGED <<row, artifact, reserved, job, att, retryable,
                             pending, audited>>

\* Any exception inside the transaction: FactorValidationError,
\* ResearchNotFound and InvalidTransition are final, all others retryable.
ExecutionFails(w) ==
    /\ pc[w] \in {"locked", "computing"}
    /\ pending[w] = {}
    /\ \E r \in BOOLEAN : RollBack(w, r)

\* Mutant: the observation is kept when the transaction rolls back.
CommitExecutionEager(w) ==
    /\ At(w, "computing")
    /\ ~LiveClaim(job[w], att[w])
    /\ pc' = [pc EXCEPT ![w] = "failing"]
    /\ retryable' = [retryable EXCEPT ![w] = TRUE]
    /\ pending' = [pending EXCEPT ![w] = {job[w]}]
    /\ UNCHANGED <<row, artifact, reserved, job, att, audited>>

\* transition(validated), complete and the commit.  complete re-reads the
\* database's clock: a lease that ran out meanwhile rolls everything back.
CommitExecution(w) ==
    /\ At(w, "computing")
    /\ IF LiveClaim(job[w], att[w])
         THEN /\ artifact' = [artifact EXCEPT ![job[w]] = "validated"]
              /\ status' = [status EXCEPT ![job[w]] = "completed"]
              /\ lapsed' = [lapsed EXCEPT ![job[w]] = {}]
              /\ result' = [result EXCEPT ![job[w]] = TRUE]
              /\ pending' = [pending EXCEPT ![w] = {job[w]}]
              /\ pc' = [pc EXCEPT ![w] = "idle"]
              /\ job' = [job EXCEPT ![w] = NoJob]
              /\ att' = [att EXCEPT ![w] = 0]
              /\ UNCHANGED <<created, attempts, reserved, retryable, audited>>
         ELSE RollBack(w, TRUE)                       \* FactorJobLeaseLost

\* fail: requeues a retryable attempt while the budget lasts; it is a no-op
\* unless the row still runs this attempt under a live lease.
Fail(w) ==
    /\ At(w, "failing")
    /\ Unlocked(job[w])
    /\ IF LiveClaim(job[w], att[w])
         THEN /\ status' = [status EXCEPT ![job[w]] =
                    IF retryable[w] /\ attempts[job[w]] < MaxAttempts
                    THEN "queued" ELSE "failed"]
              /\ lapsed' = [lapsed EXCEPT ![job[w]] = {}]
         ELSE UNCHANGED <<status, lapsed>>
    /\ pc' = [pc EXCEPT ![w] = "idle"]
    /\ job' = [job EXCEPT ![w] = NoJob]
    /\ att' = [att EXCEPT ![w] = 0]
    /\ retryable' = [retryable EXCEPT ![w] = FALSE]
    /\ UNCHANGED <<created, attempts, result, artifact, reserved, pending,
                   audited>>

\* _emit_completion_observation, after the commit: a failing sink is
\* swallowed, so the observation may also be dropped.
EmitObservation(w) ==
    /\ pending[w] # {}
    /\ \E D \in SUBSET pending[w] :
         audited' = [j \in Jobs |-> IF j \in D THEN audited[j] + 1 ELSE audited[j]]
    /\ pending' = [pending EXCEPT ![w] = {}]
    /\ UNCHANGED <<row, artifact, reserved, pc, job, att, retryable>>

\* The process dies and is restarted: its transaction rolls back, its locks
\* are released and what it had still to announce is lost.
Crash(w) ==
    /\ pc[w] # "idle" \/ pending[w] # {}
    /\ pc' = [pc EXCEPT ![w] = "idle"]
    /\ job' = [job EXCEPT ![w] = NoJob]
    /\ att' = [att EXCEPT ![w] = 0]
    /\ retryable' = [retryable EXCEPT ![w] = FALSE]
    /\ pending' = [pending EXCEPT ![w] = {}]
    /\ UNCHANGED <<row, artifact, reserved, audited>>

\* CLAIM_LEASE_SECONDS go by on one clock.
Lapse(c, j) ==
    /\ status[j] = "running"
    /\ c \notin lapsed[j]
    /\ lapsed' = [lapsed EXCEPT ![j] = @ \cup {c}]
    /\ UNCHANGED <<status, created, attempts, result, artifact, reserved, proc,
                   audited>>

Next ==
    \/ \E j \in Jobs : \/ Create(j) \/ ReserveKey(j)
                       \/ TakeResultKey(j) \/ Cancel(j)
    \/ \E w \in Workers : \/ ClaimNext(w) \/ OpenExecution(w)
                          \/ SubmitFactor(w) \/ ExecutionFails(w)
                          \/ CommitExecution(w) \/ Fail(w)
                          \/ EmitObservation(w) \/ Crash(w)
    \/ \E c \in Clocks, j \in Jobs : Lapse(c, j)

Spec == Init /\ [][Next]_vars

\* A worker's loop keeps running (run_forever, a supervised process), a
\* computation is bounded, and time passes on every clock.  Nothing is
\* assumed of owners, of other producers or of crashes.
Fairness ==
    /\ \A w \in Workers :
         /\ WF_vars(ClaimNext(w))
         /\ WF_vars(OpenExecution(w))
         /\ WF_vars(SubmitFactor(w))
         /\ WF_vars(CommitExecution(w))
         /\ WF_vars(Fail(w))
         /\ WF_vars(EmitObservation(w))
    /\ \A c \in Clocks, j \in Jobs : WF_vars(Lapse(c, j))

FairSpec == Spec /\ Fairness

----------------------------------------------------------------------------
(* Properties *)

Busy(w) == pc[w] # "idle"

\* While a worker's execution transaction is open, nobody else touches its
\* Job: the row still runs exactly the worker's attempt, and no second
\* worker is inside the same Job (require_execution_claim's FOR UPDATE).
RowLockProtectsAttempt ==
    \A w \in Workers : pc[w] \in {"locked", "computing"} =>
        /\ status[job[w]] = "running"
        /\ attempts[job[w]] = att[w]
        /\ \A v \in Workers \ {w} : ~Holds(v, job[w])

\* The attempt number is a fencing token: however often a Job was taken over,
\* no two workers ever believe they own the same attempt of it, and no worker
\* holds a number that the row has not reached (claim_next).
AttemptFence ==
    \A w \in Workers : Busy(w) =>
        /\ att[w] \in 1..attempts[job[w]]
        /\ \A v \in Workers \ {w} :
             Busy(v) /\ job[v] = job[w] => att[v] # att[w]

\* "Artifact validation and Job completion commit together; an expired
\* attempt rolls the Artifact back too" (worker.py): a validated result exists
\* exactly for the completed Jobs, and the row names it, except that a row
\* inherited from a two-transaction worker has its Artifact beforehand.
PublishedIffCompleted ==
    \A j \in Jobs :
        /\ result[j] <=> status[j] = "completed"
        /\ status[j] = "completed" => artifact[j] = "validated"
        /\ artifact[j] = "validated" =>
             status[j] = "completed" \/ j \in Inherited

\* A completion is announced after it committed and at most once, by one
\* process, over every path that can complete a row (_transaction,
\* _defer_completion_observation).
AuditedAtMostOnce ==
    \A j \in Jobs :
        /\ audited[j] <= 1
        /\ audited[j] = 1 => status[j] = "completed"
        /\ \A w \in Workers : j \in pending[w] =>
             /\ status[j] = "completed"
             /\ audited[j] = 0
             /\ \A v \in Workers \ {w} : j \notin pending[v]

\* A worker whose attempt is current and whose lease no clock has ended loses
\* the Job only by its own report or by the owner's cancel: no late report of
\* an earlier attempt and no other worker's claim takes it away.
LiveAttemptKept ==
    [][\A w \in Workers :
         /\ Busy(w)
         /\ status[job[w]] = "running" /\ attempts[job[w]] = att[w]
         /\ lapsed[job[w]] = {}
         /\ status'[job[w]] # "running" \/ attempts'[job[w]] # att[w]
         => status'[job[w]] = "cancelled" \/ pc'[w] # pc[w]]_vars

\* The factor store keeps the promise every business Job makes.
Lifecycle == INSTANCE JobLifecycle
LifecycleSpec == Lifecycle!Spec

\* Every accepted Job comes to an end: workers may crash at any step and as
\* often as they like, leases may lapse on any clock in any order, and a Job
\* that always fails does not starve the ones behind it.
EveryJobSettles ==
    \A j \in Jobs : status[j] \in {"queued", "running"} ~> status[j] \in Terminal
=============================================================================
