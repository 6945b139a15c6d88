-------------------------- MODULE OptimizationJobs --------------------------
(***************************************************************************)
(* The parameter-search queue (optimization_job.py and its worker) beside  *)
(* the backtest queue whose completed rows it compares.  The two meet in   *)
(* backtest_jobs: submitting and committing a comparison lock the          *)
(* candidate rows FOR SHARE, deleting a backtest locks its row FOR UPDATE  *)
(* and then looks for a citing optimization.                               *)
(***************************************************************************)
EXTENDS BacktestJobs

CONSTANTS
    Optimizations,     \* (task_id, idempotency_key) pairs
    Comparers,         \* optimization worker processes
    OptMaxAttempts     \* MAX_ATTEMPTS

ASSUME OptMaxAttemptsAssumption == OptMaxAttempts \in Nat \ {0}

VARIABLES
    ostatus,       \* [Optimizations -> Status]
    oattempts,     \* [Optimizations -> 0..OptMaxAttempts]
    olapsed,       \* [Optimizations -> SUBSET OptClocks]
    candidates,    \* [Optimizations -> SUBSET Backtests], request_json
    sharing,       \* [Optimizations -> SUBSET Backtests], the rows its open
                   \* submission transaction holds FOR SHARE
    checked,       \* submissions whose candidates passed their checks
    comparison,    \* Optimizations with a validated comparison Artifact
    superseded,    \* candidates whose strategy version is no longer validated
    opc,           \* [Comparers -> OptPC]
    ojob,          \* [Comparers -> Optimizations \cup {NoJob}]
    oatt,          \* [Comparers -> 0..OptMaxAttempts]
    oretryable     \* [Comparers -> BOOLEAN]

orow  == <<ostatus, oattempts, olapsed, candidates>>
oproc == <<opc, ojob, oatt, oretryable>>
open  == <<sharing, checked>>
ovars == <<ostatus, oattempts, olapsed, candidates, sharing, checked,
           comparison, superseded, opc, ojob, oatt, oretryable>>
vars  == <<bvars, ovars>>

OptClocks == Comparers \cup {Database}

\* claimed: before candidate_facts; ranking: metrics read, outside every
\* transaction; failing: fail() still to be called.
OptPC == {"idle", "claimed", "ranking", "failing"}

TypeOK ==
    /\ BacktestTypeOK
    /\ ostatus \in [Optimizations -> Status \ {"deleted"}]
    /\ oattempts \in [Optimizations -> 0..OptMaxAttempts]
    /\ olapsed \in [Optimizations -> SUBSET OptClocks]
    /\ candidates \in [Optimizations -> SUBSET Backtests]
    /\ sharing \in [Optimizations -> SUBSET Backtests]
    /\ checked \subseteq Optimizations
    /\ comparison \subseteq Optimizations
    /\ superseded \subseteq Backtests
    /\ opc \in [Comparers -> OptPC]
    /\ ojob \in [Comparers -> Optimizations \cup {NoJob}]
    /\ oatt \in [Comparers -> 0..OptMaxAttempts]
    /\ oretryable \in [Comparers -> BOOLEAN]
    /\ \A w \in Comparers : opc[w] # "idle" => ojob[w] \in Optimizations

Init ==
    /\ BacktestInit
    /\ ostatus = [o \in Optimizations |-> "absent"]
    /\ oattempts = [o \in Optimizations |-> 0]
    /\ olapsed = [o \in Optimizations |-> {}]
    /\ candidates = [o \in Optimizations |-> {}]
    /\ sharing = [o \in Optimizations |-> {}]
    /\ checked = {}
    /\ comparison = {}
    /\ superseded = {}
    /\ opc = [w \in Comparers |-> "idle"]
    /\ ojob = [w \in Comparers |-> NoJob]
    /\ oatt = [w \in Comparers |-> 0]
    /\ oretryable = [w \in Comparers |-> FALSE]

----------------------------------------------------------------------------
(* What the two queues see of each other *)

SharedRows == UNION {sharing[o] : o \in Optimizations}

\* Only a committed row is visible to the delete transaction.
CitedRows == UNION {candidates[o] : o \in {p \in Optimizations : ostatus[p] # "absent"}}

\* _candidate_facts and _validate_candidate_facts: every candidate completed,
\* its result validated and its strategy version still validated.
FactsValid(C) ==
    \A b \in C : status[b] = "completed" /\ b \in artifact /\ b \notin superseded

\* Mutant: candidate rows are read without FOR SHARE.
LockCandidatesUnshared(o, C) ==
    /\ Cardinality(C) >= 2
    /\ \A b \in C : status[b] \notin {"absent", "deleted"} /\ b \notin deleting
    /\ sharing' = sharing

\* _lock_candidate_rows: waits for a delete that holds a row; a row that is
\* gone refuses the submission.
LockCandidates(o, C) ==
    /\ Cardinality(C) >= 2
    /\ \A b \in C : status[b] \notin {"absent", "deleted"} /\ b \notin deleting
    /\ sharing' = [sharing EXCEPT ![o] = C]

\* create, up to the candidate locks; candidates' carries the open request.
OpenSubmission(o) ==
    /\ ostatus[o] = "absent"
    /\ candidates[o] = {}
    /\ \E C \in SUBSET Backtests :
         /\ LockCandidates(o, C)
         /\ candidates' = [candidates EXCEPT ![o] = C]
    /\ UNCHANGED <<bvars, ostatus, oattempts, olapsed, checked, comparison,
                   superseded, oproc>>

\* create, the candidates' facts: anything amiss rolls back.
CheckCandidates(o) ==
    /\ ostatus[o] = "absent"
    /\ candidates[o] # {}
    /\ o \notin checked
    /\ IF FactsValid(candidates[o])
         THEN checked' = checked \cup {o} /\ UNCHANGED <<candidates, sharing>>
         ELSE /\ candidates' = [candidates EXCEPT ![o] = {}]
              /\ sharing' = [sharing EXCEPT ![o] = {}]
              /\ UNCHANGED checked
    /\ UNCHANGED <<bvars, ostatus, oattempts, olapsed, comparison, superseded,
                   oproc>>

\* create, the insert and the commit.
CommitSubmission(o) ==
    /\ o \in checked
    /\ checked' = checked \ {o}
    /\ ostatus' = [ostatus EXCEPT ![o] = "queued"]
    /\ sharing' = [sharing EXCEPT ![o] = {}]
    /\ UNCHANGED <<bvars, oattempts, olapsed, candidates, comparison, superseded,
                   oproc>>

\* An owner supersedes the strategy version a candidate ran with.
SupersedeStrategy(b) ==
    /\ b \notin superseded
    /\ status[b] = "completed"
    /\ superseded' = superseded \cup {b}
    /\ UNCHANGED <<bvars, orow, open, comparison, oproc>>

\* cancel: one guarded UPDATE.
CancelOptimization(o) ==
    /\ ostatus[o] \in {"queued", "running"}
    /\ ostatus' = [ostatus EXCEPT ![o] = "cancelled"]
    /\ olapsed' = [olapsed EXCEPT ![o] = {}]
    /\ UNCHANGED <<bvars, oattempts, candidates, open, comparison,
                   superseded, oproc>>

----------------------------------------------------------------------------
(* The comparing worker *)

OptStale(w, o) == ostatus[o] = "running" /\ w \in olapsed[o]

\* Mutant: an off-by-one in the budget of the final attempt.
OptExhaustedLate(w) ==
    {o \in Optimizations : OptStale(w, o) /\ oattempts[o] > OptMaxAttempts}

OptExhausted(w) ==
    {o \in Optimizations : OptStale(w, o) /\ oattempts[o] >= OptMaxAttempts}

OptClaimable(w) ==
    {o \in Optimizations : /\ ostatus[o] = "queued" \/ OptStale(w, o)
                           /\ oattempts[o] < OptMaxAttempts}

\* LIMIT 1, where no row at all is fine too.
OneOf(S) == IF S = {} THEN {{}} ELSE {{o} : o \in S}

\* claim_next: settles one exhausted stale row, then starts one that is queued
\* or stale (any of them stands for the oldest).
OptClaimNext(w) ==
    /\ opc[w] = "idle"
    /\ \E E \in OneOf(OptExhausted(w)), C \in OneOf(OptClaimable(w)) :
         /\ E \cup C # {}
         /\ ostatus' = [o \in Optimizations |->
                IF o \in C THEN "running"
                ELSE IF o \in E THEN "failed" ELSE ostatus[o]]
         /\ oattempts' = [o \in Optimizations |->
                IF o \in C THEN oattempts[o] + 1 ELSE oattempts[o]]
         /\ olapsed' = [o \in Optimizations |->
                IF o \in E \cup C THEN {} ELSE olapsed[o]]
         /\ \/ C = {} /\ UNCHANGED oproc
            \/ \E o \in C :
                 /\ opc' = [opc EXCEPT ![w] = "claimed"]
                 /\ ojob' = [ojob EXCEPT ![w] = o]
                 /\ oatt' = [oatt EXCEPT ![w] = oattempts[o] + 1]
                 /\ UNCHANGED oretryable
    /\ UNCHANGED <<bvars, candidates, open, comparison, superseded>>

OptIdle(w) ==
    /\ opc' = [opc EXCEPT ![w] = "idle"]
    /\ ojob' = [ojob EXCEPT ![w] = NoJob]
    /\ oatt' = [oatt EXCEPT ![w] = 0]
    /\ oretryable' = [oretryable EXCEPT ![w] = FALSE]

OptCatch(w, r) ==
    /\ opc' = [opc EXCEPT ![w] = "failing"]
    /\ oretryable' = [oretryable EXCEPT ![w] = r]
    /\ UNCHANGED <<ojob, oatt>>

\* candidate_facts, load_result and rank_completed_candidates.  A candidate
\* that fails its checks is an OptimizationConflict, which is retryable.
RankCandidates(w) ==
    /\ opc[w] = "claimed"
    /\ IF FactsValid(candidates[ojob[w]])
         THEN /\ opc' = [opc EXCEPT ![w] = "ranking"]
              /\ UNCHANGED <<ojob, oatt, oretryable>>
         ELSE OptCatch(w, TRUE)
    /\ UNCHANGED <<bvars, orow, open, comparison, superseded>>

\* An invalid metric, an unreadable object (both final) or any other error.
ComparisonFails(w) ==
    /\ opc[w] \in {"claimed", "ranking"}
    /\ \E r \in BOOLEAN : OptCatch(w, r)
    /\ UNCHANGED <<bvars, orow, open, comparison, superseded>>

OptLiveClaim(o, a) ==
    /\ ostatus[o] = "running"
    /\ oattempts[o] = a
    /\ Database \notin olapsed[o]

\* Mutant: the Artifact is created before the claim is checked.
CommitComparisonEarly(w) ==
    /\ opc[w] = "ranking"
    /\ comparison' = comparison \cup {ojob[w]}
    /\ IF OptLiveClaim(ojob[w], oatt[w])
         THEN ostatus' = [ostatus EXCEPT ![ojob[w]] = "completed"]
         ELSE UNCHANGED ostatus
    /\ OptIdle(w)
    /\ UNCHANGED <<bvars, oattempts, olapsed, candidates, open, superseded>>

\* The execution transaction: require_execution_claim, the candidates again
\* under FOR SHARE, the Artifact, its validation and complete.  A lost lease
\* is left to whoever took the row over.
CommitComparison(w) ==
    /\ opc[w] = "ranking"
    /\ OptLiveClaim(ojob[w], oatt[w]) => candidates[ojob[w]] \cap deleting = {}
    /\ IF ~OptLiveClaim(ojob[w], oatt[w])
         THEN OptIdle(w) /\ UNCHANGED <<orow, comparison>>
         ELSE IF FactsValid(candidates[ojob[w]])
         THEN /\ ostatus' = [ostatus EXCEPT ![ojob[w]] = "completed"]
              /\ olapsed' = [olapsed EXCEPT ![ojob[w]] = {}]
              /\ comparison' = comparison \cup {ojob[w]}
              /\ OptIdle(w)
              /\ UNCHANGED <<oattempts, candidates>>
         ELSE OptCatch(w, TRUE) /\ UNCHANGED <<orow, comparison>>
    /\ UNCHANGED <<bvars, open, superseded>>

\* fail: a no-op unless the row still runs this attempt under a live lease.
OptFail(w) ==
    /\ opc[w] = "failing"
    /\ IF OptLiveClaim(ojob[w], oatt[w])
         THEN /\ ostatus' = [ostatus EXCEPT ![ojob[w]] =
                    IF oretryable[w] /\ oattempts[ojob[w]] < OptMaxAttempts
                    THEN "queued" ELSE "failed"]
              /\ olapsed' = [olapsed EXCEPT ![ojob[w]] = {}]
         ELSE UNCHANGED <<ostatus, olapsed>>
    /\ OptIdle(w)
    /\ UNCHANGED <<bvars, oattempts, candidates, open, comparison, superseded>>

CrashComparer(w) ==
    /\ opc[w] # "idle"
    /\ OptIdle(w)
    /\ UNCHANGED <<bvars, orow, open, comparison, superseded>>

\* CLAIM_LEASE_SECONDS go by on one clock.
LapseOptimization(c, o) ==
    /\ ostatus[o] = "running"
    /\ c \notin olapsed[o]
    /\ olapsed' = [olapsed EXCEPT ![o] = @ \cup {c}]
    /\ UNCHANGED <<bvars, ostatus, oattempts, candidates, open, comparison,
                   superseded, oproc>>

OptNext ==
    \/ \E o \in Optimizations : \/ OpenSubmission(o) \/ CheckCandidates(o)
                                \/ CommitSubmission(o) \/ CancelOptimization(o)
    \/ \E b \in Backtests : SupersedeStrategy(b)
    \/ \E w \in Comparers : \/ OptClaimNext(w) \/ RankCandidates(w)
                            \/ ComparisonFails(w) \/ CommitComparison(w)
                            \/ OptFail(w) \/ CrashComparer(w)
    \/ \E c \in OptClocks, o \in Optimizations : LapseOptimization(c, o)

Next ==
    \/ BacktestNext(SharedRows, CitedRows) /\ UNCHANGED ovars
    \/ OptNext

Spec == Init /\ [][Next]_vars

\* As for the factor queue: processes are restarted, computations end, clocks
\* advance, and an API transaction that was opened ends.  Claiming a backtest
\* is strongly fair: a worker that dies between reading an id and claiming it
\* uses up no attempt, and it does not die there every time.  So is committing
\* a comparison: PostgreSQL queues the waiters of a row lock, and refused
\* deletions of a cited row cannot overtake the waiting FOR SHARE for ever.
Fairness ==
    /\ \A w \in Workers :
         /\ WF_vars(RequeueStale(w) /\ UNCHANGED ovars)
         /\ WF_vars(NextQueued(w) /\ UNCHANGED ovars)
         /\ SF_vars(ClaimBacktest(w) /\ UNCHANGED ovars)
         /\ WF_vars(ReadAttempt(w) /\ UNCHANGED ovars)
         /\ WF_vars(StoreResult(w) /\ UNCHANGED ovars)
         /\ WF_vars(CompleteWithArtifact(w) /\ UNCHANGED ovars)
         /\ WF_vars(RetryOrFail(w) /\ UNCHANGED ovars)
    /\ \A c \in Clocks, b \in Backtests :
         WF_vars(LapseBacktest(c, b) /\ UNCHANGED ovars)
    /\ \A b \in Backtests :
         /\ WF_vars(FindCitation(b, CitedRows) /\ UNCHANGED ovars)
         /\ WF_vars(CommitDelete(b) /\ UNCHANGED ovars)
    /\ \A o \in Optimizations :
         WF_vars(CheckCandidates(o)) /\ WF_vars(CommitSubmission(o))
    /\ \A w \in Comparers :
         /\ WF_vars(OptClaimNext(w))
         /\ WF_vars(RankCandidates(w))
         /\ SF_vars(CommitComparison(w))
         /\ WF_vars(OptFail(w))
    /\ \A c \in OptClocks, o \in Optimizations : WF_vars(LapseOptimization(c, o))

FairSpec == Spec /\ Fairness

----------------------------------------------------------------------------
(* Properties *)

\* "Preserve the source ID for every recorded comparison": as long as an
\* optimization row exists, whatever its outcome, every backtest it cites is a
\* completed row with its Artifact and its result object.
CitedSourcesKept ==
    \A o \in Optimizations : ostatus[o] # "absent" =>
        \A b \in candidates[o] :
            status[b] = "completed" /\ b \in artifact /\ b \in objects

\* "A cancelled, expired, or superseded attempt cannot leave an Artifact
\* behind": comparison Artifacts belong exactly to the completed rows.
ComparisonIffCompleted ==
    \A o \in Optimizations : o \in comparison <=> ostatus[o] = "completed"

OptimizationLife == INSTANCE JobLifecycle WITH
    Jobs <- Optimizations, MaxAttempts <- OptMaxAttempts,
    status <- ostatus, attempts <- oattempts,
    result <- [o \in Optimizations |-> o \in comparison]

\* Both queues keep the promise every business Job makes.
LifecycleSpec == BacktestLifecycle /\ OptimizationLife!Spec

\* Every accepted backtest and every accepted comparison comes to an end.
EveryJobSettles ==
    /\ \A b \in Backtests : status[b] \in {"queued", "running"} ~>
                            status[b] \in Terminal
    /\ \A o \in Optimizations : ostatus[o] \in {"queued", "running"} ~>
                                ostatus[o] \in Terminal
=============================================================================
