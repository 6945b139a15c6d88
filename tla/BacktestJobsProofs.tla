------------------------- MODULE BacktestJobsProofs -------------------------
(***************************************************************************)
(* Proofs about BacktestJobs, the backtest queue, for every number of rows, *)
(* workers and attempts.  The step lemmas hold whatever rows the            *)
(* optimization queue shares or cites, so that OptimizationJobsProofs can   *)
(* use them.                                                                *)
(***************************************************************************)
EXTENDS BacktestJobs, TLAPS

----------------------------------------------------------------------------
(* The inductive invariant *)

\* An open delete transaction holds a row that is over, and an object is only
\* collected for a row that is gone.
DeletedIsOver ==
    /\ \A b \in deleting : status[b] \in Terminal
    /\ \A b \in garbage : status[b] = "deleted"

\* A worker that has stored its result finds it again, unless the row is gone.
StoredIsThere ==
    \A w \in Workers : pc[w] = "stored" => job[w] \in objects \/ status[job[w]] = "deleted"

BInv ==
    /\ BacktestTypeOK
    /\ DeletedIsOver
    /\ StoredIsThere
    /\ CompletedHasResult

----------------------------------------------------------------------------
(* Types *)

\* The empty tables and the idle workers have their types.
LEMMA BacktestInitTypes == BacktestInit => BacktestTypeOK
  BY MaxAttemptsAssumption DEF BacktestInit, BacktestTypeOK, Status, PC

\* A worker that ends its round, or goes on with its job, keeps its types.
LEMMA MoveTypes ==
    ASSUME BacktestTypeOK, NEW w \in Workers
    PROVE  /\ Idle(w) =>
                /\ pc' \in [Workers -> PC] /\ job' \in [Workers -> Backtests \cup {NoJob}]
                /\ att' \in [Workers -> 0..MaxAttempts]
                /\ \A v \in Workers : pc'[v] # "idle" => job'[v] \in Backtests
           /\ \A place \in PC :
                Goto(w, place) /\ pc[w] # "idle" /\ UNCHANGED <<job, att>> =>
                /\ pc' \in [Workers -> PC] /\ job' \in [Workers -> Backtests \cup {NoJob}]
                /\ att' \in [Workers -> 0..MaxAttempts]
                /\ \A v \in Workers : pc'[v] # "idle" => job'[v] \in Backtests
  BY MaxAttemptsAssumption DEF BacktestTypeOK, Idle, Goto, PC

\* Every step of the queue keeps its types, whatever rows are shared or cited.
LEMMA BacktestNextTypes ==
    ASSUME BacktestTypeOK, NEW shared, NEW cited, BacktestNext(shared, cited)
    PROVE  BacktestTypeOK'
<1> USE MaxAttemptsAssumption DEF BacktestTypeOK, row, proc, dels
<1>1. ASSUME NEW b \in Backtests,
             \/ CreateBacktest(b) \/ CancelBacktest(b) \/ OpenDelete(b, shared)
             \/ FindCitation(b, cited) \/ CollectObject(b)
      PROVE BacktestTypeOK'
  BY <1>1 DEF CreateBacktest, CancelBacktest, OpenDelete, FindCitation, CollectObject,
     Status, Terminal
<1>2. ASSUME NEW b \in Backtests, CommitDelete(b) PROVE BacktestTypeOK'
  BY <1>2 DEF CommitDelete, Status
<1>3. ASSUME NEW w \in Workers, RequeueStale(w) PROVE BacktestTypeOK'
  BY <1>3 DEF RequeueStale, Status, Terminal
<1>4. ASSUME NEW w \in Workers, NextQueued(w) PROVE BacktestTypeOK'
  BY <1>4 DEF NextQueued, Goto, PC
<1>5. ASSUME NEW w \in Workers, ClaimBacktest(w) PROVE BacktestTypeOK'
  <2>1. CASE status[job[w]] = "queued" /\ attempts[job[w]] < MaxAttempts
    <3>1. /\ status' \in [Backtests -> Status] /\ lapsed' \in [Backtests -> SUBSET Clocks]
          /\ attempts' \in [Backtests -> 0..MaxAttempts]
      BY <1>5, <2>1 DEF ClaimBacktest, Status
    <3> QED BY <1>5, <2>1, <3>1 DEF ClaimBacktest, Goto, PC
  <2>2. CASE ~(status[job[w]] = "queued" /\ attempts[job[w]] < MaxAttempts)
    BY <1>5, <2>2, MoveTypes DEF ClaimBacktest
  <2> QED BY <2>1, <2>2
<1>6. ASSUME NEW w \in Workers, ReadAttempt(w) PROVE BacktestTypeOK'
  <2>1. CASE status[job[w]] = "deleted"
    BY <1>6, <2>1, MoveTypes DEF ReadAttempt
  <2>2. CASE status[job[w]] # "deleted"
    BY <1>6, <2>2 DEF ReadAttempt, Goto, PC
  <2> QED BY <2>1, <2>2
<1>7. ASSUME NEW w \in Workers, StoreResult(w) \/ ExecutionFails(w) PROVE BacktestTypeOK'
  BY <1>7 DEF StoreResult, ExecutionFails, Goto, PC
<1>8. ASSUME NEW w \in Workers, CompleteWithArtifact(w) PROVE BacktestTypeOK'
  <2>1. CASE CurrentAttempt(job[w], att[w])
    <3>1. /\ status' \in [Backtests -> Status] /\ lapsed' \in [Backtests -> SUBSET Clocks]
          /\ artifact' \subseteq Backtests /\ Idle(w)
          /\ UNCHANGED <<attempts, dels, objects, garbage>>
      BY <1>8, <2>1 DEF CompleteWithArtifact, Status, Terminal
    <3> QED BY <3>1, MoveTypes
  <2>2. CASE ~CurrentAttempt(job[w], att[w])
    BY <1>8, <2>2 DEF CompleteWithArtifact, Goto, PC
  <2> QED BY <2>1, <2>2
<1>9. ASSUME NEW w \in Workers, RetryOrFail(w) PROVE BacktestTypeOK'
  <2>1. /\ status' \in [Backtests -> Status] /\ lapsed' \in [Backtests -> SUBSET Clocks]
        /\ Idle(w) /\ UNCHANGED <<attempts, dels, artifact, objects, garbage>>
    BY <1>9 DEF RetryOrFail, Status, Terminal
  <2> QED BY <2>1, MoveTypes
<1>10. ASSUME NEW w \in Workers, CrashWorker(w) PROVE BacktestTypeOK'
  BY <1>10, MoveTypes DEF CrashWorker
<1>11. ASSUME NEW c \in Clocks, NEW b \in Backtests, LapseBacktest(c, b) PROVE BacktestTypeOK'
  BY <1>11 DEF LapseBacktest
<1> QED
  BY <1>1, <1>2, <1>3, <1>4, <1>5, <1>6, <1>7, <1>8, <1>9, <1>10, <1>11
  DEF BacktestNext, WorkerStep

----------------------------------------------------------------------------
(* Rows *)

\* What a step may do to the status and the attempts of one row.
RowMove(b) ==
    \/ status'[b] = status[b] /\ attempts'[b] = attempts[b]
    \/ status[b] = "absent" /\ status'[b] = "queued" /\ attempts'[b] = attempts[b]
    \/ /\ status[b] \in {"queued", "running"} /\ status'[b] = "cancelled"
       /\ attempts'[b] = attempts[b]
    \/ /\ status[b] = "queued" /\ attempts[b] < MaxAttempts
       /\ status'[b] = "running" /\ attempts'[b] = attempts[b] + 1
    \/ /\ status[b] = "running" /\ attempts[b] < MaxAttempts
       /\ status'[b] = "queued" /\ attempts'[b] = attempts[b]
    \/ /\ status[b] \in {"queued", "running"} /\ attempts[b] >= MaxAttempts
       /\ status'[b] = "failed" /\ attempts'[b] = attempts[b]
    \/ /\ status[b] = "running" /\ status'[b] = "completed" /\ attempts'[b] = attempts[b]
       /\ b \in objects /\ b \in artifact'
    \/ /\ b \in uncited /\ b \notin deleting'
       /\ status'[b] = "deleted" /\ attempts'[b] = attempts[b]

\* Every step moves every row as RowMove says.
LEMMA EveryRowMove ==
    ASSUME BacktestTypeOK, StoredIsThere, NEW shared, NEW cited, BacktestNext(shared, cited)
    PROVE  \A b \in Backtests : RowMove(b)
<1> USE DEF BacktestTypeOK, row
<1>1. ASSUME NEW b \in Backtests,
             \/ CreateBacktest(b) \/ CancelBacktest(b) \/ OpenDelete(b, shared)
             \/ FindCitation(b, cited) \/ CollectObject(b) \/ CommitDelete(b)
      PROVE \A k \in Backtests : RowMove(k)
  BY <1>1 DEF CreateBacktest, CancelBacktest, OpenDelete, FindCitation, CollectObject,
     CommitDelete, RowMove
<1>2. ASSUME NEW w \in Workers, RequeueStale(w) PROVE \A b \in Backtests : RowMove(b)
  BY <1>2 DEF RequeueStale, Stale, RowMove
<1>3. ASSUME NEW w \in Workers,
             \/ NextQueued(w) \/ ReadAttempt(w) \/ StoreResult(w) \/ ExecutionFails(w)
             \/ CrashWorker(w)
      PROVE \A b \in Backtests : RowMove(b)
  BY <1>3 DEF NextQueued, ReadAttempt, StoreResult, ExecutionFails, CrashWorker, RowMove
<1>4. ASSUME NEW w \in Workers, ClaimBacktest(w) PROVE \A b \in Backtests : RowMove(b)
  BY <1>4 DEF ClaimBacktest, RowMove
<1>5. ASSUME NEW w \in Workers, CompleteWithArtifact(w) PROVE \A b \in Backtests : RowMove(b)
  <2>1. CASE CurrentAttempt(job[w], att[w])
    <3>1. job[w] \in objects /\ status[job[w]] = "running"
      BY <1>5, <2>1 DEF CompleteWithArtifact, CurrentAttempt, StoredIsThere
    <3> QED BY <1>5, <2>1, <3>1 DEF CompleteWithArtifact, RowMove
  <2>2. CASE ~CurrentAttempt(job[w], att[w])
    BY <1>5, <2>2 DEF CompleteWithArtifact, RowMove
  <2> QED BY <2>1, <2>2
<1>6. ASSUME NEW w \in Workers, RetryOrFail(w) PROVE \A b \in Backtests : RowMove(b)
  BY <1>6, MaxAttemptsAssumption DEF RetryOrFail, RowMove
<1>7. ASSUME NEW c \in Clocks, NEW b \in Backtests, LapseBacktest(c, b)
      PROVE \A k \in Backtests : RowMove(k)
  BY <1>7 DEF LapseBacktest, RowMove
<1> QED BY <1>1, <1>2, <1>3, <1>4, <1>5, <1>6, <1>7 DEF BacktestNext, WorkerStep

----------------------------------------------------------------------------
(* Objects and Artifacts *)

\* Only a row that is over is locked for deletion, a row becomes garbage when it
\* is deleted, an object goes only when it is garbage, and an Artifact comes
\* only with the completion of its row.
LEMMA TablesMove ==
    ASSUME BacktestTypeOK, NEW shared, NEW cited, BacktestNext(shared, cited)
    PROVE  /\ \A b \in deleting' \ deleting : status[b] \in Terminal /\ status'[b] = status[b]
           /\ \A b \in garbage' \ garbage : status'[b] = "deleted"
           /\ objects \ garbage \subseteq objects'
           /\ artifact \subseteq artifact'
           /\ \A b \in artifact' \ artifact : status'[b] = "completed"
<1> DEFINE Move ==
             /\ \A b \in deleting' \ deleting : status[b] \in Terminal /\ status'[b] = status[b]
             /\ \A b \in garbage' \ garbage : status'[b] = "deleted"
             /\ objects \ garbage \subseteq objects'
             /\ artifact \subseteq artifact'
             /\ \A b \in artifact' \ artifact : status'[b] = "completed"
<1> USE DEF BacktestTypeOK, row, dels, proc
<1>1. ASSUME NEW b \in Backtests,
             \/ CreateBacktest(b) \/ CancelBacktest(b) \/ OpenDelete(b, shared)
             \/ FindCitation(b, cited) \/ CollectObject(b) \/ CommitDelete(b)
      PROVE Move
  BY <1>1 DEF CreateBacktest, CancelBacktest, OpenDelete, FindCitation, CollectObject,
     CommitDelete
<1>2. ASSUME NEW w \in Workers,
             \/ RequeueStale(w) \/ NextQueued(w) \/ ClaimBacktest(w) \/ ReadAttempt(w)
             \/ StoreResult(w) \/ ExecutionFails(w) \/ RetryOrFail(w) \/ CrashWorker(w)
      PROVE Move
  BY <1>2 DEF RequeueStale, NextQueued, ClaimBacktest, ReadAttempt, StoreResult,
     ExecutionFails, RetryOrFail, CrashWorker
<1>3. ASSUME NEW w \in Workers, CompleteWithArtifact(w) PROVE Move
  BY <1>3 DEF CompleteWithArtifact
<1>4. ASSUME NEW c \in Clocks, NEW b \in Backtests, LapseBacktest(c, b) PROVE Move
  BY <1>4 DEF LapseBacktest
<1> QED BY <1>1, <1>2, <1>3, <1>4 DEF BacktestNext, WorkerStep

\* A result once stored stays for the worker that stored it.
LEMMA NextStoredIsThere ==
    ASSUME BacktestTypeOK, DeletedIsOver, StoredIsThere, NEW shared, NEW cited,
           BacktestNext(shared, cited)
    PROVE  StoredIsThere'
<1> SUFFICES ASSUME NEW w \in Workers, pc'[w] = "stored"
             PROVE  job'[w] \in objects' \/ status'[job'[w]] = "deleted"
  BY DEF StoredIsThere
<1> USE DEF BacktestTypeOK
<1>1. CASE pc[w] = "stored" /\ job'[w] = job[w]
  <2>1. job[w] \in Backtests /\ RowMove(job[w])
    BY <1>1, EveryRowMove
  <2>2. CASE status[job[w]] = "deleted"
    <3>1. job[w] \notin uncited
      BY <2>2 DEF DeletedIsOver, Terminal
    <3> QED BY <1>1, <2>1, <2>2, <3>1 DEF RowMove
  <2>3. CASE status[job[w]] # "deleted"
    <3>1. job[w] \in objects /\ job[w] \notin garbage
      BY <1>1, <2>3 DEF StoredIsThere, DeletedIsOver
    <3> QED BY <1>1, <3>1, TablesMove
  <2> QED BY <2>2, <2>3
<1>2. CASE StoreResult(w)
  BY <1>2 DEF StoreResult
<1>3. ASSUME NEW v \in Workers, WorkerStep(v), v # w \/ ~StoreResult(v)
      PROVE pc[w] = "stored" /\ job'[w] = job[w]
  <2>1. CASE v # w
    BY <1>3, <2>1 DEF WorkerStep, RequeueStale, NextQueued, ClaimBacktest, ReadAttempt,
       StoreResult, ExecutionFails, CompleteWithArtifact, RetryOrFail, CrashWorker, Idle, Goto,
       proc
  <2>2. CASE v = w
    BY <1>3, <2>2 DEF WorkerStep, RequeueStale, NextQueued, ClaimBacktest, ReadAttempt,
       ExecutionFails, CompleteWithArtifact, RetryOrFail, CrashWorker, Idle, Goto, proc
  <2> QED BY <2>1, <2>2
<1>4. CASE UNCHANGED proc
  BY <1>1, <1>4 DEF proc
<1>5. (\A v \in Workers : ~WorkerStep(v)) => UNCHANGED proc
  BY DEF BacktestNext, CreateBacktest, CancelBacktest, OpenDelete, FindCitation,
     CommitDelete, CollectObject, LapseBacktest
<1> QED BY <1>1, <1>2, <1>3, <1>4, <1>5

\* Every step of the queue keeps the invariant, whatever is shared or cited.
LEMMA BacktestNextBInv ==
    ASSUME BInv, NEW shared, NEW cited, BacktestNext(shared, cited)
    PROVE  BInv'
<1> USE DEF BInv
<1>1. BacktestTypeOK' /\ StoredIsThere'
  BY BacktestNextTypes, NextStoredIsThere
<1>2. \A b \in Backtests : RowMove(b)
  BY EveryRowMove
<1>3. DeletedIsOver'
  <2>1. ASSUME NEW b \in deleting' PROVE status'[b] \in Terminal
    <3>1. b \in Backtests
      BY <1>1 DEF BacktestTypeOK
    <3>2. CASE b \in deleting
      BY <1>2, <2>1, <3>1, <3>2 DEF DeletedIsOver, RowMove, Terminal
    <3>3. CASE b \notin deleting
      BY <2>1, <3>3, TablesMove
    <3> QED BY <3>2, <3>3
  <2>2. ASSUME NEW b \in garbage' PROVE status'[b] = "deleted"
    <3>1. b \in Backtests
      BY <1>1 DEF BacktestTypeOK
    <3>2. CASE b \in garbage
      BY <1>2, <3>1, <3>2 DEF DeletedIsOver, RowMove
    <3>3. CASE b \notin garbage
      BY <2>2, <3>3, TablesMove
    <3> QED BY <3>2, <3>3
  <2> QED BY <2>1, <2>2 DEF DeletedIsOver
<1>4. CompletedHasResult'
  <2> SUFFICES ASSUME NEW b \in Backtests
               PROVE  /\ status'[b] = "completed" => b \in artifact' /\ b \in objects'
                      /\ b \in artifact' => status'[b] \in {"completed", "deleted"}
    BY DEF CompletedHasResult
  <2>1. RowMove(b)
    BY <1>2
  <2>2. status'[b] = "completed" => b \in objects /\ b \notin garbage /\ b \in artifact'
    BY <2>1, TablesMove DEF RowMove, CompletedHasResult, DeletedIsOver
  <2>3. b \in artifact => status'[b] \in {"completed", "deleted"}
    BY <2>1 DEF RowMove, CompletedHasResult
  <2> QED BY <2>2, <2>3, TablesMove
<1> QED BY <1>1, <1>3, <1>4

\* The initial state satisfies the invariant.
LEMMA BacktestInitBInv == BacktestInit => BInv
<1> SUFFICES ASSUME BacktestInit PROVE BInv
  OBVIOUS
<1>1. BacktestTypeOK
  BY BacktestInitTypes
<1>2. DeletedIsOver /\ StoredIsThere /\ CompletedHasResult
  BY DEF BacktestInit, DeletedIsOver, StoredIsThere, CompletedHasResult
<1> QED BY <1>1, <1>2 DEF BInv

\* The queue alone keeps the invariant.
LEMMA BacktestInvariance == BacktestSpec => []BInv
<1>1. BInv /\ UNCHANGED bvars => BInv'
  BY DEF BInv, bvars, BacktestTypeOK, DeletedIsOver, StoredIsThere, CompletedHasResult
<1>2. BInv /\ [BacktestNext({}, {})]_bvars => BInv'
  BY <1>1, BacktestNextBInv
<1> QED BY <1>2, BacktestInitBInv, PTL DEF BacktestSpec

----------------------------------------------------------------------------
(* The theorems *)

\* The queue's tables and workers keep their types.
THEOREM BacktestTypeCorrect == BacktestSpec => []BacktestTypeOK
<1>1. BInv => BacktestTypeOK
  BY DEF BInv
<1> QED BY <1>1, BacktestInvariance, PTL

\* A completed backtest has its Artifact and its result object, whatever late
\* attempts, deletions and collections run beside it, and no other row has one.
THEOREM CompletionHasResult == BacktestSpec => []CompletedHasResult
<1>1. BInv => CompletedHasResult
  BY DEF BInv
<1> QED BY <1>1, BacktestInvariance, PTL

\* The initial tables are initial for the business-Job lifecycle.
LEMMA BacktestLifeInit == BacktestInit => BacktestLife!Init
<1> DEFINE done(b) == status[b] = "completed"
<1> SUFFICES ASSUME BacktestInit PROVE BacktestLife!Init
  OBVIOUS
<1>1. \A b \in Backtests : status[b] = "absent" /\ done(b) = FALSE /\ attempts[b] = 0
  BY DEF BacktestInit
<1>2. /\ attempts \in [Backtests -> 0..MaxAttempts]
      /\ status \in [Backtests -> {"absent", "running"}]
  BY MaxAttemptsAssumption DEF BacktestInit
<1> QED BY <1>1, <1>2 DEF BacktestLife!Init

\* Every step of the queue moves every row along one transition of the
\* business-Job lifecycle, whatever is shared or cited.
LEMMA BacktestLifeNext ==
    ASSUME BInv, NEW shared, NEW cited, BacktestNext(shared, cited)
    PROVE  BacktestLife!Next
<1> DEFINE done(b) == status[b] = "completed"
<1> SUFFICES ASSUME NEW b \in Backtests PROVE BacktestLife!JobStep(b)
  BY DEF BacktestLife!Next
<1> USE MaxAttemptsAssumption DEF BInv, BacktestLife!Becomes
<1>1. RowMove(b) /\ attempts[b] \in Nat
  BY EveryRowMove DEF BacktestTypeOK
<1>2. CASE status'[b] = status[b] /\ attempts'[b] = attempts[b]
  BY <1>2 DEF BacktestLife!JobStep, BacktestLife!Stay
<1>3. CASE status'[b] # status[b] /\ status'[b] # "completed"
  <2>1. done(b)' = FALSE
    BY <1>3
  <2>2. b \in uncited => status[b] \in Terminal
    BY DEF DeletedIsOver, BacktestTypeOK
  <2>3. CASE status'[b] = "queued"
    <3>1. BacktestLife!Submit(b) \/ BacktestLife!Retry(b)
      BY <1>1, <1>3, <2>1, <2>3 DEF RowMove, BacktestLife!Submit, BacktestLife!Retry
    <3> QED BY <3>1 DEF BacktestLife!JobStep
  <2>4. CASE status'[b] = "running"
    <3>1. BacktestLife!Start(b)
      BY <1>1, <1>3, <2>1, <2>4 DEF RowMove, BacktestLife!Start, BacktestLife!Active
    <3> QED BY <3>1 DEF BacktestLife!JobStep
  <2>5. CASE status'[b] = "failed"
    <3>1. /\ status[b] \in {"queued", "running"} /\ attempts[b] >= MaxAttempts
          /\ attempts'[b] = attempts[b]
      BY <1>1, <1>3, <2>5 DEF RowMove
    <3>2. attempts[b] > 0
      BY <1>1, <3>1
    <3>3. BacktestLife!GiveUp(b)
      BY <2>1, <2>5, <3>1, <3>2 DEF BacktestLife!GiveUp, BacktestLife!Active
    <3> QED BY <3>3 DEF BacktestLife!JobStep
  <2>6. CASE status'[b] = "cancelled"
    <3>1. BacktestLife!Withdraw(b)
      BY <1>1, <1>3, <2>1, <2>6 DEF RowMove, BacktestLife!Withdraw, BacktestLife!Active
    <3> QED BY <3>1 DEF BacktestLife!JobStep
  <2>7. CASE status'[b] = "deleted"
    <3>1. BacktestLife!Purge(b)
      BY <1>1, <1>3, <2>1, <2>2, <2>7
      DEF RowMove, Terminal, BacktestLife!Purge, BacktestLife!Terminal
    <3> QED BY <3>1 DEF BacktestLife!JobStep
  <2> QED BY <1>1, <1>3, <2>3, <2>4, <2>5, <2>6, <2>7 DEF RowMove
<1>4. CASE status'[b] # status[b] /\ status'[b] = "completed"
  <2>1. done(b)' = TRUE
    BY <1>4
  <2> QED BY <1>1, <1>4, <2>1 DEF RowMove, BacktestLife!JobStep, BacktestLife!Succeed
<1>5. CASE status'[b] = status[b] /\ attempts'[b] # attempts[b]
  BY <1>1, <1>5 DEF RowMove
<1> QED BY <1>2, <1>3, <1>4, <1>5

\* The backtest queue implements the business-Job lifecycle, although two
\* workers may come to report under one attempt.
THEOREM BacktestImplementsLifecycle == BacktestSpec => BacktestLifecycle
<1>1. BInv /\ [BacktestNext({}, {})]_bvars => [BacktestLife!Next]_(BacktestLife!vars)
  BY BacktestLifeNext DEF bvars, BacktestLife!vars
<1> QED
  BY <1>1, BacktestLifeInit, BacktestInvariance, PTL
  DEF BacktestSpec, BacktestLifecycle, BacktestLife!Spec

----------------------------------------------------------------------------
(* The fence of a claim that is read in time *)

Working(w) == pc[w] \in {"computing", "stored", "failing"}

\* While a claim has not been read, its row is neither waiting nor over its
\* lease, and nobody else has its attempt; no worker is ahead of its row.
UnreadClaims ==
    \A w \in Workers : pc[w] = "claimed" =>
        /\ lapsed[job[w]] = {} /\ status[job[w]] \notin {"absent", "queued"}
        /\ \A v \in Workers \ {w} : job[v] = job[w] =>
              pc[v] # "claimed" /\ (Working(v) => att[v] < attempts[job[w]])
NobodyAhead == \A w \in Workers : Working(w) => att[w] <= attempts[job[w]]

TimelyInv == BInv /\ UnreadClaims /\ NobodyAhead /\ OneWorkerPerAttempt

\* What a step may do to one worker.
Keeps(w) == pc'[w] = pc[w] /\ job'[w] = job[w] /\ att'[w] = att[w]
WorkerMove(w) ==
    \/ Keeps(w)
    \/ pc'[w] \in {"idle", "picked"}
    \/ /\ pc[w] = "picked" /\ pc'[w] = "claimed" /\ job'[w] = job[w]
       /\ status[job[w]] = "queued" /\ status'[job[w]] = "running"
       /\ attempts'[job[w]] = attempts[job[w]] + 1 /\ lapsed'[job[w]] = {}
    \/ /\ pc[w] = "claimed" /\ pc'[w] = "computing" /\ job'[w] = job[w]
       /\ att'[w] = attempts[job[w]] /\ UNCHANGED attempts
    \/ Working(w) /\ Working(w)' /\ job'[w] = job[w] /\ att'[w] = att[w]

\* A step moves at most one worker, as WorkerMove says, and takes a row back to
\* the queue only after its lease or for the worker that has its attempt.
LEMMA EveryWorkerMove ==
    ASSUME BacktestTypeOK, NEW shared, NEW cited, BacktestNext(shared, cited)
    PROVE  /\ \A w \in Workers : WorkerMove(w)
           /\ \A v, w \in Workers : v # w => Keeps(v) \/ Keeps(w)
           /\ \A b \in Backtests : status[b] = "running" /\ status'[b] = "queued" =>
                 \/ lapsed[b] # {}
                 \/ \E w \in Workers : Working(w) /\ job[w] = b /\ att[w] = attempts[b]
<1> DEFINE Back(b) == status[b] = "running" /\ status'[b] = "queued" =>
                         \/ lapsed[b] # {}
                         \/ \E w \in Workers : Working(w) /\ job[w] = b /\ att[w] = attempts[b]
           Only(u) == WorkerMove(u) /\ \A v \in Workers \ {u} : Keeps(v)
<1> USE DEF BacktestTypeOK, row, proc
<1>1. ASSUME NEW b \in Backtests,
             \/ CreateBacktest(b) \/ CancelBacktest(b) \/ OpenDelete(b, shared)
             \/ FindCitation(b, cited) \/ CollectObject(b) \/ CommitDelete(b)
      PROVE UNCHANGED proc /\ \A k \in Backtests : Back(k)
  BY <1>1 DEF CreateBacktest, CancelBacktest, OpenDelete, FindCitation, CollectObject,
     CommitDelete
<1>2. ASSUME NEW w \in Workers, RequeueStale(w)
      PROVE UNCHANGED proc /\ \A k \in Backtests : Back(k)
  BY <1>2 DEF RequeueStale, Stale
<1>3. ASSUME NEW c \in Clocks, NEW b \in Backtests, LapseBacktest(c, b)
      PROVE UNCHANGED proc /\ \A k \in Backtests : Back(k)
  BY <1>3 DEF LapseBacktest
<1>4. ASSUME NEW w \in Workers,
             \/ NextQueued(w) \/ ReadAttempt(w) \/ StoreResult(w) \/ ExecutionFails(w)
             \/ CrashWorker(w)
      PROVE Only(w) /\ \A k \in Backtests : Back(k)
  BY <1>4 DEF NextQueued, ReadAttempt, StoreResult, ExecutionFails, CrashWorker, Goto, Idle,
     WorkerMove, Keeps, Working
<1>5. ASSUME NEW w \in Workers, ClaimBacktest(w)
      PROVE Only(w) /\ \A k \in Backtests : Back(k)
  <2>1. job[w] \in Backtests
    BY <1>5 DEF ClaimBacktest
  <2>2. CASE status[job[w]] = "queued" /\ attempts[job[w]] < MaxAttempts
    BY <1>5, <2>1, <2>2 DEF ClaimBacktest, Goto, WorkerMove, Keeps
  <2>3. CASE ~(status[job[w]] = "queued" /\ attempts[job[w]] < MaxAttempts)
    BY <1>5, <2>1, <2>3 DEF ClaimBacktest, Idle, Goto, WorkerMove, Keeps
  <2> QED BY <2>2, <2>3
<1>6. ASSUME NEW w \in Workers, CompleteWithArtifact(w)
      PROVE Only(w) /\ \A k \in Backtests : Back(k)
  BY <1>6 DEF CompleteWithArtifact, Idle, Goto, WorkerMove, Keeps, Working
<1>7. ASSUME NEW w \in Workers, RetryOrFail(w)
      PROVE Only(w) /\ \A k \in Backtests : Back(k)
  BY <1>7 DEF RetryOrFail, Idle, Goto, WorkerMove, Keeps, Working
<1>8. UNCHANGED proc => \A w \in Workers : Keeps(w)
  BY DEF Keeps
<1>9. ASSUME NEW u \in Workers, Only(u)
      PROVE  /\ \A w \in Workers : WorkerMove(w)
             /\ \A v, w \in Workers : v # w => Keeps(v) \/ Keeps(w)
  BY <1>9 DEF WorkerMove
<1> HIDE DEF Only, Back
<1>10. CASE UNCHANGED proc /\ \A k \in Backtests : Back(k)
  BY <1>8, <1>10 DEF WorkerMove, Back
<1>11. CASE \E u \in Workers : Only(u) /\ \A k \in Backtests : Back(k)
  BY <1>9, <1>11 DEF Back
<1> QED
  BY <1>1, <1>2, <1>3, <1>4, <1>5, <1>6, <1>7, <1>10, <1>11 DEF BacktestNext, WorkerStep

\* Timely steps keep the fence.
LEMMA TimelyNext ==
    ASSUME TimelyInv, NEW shared, NEW cited, BacktestNext(shared, cited), ReadInTime
    PROVE  UnreadClaims' /\ NobodyAhead' /\ OneWorkerPerAttempt'
<1>1. BacktestTypeOK /\ BacktestTypeOK' /\ StoredIsThere
  BY BacktestNextTypes DEF TimelyInv, BInv
<1>2. \A w \in Workers : WorkerMove(w)
  BY <1>1, EveryWorkerMove
<1>3. \A v, w \in Workers : v # w => Keeps(v) \/ Keeps(w)
  BY <1>1, EveryWorkerMove
<1>4. ASSUME NEW b \in Backtests
      PROVE  /\ attempts[b] \in Nat /\ attempts'[b] \in Nat
             /\ \/ attempts'[b] = attempts[b]
                \/ status[b] = "queued" /\ attempts'[b] = attempts[b] + 1
             /\ status'[b] = "absent" => status[b] = "absent"
             /\ status'[b] = "queued" => \/ status[b] \in {"absent", "queued"}
                                         \/ lapsed[b] # {}
                                         \/ \E w \in Workers :
                                              Working(w) /\ job[w] = b /\ att[w] = attempts[b]
  <2>1. RowMove(b)
    BY <1>1, EveryRowMove
  <2>2. status[b] = "running" /\ status'[b] = "queued" =>
           \/ lapsed[b] # {}
           \/ \E w \in Workers : Working(w) /\ job[w] = b /\ att[w] = attempts[b]
    BY <1>1, EveryWorkerMove
  <2>3. attempts[b] \in Nat /\ attempts'[b] \in Nat
    BY <1>1, MaxAttemptsAssumption DEF BacktestTypeOK
  <2> QED BY <2>1, <2>2, <2>3 DEF RowMove
<1>5. \A w \in Workers : /\ pc[w] # "idle" => job[w] \in Backtests
                         /\ pc'[w] # "idle" => job'[w] \in Backtests
                         /\ att[w] \in Nat /\ att'[w] \in Nat
  BY <1>1, MaxAttemptsAssumption DEF BacktestTypeOK
<1>6. NobodyAhead'
  <2> SUFFICES ASSUME NEW w \in Workers, Working(w)' PROVE att'[w] <= attempts'[job'[w]]
    BY DEF NobodyAhead
  <2>1. \/ Working(w) /\ job'[w] = job[w] /\ att'[w] = att[w]
        \/ pc[w] = "claimed" /\ job'[w] = job[w] /\ att'[w] = attempts[job[w]]
    BY <1>2 DEF WorkerMove, Keeps, Working
  <2>2. job[w] \in Backtests
    BY <1>5, <2>1 DEF Working
  <2>3. att'[w] <= attempts[job[w]]
    BY <1>4, <2>1, <2>2 DEF TimelyInv, NobodyAhead
  <2> QED BY <1>4, <1>5, <2>1, <2>2, <2>3
<1>7. OneWorkerPerAttempt'
  <2> SUFFICES ASSUME NEW v \in Workers, NEW w \in Workers, v # w, Keeps(v),
                      Working(v)', Working(w)', job'[v] = job'[w]
               PROVE  att'[v] # att'[w]
    BY <1>3 DEF OneWorkerPerAttempt, Working
  <2>1. Working(v) /\ job'[v] = job[v] /\ att'[v] = att[v]
    BY DEF Keeps, Working
  <2>2. CASE Working(w) /\ job'[w] = job[w] /\ att'[w] = att[w]
    BY <2>1, <2>2 DEF TimelyInv, OneWorkerPerAttempt, Working
  <2>3. CASE pc[w] = "claimed" /\ job'[w] = job[w] /\ att'[w] = attempts[job[w]]
    <3>1. att[v] < attempts[job[w]]
      BY <2>1, <2>3 DEF TimelyInv, UnreadClaims
    <3>2. attempts[job[w]] \in Nat /\ att[v] \in Nat
      BY <1>4, <1>5, <2>3
    <3> QED BY <2>1, <2>3, <3>1, <3>2
  <2> QED BY <1>2, <2>2, <2>3 DEF WorkerMove, Keeps, Working
<1>8. UnreadClaims'
  <2> SUFFICES ASSUME NEW w \in Workers, pc'[w] = "claimed"
               PROVE  /\ lapsed'[job'[w]] = {} /\ status'[job'[w]] \notin {"absent", "queued"}
                      /\ \A v \in Workers \ {w} : job'[v] = job'[w] =>
                            pc'[v] # "claimed" /\ (Working(v)' => att'[v] < attempts'[job'[w]])
    BY DEF UnreadClaims
  <2> DEFINE b == job[w]
  <2>1. CASE Keeps(w)
    <3>1. pc[w] = "claimed" /\ job'[w] = b /\ b \in Backtests
      BY <1>5, <2>1 DEF Keeps
    <3>2. /\ lapsed[b] = {} /\ status[b] \notin {"absent", "queued"}
          /\ \A v \in Workers \ {w} : job[v] = b =>
                pc[v] # "claimed" /\ (Working(v) => att[v] < attempts[b])
      BY <3>1 DEF TimelyInv, UnreadClaims
    <3>3. ~\E v \in Workers : Working(v) /\ job[v] = b /\ att[v] = attempts[b]
      BY <1>4, <1>5, <3>1, <3>2 DEF Working
    <3>4. lapsed'[b] = {} /\ status'[b] \notin {"absent", "queued"} /\ attempts'[b] = attempts[b]
      BY <1>4, <3>1, <3>2, <3>3 DEF ReadInTime
    <3>5. ASSUME NEW v \in Workers \ {w}, job'[v] = b
          PROVE  pc'[v] # "claimed" /\ (Working(v)' => att'[v] < attempts'[b])
      <4>1. WorkerMove(v)
        BY <1>2
      <4>2. job[v] = b => pc[v] # "claimed" /\ (Working(v) => att[v] < attempts[b])
        BY <3>2
      <4> QED BY <3>2, <3>4, <3>5, <4>1, <4>2 DEF WorkerMove, Keeps, Working
    <3> QED BY <3>1, <3>4, <3>5
  <2>2. CASE ~Keeps(w)
    <3>1. /\ pc[w] = "picked" /\ job'[w] = b /\ b \in Backtests
          /\ status[b] = "queued" /\ status'[b] = "running"
          /\ attempts'[b] = attempts[b] + 1 /\ lapsed'[b] = {}
      BY <1>2, <1>5, <2>2 DEF WorkerMove, Keeps, Working
    <3>2. ASSUME NEW v \in Workers \ {w}, job'[v] = b
          PROVE  pc'[v] # "claimed" /\ (Working(v)' => att'[v] < attempts'[b])
      <4>1. Keeps(v)
        BY <1>3, <2>2
      <4>2. pc[v] # "claimed" /\ (Working(v) => att[v] <= attempts[b])
        BY <3>1, <3>2, <4>1 DEF Keeps, TimelyInv, UnreadClaims, NobodyAhead
      <4>3. attempts[b] \in Nat /\ att[v] \in Nat
        BY <1>4, <1>5, <3>1
      <4> QED BY <3>1, <4>1, <4>2, <4>3 DEF Keeps, Working
    <3> QED BY <3>1, <3>2
  <2> QED BY <2>1, <2>2
<1> QED BY <1>6, <1>7, <1>8

\* Among workers that read their claims before the lease ends, an attempt
\* number names one worker: all that the claim lacks of the "atomic execution
\* gate" is a second read that may come too late.
THEOREM AttemptsFenceInTime == TimelySpec => []OneWorkerPerAttempt
<1>1. BacktestInit => TimelyInv
  <2> SUFFICES ASSUME BacktestInit PROVE TimelyInv
    OBVIOUS
  <2>1. UnreadClaims /\ NobodyAhead /\ OneWorkerPerAttempt
    BY DEF BacktestInit, UnreadClaims, NobodyAhead, OneWorkerPerAttempt, Working
  <2> QED BY <2>1, BacktestInitBInv DEF TimelyInv
<1>2. TimelyInv /\ [BacktestNext({}, {}) /\ ReadInTime]_bvars => TimelyInv'
  <2>1. CASE TimelyInv /\ BacktestNext({}, {}) /\ ReadInTime
    BY <2>1, TimelyNext, BacktestNextBInv DEF TimelyInv
  <2>2. CASE TimelyInv /\ UNCHANGED bvars
    <3>1. BInv'
      BY <2>2 DEF TimelyInv, BInv, bvars, row, dels, proc, BacktestTypeOK, DeletedIsOver,
         StoredIsThere, CompletedHasResult
    <3> QED
      BY <2>2, <3>1 DEF TimelyInv, bvars, row, dels, proc, UnreadClaims, NobodyAhead,
         OneWorkerPerAttempt, Working
  <2> QED BY <2>1, <2>2
<1>3. TimelyInv => OneWorkerPerAttempt
  BY DEF TimelyInv
<1> QED BY <1>1, <1>2, <1>3, PTL DEF TimelySpec
=============================================================================
