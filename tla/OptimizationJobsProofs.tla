----------------------- MODULE OptimizationJobsProofs -----------------------
(***************************************************************************)
(* Proofs about OptimizationJobs, the parameter-search queue beside the     *)
(* backtest queue, for every number of rows, workers and attempts of both.  *)
(***************************************************************************)
EXTENDS OptimizationJobs, BacktestJobsProofs

----------------------------------------------------------------------------
(* The inductive invariant *)

\* A submission transaction holds every candidate it names until it commits or
\* rolls back, and no delete transaction holds one of them meanwhile.
SubmissionHolds ==
    \A o \in Optimizations :
        /\ ostatus[o] = "absent" => candidates[o] = sharing[o]
        /\ ostatus[o] # "absent" => sharing[o] = {} /\ o \notin checked
        /\ sharing[o] \cap deleting = {}
        /\ o \in checked => candidates[o] # {}

\* Checked candidates and cited ones are completed, and no delete transaction
\* has found a cited row without a citation.
CandidatesComplete ==
    \A o \in Optimizations :
        o \in checked \/ ostatus[o] # "absent" =>
            \A b \in candidates[o] : status[b] = "completed" /\ b \notin uncited

\* A running comparison has started an attempt.
ComparisonStarted == \A o \in Optimizations : ostatus[o] = "running" => oattempts[o] > 0

IInv ==
    /\ TypeOK
    /\ BInv
    /\ SubmissionHolds
    /\ CandidatesComplete
    /\ ComparisonStarted
    /\ ComparisonIffCompleted

----------------------------------------------------------------------------
(* Claims *)

\* What claim_next does once the rows it gives up and the row it starts are
\* chosen.
OptClaimed(w, E, C) ==
    /\ ostatus' = [o \in Optimizations |->
           IF o \in C THEN "running" ELSE IF o \in E THEN "failed" ELSE ostatus[o]]
    /\ oattempts' = [o \in Optimizations |->
           IF o \in C THEN oattempts[o] + 1 ELSE oattempts[o]]
    /\ olapsed' = [o \in Optimizations |-> IF o \in E \cup C THEN {} ELSE olapsed[o]]
    /\ \/ C = {} /\ UNCHANGED oproc
       \/ \E o \in C :
            /\ opc' = [opc EXCEPT ![w] = "claimed"]
            /\ ojob' = [ojob EXCEPT ![w] = o]
            /\ oatt' = [oatt EXCEPT ![w] = oattempts[o] + 1]
            /\ UNCHANGED oretryable
    /\ UNCHANGED <<bvars, candidates, open, comparison, superseded>>

\* A claim gives up rows whose attempts are used up and starts one that has an
\* attempt left; no row is both.
LEMMA OptClaimedRows ==
    ASSUME TypeOK, NEW w \in Comparers, OptClaimNext(w)
    PROVE  \E E \in SUBSET Optimizations, C \in SUBSET Optimizations :
             /\ OptClaimed(w, E, C)
             /\ \A o \in E : ostatus[o] = "running" /\ oattempts[o] >= OptMaxAttempts
             /\ \A o \in C : /\ ostatus[o] \in {"queued", "running"}
                             /\ oattempts[o] < OptMaxAttempts
<1>1. PICK E \in OneOf(OptExhausted(w)), C \in OneOf(OptClaimable(w)) : OptClaimed(w, E, C)
  BY DEF OptClaimNext, OptClaimed
<1>2. \A S : \A T \in OneOf(S) : T \subseteq S
  BY DEF OneOf
<1>3. E \subseteq OptExhausted(w) /\ C \subseteq OptClaimable(w)
  BY <1>2
<1> QED BY <1>1, <1>3 DEF OptExhausted, OptClaimable, OptStale

----------------------------------------------------------------------------
(* Types *)

\* The initial tables and workers have their types.
LEMMA InitTypes == Init => TypeOK
  BY BacktestInitTypes, OptMaxAttemptsAssumption DEF Init, TypeOK, Status, OptPC

\* What the backtest queue keeps, it keeps while only the other queue moves.
LEMMA BacktestFrame == BInv /\ UNCHANGED bvars => BInv'
  BY DEF BInv, bvars, BacktestTypeOK, DeletedIsOver, StoredIsThere, CompletedHasResult

\* A worker that ends its round or catches an error keeps its types.
LEMMA OptMoveTypes ==
    ASSUME TypeOK, NEW w \in Comparers,
           \/ OptIdle(w)
           \/ opc[w] # "idle" /\ \E r \in BOOLEAN : OptCatch(w, r)
    PROVE  /\ opc' \in [Comparers -> OptPC]
           /\ ojob' \in [Comparers -> Optimizations \cup {NoJob}]
           /\ oatt' \in [Comparers -> 0..OptMaxAttempts]
           /\ oretryable' \in [Comparers -> BOOLEAN]
           /\ \A v \in Comparers : opc'[v] # "idle" => ojob'[v] \in Optimizations
<1> USE OptMaxAttemptsAssumption DEF TypeOK, OptPC
<1>1. CASE OptIdle(w)
  BY <1>1 DEF OptIdle
<1>2. ASSUME NEW r \in BOOLEAN, opc[w] # "idle", OptCatch(w, r)
      PROVE  /\ opc' \in [Comparers -> OptPC]
             /\ ojob' \in [Comparers -> Optimizations \cup {NoJob}]
             /\ oatt' \in [Comparers -> 0..OptMaxAttempts]
             /\ oretryable' \in [Comparers -> BOOLEAN]
             /\ \A v \in Comparers : opc'[v] # "idle" => ojob'[v] \in Optimizations
  BY <1>2 DEF OptCatch
<1> QED BY <1>1, <1>2

\* Every step of the comparing queue keeps its types.
LEMMA OptNextTypes == TypeOK /\ BInv /\ OptNext => TypeOK'
<1> SUFFICES ASSUME TypeOK, BInv, OptNext PROVE TypeOK'
  OBVIOUS
<1> USE OptMaxAttemptsAssumption DEF TypeOK, orow, oproc, open
<1>1. BacktestTypeOK'
  <2>1. UNCHANGED bvars
    BY DEF OptNext, OpenSubmission, CheckCandidates, CommitSubmission, CancelOptimization,
       SupersedeStrategy, OptClaimNext, RankCandidates, ComparisonFails, CommitComparison,
       OptFail, CrashComparer, LapseOptimization
  <2> QED BY <2>1, BacktestFrame DEF BInv
<1>2. ASSUME NEW o \in Optimizations,
             \/ OpenSubmission(o) \/ CheckCandidates(o) \/ CommitSubmission(o)
             \/ CancelOptimization(o)
      PROVE TypeOK'
  BY <1>1, <1>2 DEF OpenSubmission, LockCandidates, CheckCandidates, CommitSubmission,
     CancelOptimization, Status, Terminal
<1>3. ASSUME NEW b \in Backtests, SupersedeStrategy(b) PROVE TypeOK'
  BY <1>1, <1>3 DEF SupersedeStrategy
<1>4. ASSUME NEW w \in Comparers, OptClaimNext(w) PROVE TypeOK'
  <2>1. PICK E \in SUBSET Optimizations, C \in SUBSET Optimizations :
          OptClaimed(w, E, C) /\ \A o \in C : oattempts[o] < OptMaxAttempts
    BY <1>4, OptClaimedRows
  <2>2. /\ ostatus' \in [Optimizations -> Status \ {"deleted"}]
        /\ oattempts' \in [Optimizations -> 0..OptMaxAttempts]
        /\ olapsed' \in [Optimizations -> SUBSET OptClocks]
    BY <2>1 DEF OptClaimed, Status, Terminal
  <2>3. CASE UNCHANGED oproc
    BY <1>1, <2>1, <2>2, <2>3 DEF OptClaimed
  <2>4. ASSUME NEW o \in C,
               opc' = [opc EXCEPT ![w] = "claimed"],
               ojob' = [ojob EXCEPT ![w] = o],
               oatt' = [oatt EXCEPT ![w] = oattempts[o] + 1],
               UNCHANGED oretryable
        PROVE  TypeOK'
    <3>1. oattempts[o] + 1 \in 0..OptMaxAttempts
      BY <2>1
    <3> QED BY <1>1, <2>1, <2>2, <2>4, <3>1 DEF OptClaimed, OptPC
  <2> QED BY <2>1, <2>3, <2>4 DEF OptClaimed
<1>5. ASSUME NEW w \in Comparers, RankCandidates(w) PROVE TypeOK'
  <2>1. CASE FactsValid(candidates[ojob[w]])
    BY <1>1, <1>5, <2>1 DEF RankCandidates, OptPC
  <2>2. CASE ~FactsValid(candidates[ojob[w]])
    BY <1>1, <1>5, <2>2, OptMoveTypes DEF RankCandidates
  <2> QED BY <2>1, <2>2
<1>6. ASSUME NEW w \in Comparers, ComparisonFails(w) \/ CrashComparer(w) PROVE TypeOK'
  BY <1>1, <1>6, OptMoveTypes DEF ComparisonFails, CrashComparer
<1>7. ASSUME NEW w \in Comparers, CommitComparison(w) PROVE TypeOK'
  <2>1. /\ opc[w] = "ranking" /\ ojob[w] \in Optimizations
        /\ OptIdle(w) \/ OptCatch(w, TRUE)
    BY <1>7 DEF CommitComparison
  <2>2. /\ ostatus' \in [Optimizations -> Status \ {"deleted"}]
        /\ olapsed' \in [Optimizations -> SUBSET OptClocks]
        /\ comparison' \subseteq Optimizations
        /\ UNCHANGED <<oattempts, candidates, open, superseded>>
    BY <1>7, <2>1 DEF CommitComparison, Status, Terminal
  <2> QED BY <1>1, <2>1, <2>2, OptMoveTypes
<1>8. ASSUME NEW w \in Comparers, OptFail(w) PROVE TypeOK'
  <2>1. /\ OptIdle(w) /\ UNCHANGED <<oattempts, candidates, open, comparison, superseded>>
        /\ ostatus' \in [Optimizations -> Status \ {"deleted"}]
        /\ olapsed' \in [Optimizations -> SUBSET OptClocks]
    BY <1>8 DEF OptFail, Status, Terminal
  <2> QED BY <1>1, <2>1, OptMoveTypes
<1>9. ASSUME NEW c \in OptClocks, NEW o \in Optimizations, LapseOptimization(c, o)
      PROVE TypeOK'
  BY <1>1, <1>9 DEF LapseOptimization
<1> QED BY <1>2, <1>3, <1>4, <1>5, <1>6, <1>7, <1>8, <1>9 DEF OptNext

----------------------------------------------------------------------------
(* Rows *)

\* What a step may do to one optimization row and its comparison Artifact.
OptRowMove(o) ==
    /\ \/ ostatus'[o] = ostatus[o] /\ oattempts'[o] = oattempts[o]
       \/ /\ ostatus[o] = "absent" /\ o \in checked /\ o \notin checked'
          /\ ostatus'[o] = "queued" /\ oattempts'[o] = oattempts[o]
       \/ /\ ostatus[o] \in {"queued", "running"} /\ ostatus'[o] = "cancelled"
          /\ oattempts'[o] = oattempts[o]
       \/ /\ ostatus[o] \in {"queued", "running"} /\ oattempts[o] < OptMaxAttempts
          /\ ostatus'[o] = "running" /\ oattempts'[o] = oattempts[o] + 1
       \/ /\ ostatus[o] = "running" /\ oattempts[o] < OptMaxAttempts
          /\ ostatus'[o] = "queued" /\ oattempts'[o] = oattempts[o]
       \/ /\ ostatus[o] = "running" /\ ostatus'[o] \in {"failed", "completed"}
          /\ oattempts'[o] = oattempts[o]
    /\ \/ /\ o \in comparison' <=> o \in comparison
          /\ ostatus'[o] = "completed" => ostatus[o] = "completed"
       \/ o \in comparison' /\ ostatus'[o] = "completed"

\* Every step of the comparing queue moves every row as OptRowMove says.
LEMMA EveryOptRowMove ==
    ASSUME TypeOK, SubmissionHolds, OptNext
    PROVE  \A o \in Optimizations : OptRowMove(o)
<1> USE DEF TypeOK, orow, oproc, open
<1>1. ASSUME NEW o \in Optimizations,
             OpenSubmission(o) \/ CheckCandidates(o) \/ CancelOptimization(o)
      PROVE \A k \in Optimizations : OptRowMove(k)
  BY <1>1 DEF OpenSubmission, CheckCandidates, CancelOptimization, OptRowMove
<1>2. ASSUME NEW o \in Optimizations, CommitSubmission(o)
      PROVE \A k \in Optimizations : OptRowMove(k)
  <2>1. ostatus[o] = "absent"
    BY <1>2 DEF CommitSubmission, SubmissionHolds
  <2> QED BY <1>2, <2>1 DEF CommitSubmission, OptRowMove
<1>3. ASSUME NEW b \in Backtests, SupersedeStrategy(b)
      PROVE \A k \in Optimizations : OptRowMove(k)
  BY <1>3 DEF SupersedeStrategy, OptRowMove
<1>4. ASSUME NEW w \in Comparers, OptClaimNext(w)
      PROVE \A k \in Optimizations : OptRowMove(k)
  <2>1. PICK E \in SUBSET Optimizations, C \in SUBSET Optimizations :
             /\ OptClaimed(w, E, C)
             /\ \A o \in E : ostatus[o] = "running" /\ oattempts[o] >= OptMaxAttempts
             /\ \A o \in C : /\ ostatus[o] \in {"queued", "running"}
                             /\ oattempts[o] < OptMaxAttempts
    BY <1>4, OptClaimedRows
  <2> QED BY <2>1 DEF OptClaimed, OptRowMove
<1>5. ASSUME NEW w \in Comparers, RankCandidates(w) \/ ComparisonFails(w) \/ CrashComparer(w)
      PROVE \A k \in Optimizations : OptRowMove(k)
  BY <1>5 DEF RankCandidates, ComparisonFails, CrashComparer, OptRowMove
<1>6. ASSUME NEW w \in Comparers, CommitComparison(w)
      PROVE \A k \in Optimizations : OptRowMove(k)
  <2>1. CASE OptLiveClaim(ojob[w], oatt[w]) /\ FactsValid(candidates[ojob[w]])
    BY <1>6, <2>1 DEF CommitComparison, OptLiveClaim, OptRowMove
  <2>2. CASE ~(OptLiveClaim(ojob[w], oatt[w]) /\ FactsValid(candidates[ojob[w]]))
    BY <1>6, <2>2 DEF CommitComparison, OptRowMove
  <2> QED BY <2>1, <2>2
<1>7. ASSUME NEW w \in Comparers, OptFail(w)
      PROVE \A k \in Optimizations : OptRowMove(k)
  <2>1. CASE OptLiveClaim(ojob[w], oatt[w])
    BY <1>7, <2>1 DEF OptFail, OptLiveClaim, OptRowMove
  <2>2. CASE ~OptLiveClaim(ojob[w], oatt[w])
    BY <1>7, <2>2 DEF OptFail, OptRowMove
  <2> QED BY <2>1, <2>2
<1>8. ASSUME NEW c \in OptClocks, NEW o \in Optimizations, LapseOptimization(c, o)
      PROVE \A k \in Optimizations : OptRowMove(k)
  BY <1>8 DEF LapseOptimization, OptRowMove
<1> QED BY <1>1, <1>2, <1>3, <1>4, <1>5, <1>6, <1>7, <1>8 DEF OptNext

----------------------------------------------------------------------------
(* The two queues together *)

\* A delete transaction takes no row that a submission shares, and finds no row
\* uncited that a committed optimization cites.
LEMMA DeleteLocks ==
    ASSUME BacktestTypeOK, NEW shared, NEW cited, BacktestNext(shared, cited)
    PROVE  /\ \A b \in deleting' \ deleting : b \notin shared
           /\ \A b \in uncited' \ uncited : b \notin cited
<1> DEFINE Locks == /\ \A b \in deleting' \ deleting : b \notin shared
                    /\ \A b \in uncited' \ uncited : b \notin cited
<1> USE DEF BacktestTypeOK, dels
<1>1. ASSUME NEW b \in Backtests,
             \/ CreateBacktest(b) \/ CancelBacktest(b) \/ OpenDelete(b, shared)
             \/ FindCitation(b, cited) \/ CollectObject(b) \/ CommitDelete(b)
      PROVE Locks
  BY <1>1 DEF CreateBacktest, CancelBacktest, OpenDelete, FindCitation, CollectObject,
     CommitDelete
<1>2. ASSUME NEW w \in Workers, WorkerStep(w) PROVE Locks
  BY <1>2 DEF WorkerStep, RequeueStale, NextQueued, ClaimBacktest, ReadAttempt, StoreResult,
     ExecutionFails, CompleteWithArtifact, RetryOrFail, CrashWorker
<1>3. ASSUME NEW c \in Clocks, NEW b \in Backtests, LapseBacktest(c, b) PROVE Locks
  BY <1>3 DEF LapseBacktest
<1> QED BY <1>1, <1>2, <1>3 DEF BacktestNext

\* A step of the backtest queue keeps what the comparing queue relies on.
LEMMA BacktestStepKeeps ==
    ASSUME IInv, BacktestNext(SharedRows, CitedRows), UNCHANGED ovars
    PROVE  IInv'
<1> USE DEF IInv
<1>1. BInv'
  BY BacktestNextBInv
<1>2. UNCHANGED <<ostatus, oattempts, olapsed, candidates, sharing, checked, comparison,
                  superseded, opc, ojob, oatt, oretryable>>
  BY DEF ovars
<1>3. TypeOK'
  BY <1>1, <1>2 DEF TypeOK, BInv
<1>4. \A o \in Optimizations : sharing[o] \cap deleting' = {}
  BY DeleteLocks DEF SharedRows, SubmissionHolds, BInv
<1>5. SubmissionHolds'
  BY <1>2, <1>4 DEF SubmissionHolds
<1>6. CandidatesComplete'
  <2> SUFFICES ASSUME NEW o \in Optimizations, o \in checked \/ ostatus[o] # "absent",
                      NEW b \in candidates[o]
               PROVE  status'[b] = "completed" /\ b \notin uncited'
    BY <1>2 DEF CandidatesComplete
  <2>1. b \in Backtests /\ status[b] = "completed" /\ b \notin uncited
    BY DEF CandidatesComplete, TypeOK
  <2>2. RowMove(b)
    BY <2>1, EveryRowMove DEF BInv
  <2>3. status'[b] = "completed"
    BY <2>1, <2>2 DEF RowMove
  <2>4. CASE ostatus[o] # "absent"
    <3>1. b \in CitedRows
      BY <2>4 DEF CitedRows
    <3> QED BY <2>1, <2>3, <3>1, DeleteLocks DEF BInv
  <2>5. CASE ostatus[o] = "absent"
    <3>1. b \in sharing[o]
      BY <2>5 DEF SubmissionHolds
    <3> QED BY <1>1, <1>4, <2>3, <3>1 DEF BInv, BacktestTypeOK
  <2> QED BY <2>4, <2>5
<1>7. ComparisonStarted' /\ ComparisonIffCompleted'
  BY <1>2 DEF ComparisonStarted, ComparisonIffCompleted
<1> QED BY <1>1, <1>3, <1>5, <1>6, <1>7

\* Only a submission names candidates, takes and drops their locks; every other
\* step of the comparing queue leaves them and the backtest queue alone.
LEMMA OptNextHolds ==
    ASSUME IInv, OptNext
    PROVE  SubmissionHolds' /\ CandidatesComplete'
<1> USE DEF IInv, TypeOK
<1>1. ASSUME NEW o \in Optimizations, OpenSubmission(o)
      PROVE SubmissionHolds' /\ CandidatesComplete'
  <2>1. PICK C \in SUBSET Backtests :
          /\ LockCandidates(o, C)
          /\ candidates' = [candidates EXCEPT ![o] = C]
    BY <1>1 DEF OpenSubmission
  <2>2. /\ ostatus[o] = "absent" /\ candidates[o] = {} /\ C \cap deleting = {}
        /\ sharing' = [sharing EXCEPT ![o] = C]
        /\ UNCHANGED <<status, deleting, uncited, ostatus, checked>>
    BY <1>1, <2>1 DEF OpenSubmission, LockCandidates, bvars
  <2>3. \A b \in C : b \notin uncited
    BY <2>2 DEF BInv, BacktestTypeOK
  <2>4. o \notin checked
    BY <2>2 DEF SubmissionHolds
  <2>5. SubmissionHolds'
    BY <2>1, <2>2, <2>4 DEF SubmissionHolds
  <2> QED BY <2>1, <2>2, <2>4, <2>5 DEF CandidatesComplete
<1>2. ASSUME NEW o \in Optimizations, CheckCandidates(o)
      PROVE SubmissionHolds' /\ CandidatesComplete'
  <2>1. /\ ostatus[o] = "absent" /\ candidates[o] # {} /\ o \notin checked
        /\ UNCHANGED <<status, deleting, uncited, ostatus>>
    BY <1>2 DEF CheckCandidates, bvars
  <2>2. CASE FactsValid(candidates[o])
    <3>1. checked' = checked \cup {o} /\ UNCHANGED <<candidates, sharing>>
      BY <1>2, <2>2 DEF CheckCandidates
    <3>2. \A b \in candidates[o] : status[b] = "completed" /\ b \notin uncited
      BY <2>1, <2>2 DEF FactsValid, SubmissionHolds, BInv, BacktestTypeOK
    <3>3. SubmissionHolds'
      BY <2>1, <3>1 DEF SubmissionHolds
    <3>4. CandidatesComplete'
      BY <2>1, <3>1, <3>2 DEF CandidatesComplete
    <3> QED BY <3>3, <3>4
  <2>3. CASE ~FactsValid(candidates[o])
    <3>1. /\ candidates' = [candidates EXCEPT ![o] = {}]
          /\ sharing' = [sharing EXCEPT ![o] = {}]
          /\ UNCHANGED checked
      BY <1>2, <2>3 DEF CheckCandidates
    <3> QED BY <2>1, <3>1 DEF SubmissionHolds, CandidatesComplete
  <2> QED BY <2>2, <2>3
<1>3. ASSUME NEW o \in Optimizations, CommitSubmission(o)
      PROVE SubmissionHolds' /\ CandidatesComplete'
  BY <1>3 DEF CommitSubmission, bvars, SubmissionHolds, CandidatesComplete
<1>4. CASE \A o \in Optimizations :
              ~(OpenSubmission(o) \/ CheckCandidates(o) \/ CommitSubmission(o))
  <2>1. UNCHANGED <<status, deleting, uncited, candidates, sharing, checked>>
    BY <1>4 DEF OptNext, CancelOptimization, SupersedeStrategy, OptClaimNext, RankCandidates,
       ComparisonFails, CommitComparison, OptFail, CrashComparer, LapseOptimization, bvars,
       orow, open
  <2>2. \A o \in Optimizations : ostatus'[o] = "absent" <=> ostatus[o] = "absent"
    BY <2>1, EveryOptRowMove DEF OptRowMove
  <2> QED BY <2>1, <2>2 DEF SubmissionHolds, CandidatesComplete
<1> QED BY <1>1, <1>2, <1>3, <1>4

\* Every step of the two queues keeps the invariant.
LEMMA NextIInv == IInv /\ Next => IInv'
<1> SUFFICES ASSUME IInv, Next PROVE IInv'
  OBVIOUS
<1>1. CASE BacktestNext(SharedRows, CitedRows) /\ UNCHANGED ovars
  BY <1>1, BacktestStepKeeps
<1>2. CASE OptNext
  <2>1. UNCHANGED bvars
    BY <1>2 DEF OptNext, OpenSubmission, CheckCandidates, CommitSubmission,
       CancelOptimization, SupersedeStrategy, OptClaimNext, RankCandidates, ComparisonFails,
       CommitComparison, OptFail, CrashComparer, LapseOptimization
  <2>2. TypeOK' /\ BInv' /\ SubmissionHolds' /\ CandidatesComplete'
    BY <1>2, <2>1, OptNextTypes, OptNextHolds, BacktestFrame DEF IInv
  <2>3. \A o \in Optimizations : OptRowMove(o) /\ oattempts[o] \in Nat
    BY <1>2, EveryOptRowMove DEF IInv, TypeOK
  <2>4. ComparisonStarted'
    BY <2>3 DEF IInv, ComparisonStarted, OptRowMove
  <2>5. ComparisonIffCompleted'
    BY <2>3 DEF IInv, ComparisonIffCompleted, OptRowMove
  <2> QED BY <2>2, <2>4, <2>5 DEF IInv
<1> QED BY <1>1, <1>2 DEF Next

\* The invariant holds of every reachable state.
LEMMA Invariance == Spec => []IInv
<1>1. Init => IInv
  <2> SUFFICES ASSUME Init PROVE IInv
    OBVIOUS
  <2>1. TypeOK /\ BInv
    BY InitTypes, BacktestInitBInv DEF Init
  <2>2. SubmissionHolds /\ CandidatesComplete /\ ComparisonStarted /\ ComparisonIffCompleted
    BY DEF Init, BacktestInit, SubmissionHolds, CandidatesComplete, ComparisonStarted,
       ComparisonIffCompleted
  <2> QED BY <2>1, <2>2 DEF IInv
<1>2. IInv /\ UNCHANGED vars => IInv'
  <2> SUFFICES ASSUME IInv, UNCHANGED vars PROVE IInv'
    OBVIOUS
  <2>1. UNCHANGED bvars /\ UNCHANGED ovars
    BY DEF vars
  <2>2. BInv' /\ BacktestTypeOK'
    BY <2>1, BacktestFrame DEF IInv, BInv
  <2> QED
    BY <2>1, <2>2 DEF IInv, bvars, ovars, TypeOK, SubmissionHolds, CandidatesComplete,
       ComparisonStarted, ComparisonIffCompleted
<1>3. IInv /\ [Next]_vars => IInv'
  BY <1>2, NextIInv
<1> QED BY <1>1, <1>3, PTL DEF Spec

----------------------------------------------------------------------------
(* The theorems *)

\* The tables and the workers of both queues keep their types.
THEOREM TypeCorrect == Spec => []TypeOK
<1>1. IInv => TypeOK
  BY DEF IInv
<1> QED BY <1>1, Invariance, PTL

\* Whatever submissions, deletions and object collections interleave, every
\* backtest that an optimization row cites is there, completed, with its
\* Artifact and its result object.
THEOREM CitationsHold == Spec => []CitedSourcesKept
<1>1. IInv => CitedSourcesKept
  BY DEF IInv, BInv, TypeOK, CandidatesComplete, CompletedHasResult, CitedSourcesKept
<1> QED BY <1>1, Invariance, PTL

\* A comparison Artifact belongs to a completed row and every completed row has
\* one: no cancelled, expired or superseded attempt leaves one behind.
THEOREM ComparisonsAreOfCompletedRows == Spec => []ComparisonIffCompleted
<1>1. IInv => ComparisonIffCompleted
  BY DEF IInv
<1> QED BY <1>1, Invariance, PTL

\* Every step of the comparing queue moves every row along one transition of
\* the business-Job lifecycle.
LEMMA OptimizationLifeNext ==
    ASSUME IInv, OptNext
    PROVE  OptimizationLife!Next
<1> DEFINE done(o) == o \in comparison
<1> SUFFICES ASSUME NEW o \in Optimizations PROVE OptimizationLife!JobStep(o)
  BY DEF OptimizationLife!Next
<1> USE OptMaxAttemptsAssumption DEF OptimizationLife!Becomes
<1>1. /\ OptRowMove(o) /\ oattempts[o] \in Nat
      /\ ostatus[o] = "running" => oattempts[o] > 0
  BY EveryOptRowMove DEF IInv, TypeOK, ComparisonStarted
<1>2. done(o) <=> ostatus[o] = "completed"
  BY DEF IInv, ComparisonIffCompleted
<1>3. done(o)' <=> ostatus'[o] = "completed"
  BY NextIInv DEF Next, IInv, ComparisonIffCompleted
<1>4. CASE ostatus'[o] = ostatus[o] /\ oattempts'[o] = oattempts[o]
  <2>1. done(o)' = done(o)
    BY <1>2, <1>3, <1>4
  <2>2. OptimizationLife!Stay(o)
    BY <1>4, <2>1 DEF OptimizationLife!Stay
  <2> QED BY <2>2 DEF OptimizationLife!JobStep
<1>5. CASE ostatus'[o] = "completed" /\ ostatus[o] # "completed"
  <2>1. done(o)' = TRUE
    BY <1>3, <1>5
  <2>2. OptimizationLife!Succeed(o)
    BY <1>1, <1>5, <2>1 DEF OptRowMove, OptimizationLife!Succeed
  <2> QED BY <2>2 DEF OptimizationLife!JobStep
<1>6. CASE /\ ostatus'[o] # "completed"
           /\ ~(ostatus'[o] = ostatus[o] /\ oattempts'[o] = oattempts[o])
  <2>1. done(o)' = FALSE
    BY <1>3, <1>6
  <2>2. CASE ostatus'[o] = "queued"
    <3>1. OptimizationLife!Submit(o) \/ OptimizationLife!Retry(o)
      BY <1>1, <1>6, <2>1, <2>2 DEF OptRowMove, OptimizationLife!Submit, OptimizationLife!Retry
    <3> QED BY <3>1 DEF OptimizationLife!JobStep
  <2>3. CASE ostatus'[o] = "running"
    <3>1. OptimizationLife!Start(o)
      BY <1>1, <1>6, <2>1, <2>3
      DEF OptRowMove, OptimizationLife!Start, OptimizationLife!Active
    <3> QED BY <3>1 DEF OptimizationLife!JobStep
  <2>4. CASE ostatus'[o] = "failed"
    <3>1. OptimizationLife!GiveUp(o)
      BY <1>1, <1>6, <2>1, <2>4
      DEF OptRowMove, OptimizationLife!GiveUp, OptimizationLife!Active
    <3> QED BY <3>1 DEF OptimizationLife!JobStep
  <2>5. CASE ostatus'[o] = "cancelled"
    <3>1. OptimizationLife!Withdraw(o)
      BY <1>1, <1>6, <2>1, <2>5
      DEF OptRowMove, OptimizationLife!Withdraw, OptimizationLife!Active
    <3> QED BY <3>1 DEF OptimizationLife!JobStep
  <2> QED BY <1>1, <1>6, <2>2, <2>3, <2>4, <2>5 DEF OptRowMove
<1> QED BY <1>1, <1>4, <1>5, <1>6 DEF OptRowMove

\* Both queues, side by side, implement the business-Job lifecycle.
THEOREM ImplementsLifecycle == Spec => LifecycleSpec
<1>1. Init => BacktestLife!Init /\ OptimizationLife!Init
  <2> SUFFICES ASSUME Init PROVE BacktestLife!Init /\ OptimizationLife!Init
    OBVIOUS
  <2>1. BacktestLife!Init
    BY BacktestLifeInit DEF Init
  <2>2. \A o \in Optimizations : (o \in comparison) = FALSE
    BY DEF Init
  <2>3. /\ ostatus \in [Optimizations -> {"absent", "running"}]
        /\ oattempts \in [Optimizations -> 0..OptMaxAttempts]
        /\ \A o \in Optimizations : ostatus[o] = "absent" <=> oattempts[o] = 0
    BY OptMaxAttemptsAssumption DEF Init
  <2> QED BY <2>1, <2>2, <2>3 DEF OptimizationLife!Init
<1>2. IInv /\ [Next]_vars => [BacktestLife!Next]_(BacktestLife!vars)
  <2> SUFFICES ASSUME IInv, [Next]_vars PROVE [BacktestLife!Next]_(BacktestLife!vars)
    OBVIOUS
  <2>1. CASE BacktestNext(SharedRows, CitedRows)
    BY <2>1, BacktestLifeNext DEF IInv
  <2>2. CASE UNCHANGED bvars
    BY <2>2 DEF bvars, BacktestLife!vars
  <2>3. OptNext => UNCHANGED bvars
    BY DEF OptNext, OpenSubmission, CheckCandidates, CommitSubmission,
       CancelOptimization, SupersedeStrategy, OptClaimNext, RankCandidates, ComparisonFails,
       CommitComparison, OptFail, CrashComparer, LapseOptimization
  <2> QED BY <2>1, <2>2, <2>3 DEF Next, vars
<1>3. IInv /\ [Next]_vars => [OptimizationLife!Next]_(OptimizationLife!vars)
  <2> SUFFICES ASSUME IInv, [Next]_vars PROVE [OptimizationLife!Next]_(OptimizationLife!vars)
    OBVIOUS
  <2>1. CASE OptNext
    BY <2>1, OptimizationLifeNext
  <2>2. CASE UNCHANGED ovars
    BY <2>2 DEF ovars, OptimizationLife!vars
  <2> QED BY <2>1, <2>2 DEF Next, vars
<1> QED
  BY <1>1, <1>2, <1>3, Invariance, PTL
  DEF Spec, LifecycleSpec, BacktestLifecycle, BacktestLife!Spec, OptimizationLife!Spec
=============================================================================
