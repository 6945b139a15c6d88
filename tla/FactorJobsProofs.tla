-------------------------- MODULE FactorJobsProofs --------------------------
(***************************************************************************)
(* Proofs about FactorJobs for every set of Jobs and workers, every        *)
(* attempt budget and every set of inherited rows.                         *)
(***************************************************************************)
EXTENDS FactorJobs, TLAPS

\* The initial rows, workers and Artifacts have their types.
LEMMA InitTypeOK == Init => TypeOK
  BY MaxAttemptsAssumption DEF Init, TypeOK, Status, Terminal, ArtifactState, PC

\* Every transaction of the store and every worker step keeps the types: in
\* particular claim_next never counts past MAX_ATTEMPTS.
LEMMA NextTypeOK == TypeOK /\ [Next]_vars => TypeOK'
<1> SUFFICES ASSUME TypeOK, [Next]_vars PROVE TypeOK'
  OBVIOUS
<1> USE MaxAttemptsAssumption DEF TypeOK, Status, Terminal, ArtifactState, PC
<1>1. ASSUME NEW j \in Jobs, Create(j) PROVE TypeOK'
  <2>1. PICK t \in 1..Cardinality(Jobs) : created' = [created EXCEPT ![j] = t]
    BY <1>1 DEF Create
  <2>2. t \in Nat
    OBVIOUS
  <2> QED BY <1>1, <2>1, <2>2 DEF Create, proc
<1>2. ASSUME NEW j \in Jobs, ReserveKey(j) PROVE TypeOK'
  BY <1>2 DEF ReserveKey, row, proc
<1>3. ASSUME NEW j \in Jobs, TakeResultKey(j) PROVE TypeOK'
  BY <1>3 DEF TakeResultKey, row, proc
<1>4. ASSUME NEW j \in Jobs, Cancel(j) PROVE TypeOK'
  BY <1>4 DEF Cancel, proc
<1>5. ASSUME NEW w \in Workers, ClaimNext(w) PROVE TypeOK'
  <2>1. PICK E \in OneOf(Exhausted(w)), C \in OneOf(Oldest(Claimable(w))) :
          Claim(w, E, C)
    BY <1>5 DEF ClaimNext
  <2>2. E \subseteq Jobs /\ C \subseteq Jobs /\ \A j \in C : attempts[j] < MaxAttempts
    BY DEF OneOf, Exhausted, Oldest, Claimable
  <2>3. status' \in [Jobs -> Status] /\ lapsed' \in [Jobs -> SUBSET Clocks]
        /\ result' \in [Jobs -> BOOLEAN]
    BY <2>1 DEF Claim, NextAttempt
  <2>4. attempts' \in [Jobs -> 0..MaxAttempts]
    BY <2>1, <2>2 DEF Claim, NextAttempt
  <2>5. pending' \in [Workers -> SUBSET Jobs]
    BY <2>1, <2>2 DEF Claim, Recovered, NextAttempt
  <2>6. /\ pc' \in [Workers -> PC]
        /\ job' \in [Workers -> Jobs \cup {NoJob}]
        /\ att' \in [Workers -> 0..MaxAttempts]
        /\ \A v \in Workers : pc'[v] # "idle" => job'[v] \in Jobs
    <3>1. CASE C = {}
      BY <2>1, <3>1 DEF Claim, NextAttempt
    <3>2. CASE C # {}
      <4>1. PICK j \in C : /\ pc' = [pc EXCEPT ![w] = "claimed"]
                           /\ job' = [job EXCEPT ![w] = j]
                           /\ att' = [att EXCEPT ![w] = NextAttempt(j)]
        BY <2>1, <3>2 DEF Claim, NextAttempt
      <4>2. attempts[j] + 1 \in 0..MaxAttempts /\ j \in Jobs
        BY <2>2
      <4> QED BY <4>1, <4>2 DEF NextAttempt
    <3> QED BY <3>1, <3>2
  <2> QED BY <1>5, <2>3, <2>4, <2>5, <2>6 DEF ClaimNext
<1>6. ASSUME NEW w \in Workers, OpenExecution(w) PROVE TypeOK'
  BY <1>6 DEF OpenExecution, RollBack, row, At
<1>7. ASSUME NEW w \in Workers, SubmitFactor(w) PROVE TypeOK'
  BY <1>7, ZenonT(30) DEF SubmitFactor, RollBack, row, At
<1>8. ASSUME NEW w \in Workers, ExecutionFails(w) PROVE TypeOK'
  BY <1>8, SMTT(30) DEF ExecutionFails, RollBack, row
<1>9. ASSUME NEW w \in Workers, CommitExecution(w) PROVE TypeOK'
  <2>1. job[w] \in Jobs
    BY <1>9 DEF CommitExecution, At
  <2>2. CASE LiveClaim(job[w], att[w])
    <3>1. /\ artifact' \in [Jobs -> ArtifactState]
          /\ status' \in [Jobs -> Status]
          /\ lapsed' \in [Jobs -> SUBSET Clocks]
          /\ result' \in [Jobs -> BOOLEAN]
      BY <1>9, <2>1, <2>2 DEF CommitExecution
    <3>2. pending' \in [Workers -> SUBSET Jobs]
      BY <1>9, <2>1, <2>2 DEF CommitExecution
    <3>3. /\ pc' \in [Workers -> PC]
          /\ job' \in [Workers -> Jobs \cup {NoJob}]
          /\ att' \in [Workers -> 0..MaxAttempts]
          /\ \A v \in Workers : pc'[v] # "idle" => job'[v] \in Jobs
      BY <1>9, <2>1, <2>2 DEF CommitExecution
    <3> QED BY <1>9, <2>2, <3>1, <3>2, <3>3 DEF CommitExecution
  <2>3. CASE ~LiveClaim(job[w], att[w])
    BY <1>9, <2>1, <2>3 DEF CommitExecution, At, RollBack, row
  <2> QED BY <2>2, <2>3
<1>10. ASSUME NEW w \in Workers, Fail(w) PROVE TypeOK'
  BY <1>10 DEF Fail, At
<1>11. ASSUME NEW w \in Workers, EmitObservation(w) PROVE TypeOK'
  BY <1>11 DEF EmitObservation, row
<1>12. ASSUME NEW w \in Workers, Crash(w) PROVE TypeOK'
  BY <1>12 DEF Crash, row
<1>13. ASSUME NEW c \in Clocks, NEW j \in Jobs, Lapse(c, j) PROVE TypeOK'
  BY <1>13 DEF Lapse, proc
<1>14. CASE UNCHANGED vars
  BY <1>14 DEF vars
<1> QED
  BY <1>1, <1>2, <1>3, <1>4, <1>5, <1>6, <1>7, <1>8, <1>9, <1>10, <1>11,
     <1>12, <1>13, <1>14 DEF Next

\* The queue's rows, the workers' claims and the audit counters keep their
\* types in every reachable state of every instance.
THEOREM TypeCorrect == Spec => []TypeOK
  BY InitTypeOK, NextTypeOK, PTL DEF Spec

----------------------------------------------------------------------------
(***************************************************************************)
(* The safety invariants hold together or not at all: the row lock keeps   *)
(* the row of an open transaction unchanged only because attempts fence    *)
(* every other worker, publication follows completion only because the     *)
(* committing worker's row is still running, and an observation is unique  *)
(* only because a completed row never completes again.                     *)
(***************************************************************************)

\* A running row has a started attempt (claim_next increments before it runs).
RunningStarted == \A j \in Jobs : status[j] = "running" => attempts[j] > 0

IInv ==
    /\ TypeOK
    /\ RunningStarted
    /\ RowLockProtectsAttempt
    /\ AttemptFence
    /\ PublishedIffCompleted
    /\ AuditedAtMostOnce

\* The rows one claim touches: at most one each, unlocked, and never the same.
LEMMA ClaimRows ==
    ASSUME TypeOK, NEW w \in Workers,
           NEW E \in OneOf(Exhausted(w)),
           NEW C \in OneOf(Oldest(Claimable(w)))
    PROVE  /\ E \subseteq Jobs /\ C \subseteq Jobs
           /\ E \cap C = {}
           /\ \A j \in E : status[j] = "running" /\ Unlocked(j)
           /\ \A j \in C : /\ status[j] \in {"queued", "running"}
                           /\ attempts[j] < MaxAttempts /\ Unlocked(j)
           /\ \A j, k \in C : j = k
<1>1. E \subseteq Exhausted(w) /\ C \subseteq Claimable(w) /\ \A j, k \in C : j = k
  BY DEF OneOf, Oldest
<1>2. \A j \in E : attempts[j] >= MaxAttempts
  BY <1>1 DEF Exhausted
<1>3. \A j \in C : attempts[j] < MaxAttempts
  BY <1>1 DEF Claimable
<1>4. E \cap C = {}
  <2> SUFFICES ASSUME NEW j \in E, j \in C PROVE FALSE
    OBVIOUS
  <2>1. attempts[j] \in 0..MaxAttempts
    BY <1>1 DEF TypeOK, Exhausted
  <2> QED BY <1>2, <1>3, <2>1, MaxAttemptsAssumption
<1> QED BY <1>1, <1>3, <1>4 DEF Exhausted, Claimable, Stale

\* The initial state satisfies every part.
LEMMA InitIInv == Init => IInv
<1> SUFFICES ASSUME Init PROVE IInv
  OBVIOUS
<1>1. TypeOK
  BY InitTypeOK
<1>2. RunningStarted
  BY DEF Init, RunningStarted
<1>3. RowLockProtectsAttempt /\ AttemptFence
  BY DEF Init, RowLockProtectsAttempt, AttemptFence, Busy
<1>4. PublishedIffCompleted
  BY DEF Init, PublishedIffCompleted
<1>5. AuditedAtMostOnce
  BY DEF Init, AuditedAtMostOnce
<1> QED BY <1>1, <1>2, <1>3, <1>4, <1>5 DEF IInv

\* A row is never running without a started attempt.
LEMMA NextRunningStarted == IInv /\ Next => RunningStarted'
<1> SUFFICES ASSUME IInv, Next PROVE RunningStarted'
  OBVIOUS
<1> USE DEF IInv, TypeOK, RunningStarted
<1>1. ASSUME NEW j \in Jobs, Create(j) \/ ReserveKey(j) \/ TakeResultKey(j) \/ Cancel(j)
      PROVE RunningStarted'
  BY <1>1 DEF Create, ReserveKey, TakeResultKey, Cancel, row
<1>2. ASSUME NEW w \in Workers, ClaimNext(w) PROVE RunningStarted'
  <2>1. PICK E \in OneOf(Exhausted(w)), C \in OneOf(Oldest(Claimable(w))) :
          Claim(w, E, C)
    BY <1>2 DEF ClaimNext
  <2> QED BY <2>1, MaxAttemptsAssumption DEF Claim, NextAttempt
<1>3. ASSUME NEW w \in Workers,
             OpenExecution(w) \/ SubmitFactor(w) \/ ExecutionFails(w)
      PROVE RunningStarted'
  BY <1>3 DEF OpenExecution, SubmitFactor, ExecutionFails, RollBack, row
<1>4. ASSUME NEW w \in Workers, CommitExecution(w) PROVE RunningStarted'
  BY <1>4 DEF CommitExecution, RollBack, row
<1>5. ASSUME NEW w \in Workers, Fail(w) PROVE RunningStarted'
  BY <1>5 DEF Fail
<1>6. ASSUME NEW w \in Workers, EmitObservation(w) \/ Crash(w) PROVE RunningStarted'
  BY <1>6 DEF EmitObservation, Crash, row
<1>7. ASSUME NEW c \in Clocks, NEW j \in Jobs, Lapse(c, j) PROVE RunningStarted'
  BY <1>7 DEF Lapse
<1> QED BY <1>1, <1>2, <1>3, <1>4, <1>5, <1>6, <1>7 DEF Next

\* No transaction changes a row that an open execution transaction holds.
LEMMA NextRowLock == IInv /\ Next => RowLockProtectsAttempt'
<1> SUFFICES ASSUME IInv, Next PROVE RowLockProtectsAttempt'
  OBVIOUS
<1> USE DEF IInv, TypeOK, RowLockProtectsAttempt, Holds
<1>1. ASSUME NEW j \in Jobs, Create(j) \/ ReserveKey(j) \/ TakeResultKey(j)
      PROVE RowLockProtectsAttempt'
  BY <1>1 DEF Create, ReserveKey, TakeResultKey, row, proc
<1>2. ASSUME NEW j \in Jobs, Cancel(j) PROVE RowLockProtectsAttempt'
  BY <1>2 DEF Cancel, proc, Unlocked
<1>3. ASSUME NEW w \in Workers, ClaimNext(w) PROVE RowLockProtectsAttempt'
  <2>1. PICK E \in OneOf(Exhausted(w)), C \in OneOf(Oldest(Claimable(w))) :
          Claim(w, E, C)
    BY <1>3 DEF ClaimNext
  <2>2. \A j \in E \cup C : Unlocked(j)
    BY ClaimRows
  <2>3. pc[w] = "idle"
    BY <1>3 DEF ClaimNext, At
  <2>4. \A v \in Workers : pc'[v] \in {"locked", "computing"} =>
           /\ v # w /\ pc'[v] = pc[v] /\ job'[v] = job[v] /\ att'[v] = att[v]
           /\ job[v] \notin E \cup C /\ job[v] \in Jobs
    BY <2>1, <2>2, <2>3 DEF Claim, Unlocked
  <2>5. \A j \in Jobs : j \notin E \cup C =>
           status'[j] = status[j] /\ attempts'[j] = attempts[j]
    BY <2>1 DEF Claim, Recovered, NextAttempt
  <2> QED BY <2>4, <2>5
<1>4. ASSUME NEW w \in Workers, OpenExecution(w) PROVE RowLockProtectsAttempt'
  BY <1>4 DEF OpenExecution, RollBack, row, At, Unlocked, LiveClaim
<1>5. ASSUME NEW w \in Workers, SubmitFactor(w) PROVE RowLockProtectsAttempt'
  BY <1>5 DEF SubmitFactor, RollBack, row, At
<1>6. ASSUME NEW w \in Workers, ExecutionFails(w) PROVE RowLockProtectsAttempt'
  BY <1>6 DEF ExecutionFails, RollBack, row
<1>7. ASSUME NEW w \in Workers, CommitExecution(w) PROVE RowLockProtectsAttempt'
  <2>1. CASE LiveClaim(job[w], att[w])
    <3>1. \A v \in Workers : pc'[v] \in {"locked", "computing"} =>
             /\ v # w /\ pc'[v] = pc[v] /\ job'[v] = job[v] /\ att'[v] = att[v]
             /\ job[v] # job[w]
      BY <1>7, <2>1 DEF CommitExecution, At
    <3>2. \A j \in Jobs : j # job[w] =>
             status'[j] = status[j] /\ attempts'[j] = attempts[j]
      BY <1>7, <2>1 DEF CommitExecution
    <3> QED BY <3>1, <3>2
  <2>2. CASE ~LiveClaim(job[w], att[w])
    BY <1>7, <2>2 DEF CommitExecution, RollBack, row
  <2> QED BY <2>1, <2>2
<1>8. ASSUME NEW w \in Workers, Fail(w) PROVE RowLockProtectsAttempt'
  BY <1>8 DEF Fail, At, Unlocked
<1>9. ASSUME NEW w \in Workers, EmitObservation(w) \/ Crash(w)
      PROVE RowLockProtectsAttempt'
  BY <1>9 DEF EmitObservation, Crash, row
<1>10. ASSUME NEW c \in Clocks, NEW j \in Jobs, Lapse(c, j)
      PROVE RowLockProtectsAttempt'
  BY <1>10 DEF Lapse, proc
<1> QED BY <1>1, <1>2, <1>3, <1>4, <1>5, <1>6, <1>7, <1>8, <1>9, <1>10 DEF Next

\* A claim takes a number no worker has held; nothing else hands numbers out.
LEMMA NextAttemptFence == IInv /\ Next => AttemptFence'
<1> SUFFICES ASSUME IInv, Next PROVE AttemptFence'
  OBVIOUS
<1> USE DEF IInv, TypeOK, AttemptFence, Busy
<1>1. ASSUME NEW j \in Jobs, Create(j) \/ ReserveKey(j) \/ TakeResultKey(j) \/ Cancel(j)
      PROVE AttemptFence'
  BY <1>1 DEF Create, ReserveKey, TakeResultKey, Cancel, row, proc
<1>2. ASSUME NEW w \in Workers, ClaimNext(w) PROVE AttemptFence'
  <2>1. PICK E \in OneOf(Exhausted(w)), C \in OneOf(Oldest(Claimable(w))) :
          Claim(w, E, C)
    BY <1>2 DEF ClaimNext
  <2>2. pc[w] = "idle"
    BY <1>2 DEF ClaimNext, At
  <2>3. C \subseteq Jobs
    BY ClaimRows
  <2>4. \A j \in Jobs : attempts[j] \in Nat /\ attempts'[j] \in Nat
                         /\ attempts[j] <= attempts'[j]
    BY <2>1, MaxAttemptsAssumption DEF Claim, NextAttempt
  <2>5. \A v \in Workers \ {w} :
           pc'[v] = pc[v] /\ job'[v] = job[v] /\ att'[v] = att[v]
    BY <2>1 DEF Claim, NextAttempt
  <2>6. \A v \in Workers \ {w} : pc[v] # "idle" =>
           att'[v] \in 1..attempts[job'[v]] /\ att'[v] \in 1..attempts'[job'[v]]
    BY <2>4, <2>5
  <2>7. CASE C = {}
    <3>1. UNCHANGED <<pc, job, att>>
      BY <2>1, <2>7 DEF Claim, NextAttempt
    <3> QED BY <2>2, <2>5, <2>6, <3>1
  <2>8. CASE C # {}
    <3>1. PICK j \in C : /\ pc' = [pc EXCEPT ![w] = "claimed"]
                         /\ job' = [job EXCEPT ![w] = j]
                         /\ att' = [att EXCEPT ![w] = NextAttempt(j)]
      BY <2>1, <2>8 DEF Claim, NextAttempt
    <3>2. j \in Jobs /\ attempts'[j] = attempts[j] + 1
      BY <2>1, <2>3, <3>1 DEF Claim, NextAttempt
    <3>3. job'[w] = j /\ att'[w] = attempts[j] + 1
      BY <3>1 DEF NextAttempt
    <3>4. att'[w] \in 1..attempts'[job'[w]]
      BY <2>4, <3>2, <3>3
    <3>5. \A v \in Workers \ {w} : pc[v] # "idle" /\ job'[v] = j => att'[v] # att'[w]
      BY <2>4, <2>6, <3>2, <3>3
    <3> QED BY <2>5, <2>6, <3>3, <3>4, <3>5
  <2> QED BY <2>7, <2>8
<1>3. ASSUME NEW w \in Workers, OpenExecution(w) PROVE AttemptFence'
  BY <1>3 DEF OpenExecution, RollBack, row, At
<1>4. ASSUME NEW w \in Workers, SubmitFactor(w) PROVE AttemptFence'
  BY <1>4 DEF SubmitFactor, RollBack, row, At
<1>5. ASSUME NEW w \in Workers, ExecutionFails(w) PROVE AttemptFence'
  BY <1>5 DEF ExecutionFails, RollBack, row
<1>6. ASSUME NEW w \in Workers, CommitExecution(w) PROVE AttemptFence'
  <2>1. CASE LiveClaim(job[w], att[w])
    <3>1. attempts' = attempts /\ pc'[w] = "idle"
          /\ \A v \in Workers \ {w} :
               pc'[v] = pc[v] /\ job'[v] = job[v] /\ att'[v] = att[v]
      BY <1>6, <2>1 DEF CommitExecution
    <3> QED BY <3>1
  <2>2. CASE ~LiveClaim(job[w], att[w])
    BY <1>6, <2>2 DEF CommitExecution, RollBack, row, At
  <2> QED BY <2>1, <2>2
<1>7. ASSUME NEW w \in Workers, Fail(w) PROVE AttemptFence'
  BY <1>7 DEF Fail
<1>8. ASSUME NEW w \in Workers, EmitObservation(w) \/ Crash(w) PROVE AttemptFence'
  BY <1>8 DEF EmitObservation, Crash, row
<1>9. ASSUME NEW c \in Clocks, NEW j \in Jobs, Lapse(c, j) PROVE AttemptFence'
  BY <1>9 DEF Lapse, proc
<1> QED BY <1>1, <1>2, <1>3, <1>4, <1>5, <1>6, <1>7, <1>8, <1>9 DEF Next

\* A result appears with its completion and stays with it.
LEMMA NextPublished == IInv /\ Next => PublishedIffCompleted'
<1> SUFFICES ASSUME IInv, Next PROVE PublishedIffCompleted'
  OBVIOUS
<1> USE DEF IInv, TypeOK, PublishedIffCompleted
<1>1. ASSUME NEW j \in Jobs, Create(j) \/ ReserveKey(j) \/ TakeResultKey(j) \/ Cancel(j)
      PROVE PublishedIffCompleted'
  BY <1>1 DEF Create, ReserveKey, TakeResultKey, Cancel, row
<1>2. ASSUME NEW w \in Workers, ClaimNext(w) PROVE PublishedIffCompleted'
  <2>1. PICK E \in OneOf(Exhausted(w)), C \in OneOf(Oldest(Claimable(w))) :
          Claim(w, E, C)
    BY <1>2 DEF ClaimNext
  <2>2. /\ E \cap C = {}
        /\ \A j \in E : status[j] = "running"
        /\ \A j \in C : status[j] \in {"queued", "running"}
    BY ClaimRows
  <2>3. artifact' = artifact
    BY <1>2 DEF ClaimNext
  <2> QED BY <2>1, <2>2, <2>3 DEF Claim, Recovered, NextAttempt
<1>3. ASSUME NEW w \in Workers,
             OpenExecution(w) \/ SubmitFactor(w) \/ ExecutionFails(w)
      PROVE PublishedIffCompleted'
  BY <1>3 DEF OpenExecution, SubmitFactor, ExecutionFails, RollBack, row
<1>4. ASSUME NEW w \in Workers, CommitExecution(w) PROVE PublishedIffCompleted'
  BY <1>4 DEF CommitExecution, RollBack, row, At
<1>5. ASSUME NEW w \in Workers, Fail(w) PROVE PublishedIffCompleted'
  BY <1>5 DEF Fail, LiveClaim
<1>6. ASSUME NEW w \in Workers, EmitObservation(w) \/ Crash(w)
      PROVE PublishedIffCompleted'
  BY <1>6 DEF EmitObservation, Crash, row
<1>7. ASSUME NEW c \in Clocks, NEW j \in Jobs, Lapse(c, j)
      PROVE PublishedIffCompleted'
  BY <1>7 DEF Lapse
<1> QED BY <1>1, <1>2, <1>3, <1>4, <1>5, <1>6, <1>7 DEF Next

\* A completed row is announced by the one process that completed it.
LEMMA NextAudited == IInv /\ Next => AuditedAtMostOnce'
<1> SUFFICES ASSUME IInv, Next PROVE AuditedAtMostOnce'
  OBVIOUS
<1> USE DEF IInv, TypeOK, AuditedAtMostOnce
<1>1. ASSUME NEW j \in Jobs, Create(j) \/ ReserveKey(j) \/ TakeResultKey(j) \/ Cancel(j)
      PROVE AuditedAtMostOnce'
  BY <1>1 DEF Create, ReserveKey, TakeResultKey, Cancel, row, proc
<1>2. ASSUME NEW w \in Workers, ClaimNext(w) PROVE AuditedAtMostOnce'
  <2>1. PICK E \in OneOf(Exhausted(w)), C \in OneOf(Oldest(Claimable(w))) :
          Claim(w, E, C)
    BY <1>2 DEF ClaimNext
  <2>2. /\ E \cap C = {}
        /\ \A j \in E : status[j] = "running"
        /\ \A j \in C : status[j] \in {"queued", "running"}
    BY ClaimRows
  <2>3. audited' = audited /\ pending[w] = {}
    BY <1>2 DEF ClaimNext, At
  <2>4. \A j \in Jobs : audited[j] \in Nat
    OBVIOUS
  <2>5. /\ \A v \in Workers \ {w} : pending'[v] = pending[v]
        /\ pending'[w] = Recovered(E)
    BY <2>1 DEF Claim, NextAttempt
  <2>6. \A j \in Recovered(E) : /\ status[j] = "running" /\ status'[j] = "completed"
                                 /\ j \in Jobs /\ audited[j] = 0
                                 /\ \A v \in Workers : j \notin pending[v]
    <3> SUFFICES ASSUME NEW j \in Recovered(E)
                 PROVE  /\ status[j] = "running" /\ status'[j] = "completed"
                        /\ j \in Jobs /\ audited[j] = 0
                        /\ \A v \in Workers : j \notin pending[v]
      OBVIOUS
    <3>1. j \in E /\ j \in Jobs /\ j \notin C
      BY <2>2, ClaimRows DEF Recovered
    <3>2. status'[j] = "completed"
      BY <2>1, <3>1 DEF Claim, NextAttempt
    <3>3. audited[j] = 0
      BY <2>2, <2>4, <3>1
    <3> QED BY <2>2, <3>1, <3>2, <3>3
  <2>7. \A j \in Jobs : status[j] = "completed" => status'[j] = "completed"
    BY <2>1, <2>2 DEF Claim, Recovered, NextAttempt
  <2> QED BY <2>3, <2>5, <2>6, <2>7
<1>3. ASSUME NEW w \in Workers,
             OpenExecution(w) \/ SubmitFactor(w) \/ ExecutionFails(w)
      PROVE AuditedAtMostOnce'
  BY <1>3 DEF OpenExecution, SubmitFactor, ExecutionFails, RollBack, row
<1>4. ASSUME NEW w \in Workers, CommitExecution(w) PROVE AuditedAtMostOnce'
  <2>1. CASE LiveClaim(job[w], att[w])
    <3>1. /\ job[w] \in Jobs /\ status[job[w]] = "running" /\ pending[w] = {}
      BY <1>4, <2>1 DEF CommitExecution, At, LiveClaim
    <3>2. audited[job[w]] = 0 /\ \A v \in Workers : job[w] \notin pending[v]
      BY <3>1
    <3>3. /\ audited' = audited
          /\ status' = [status EXCEPT ![job[w]] = "completed"]
          /\ pending' = [pending EXCEPT ![w] = {job[w]}]
      BY <1>4, <2>1 DEF CommitExecution
    <3> QED BY <3>1, <3>2, <3>3
  <2>2. CASE ~LiveClaim(job[w], att[w])
    BY <1>4, <2>2 DEF CommitExecution, RollBack, row
  <2> QED BY <2>1, <2>2
<1>5. ASSUME NEW w \in Workers, Fail(w) PROVE AuditedAtMostOnce'
  BY <1>5 DEF Fail, LiveClaim, At
<1>6. ASSUME NEW w \in Workers, EmitObservation(w) PROVE AuditedAtMostOnce'
  BY <1>6 DEF EmitObservation, row
<1>7. ASSUME NEW w \in Workers, Crash(w) PROVE AuditedAtMostOnce'
  BY <1>7 DEF Crash, row
<1>8. ASSUME NEW c \in Clocks, NEW j \in Jobs, Lapse(c, j) PROVE AuditedAtMostOnce'
  BY <1>8 DEF Lapse, proc
<1> QED BY <1>1, <1>2, <1>3, <1>4, <1>5, <1>6, <1>7, <1>8 DEF Next

\* The combined invariant is inductive.
LEMMA NextIInv == IInv /\ [Next]_vars => IInv'
<1> SUFFICES ASSUME IInv, [Next]_vars PROVE IInv'
  OBVIOUS
<1>1. CASE Next
  <2>1. TypeOK'
    BY <1>1, NextTypeOK DEF IInv
  <2> QED BY <1>1, <2>1, NextRunningStarted, NextRowLock, NextAttemptFence,
             NextPublished, NextAudited DEF IInv
<1>2. CASE UNCHANGED vars
  BY <1>2 DEF IInv, vars, TypeOK, RunningStarted, RowLockProtectsAttempt, Holds,
     AttemptFence, Busy, PublishedIffCompleted, AuditedAtMostOnce
<1> QED BY <1>1, <1>2

\* Every reachable state satisfies the combined invariant.
LEMMA Invariance == Spec => []IInv
  BY InitIInv, NextIInv, PTL DEF Spec

\* While an execution transaction is open its Job's row is the worker's own.
THEOREM RowLockProtects == Spec => []RowLockProtectsAttempt
<1>1. IInv => RowLockProtectsAttempt
  BY DEF IInv
<1> QED BY <1>1, Invariance, PTL

\* The attempt number fences: no two workers own the same attempt of a Job.
THEOREM AttemptNumbersFence == Spec => []AttemptFence
<1>1. IInv => AttemptFence
  BY DEF IInv
<1> QED BY <1>1, Invariance, PTL

\* A validated result exists exactly for the completed Jobs.
THEOREM PublicationIsAtomic == Spec => []PublishedIffCompleted
<1>1. IInv => PublishedIffCompleted
  BY DEF IInv
<1> QED BY <1>1, Invariance, PTL

\* A completion is announced at most once and never before it committed.
THEOREM AuditIsUnique == Spec => []AuditedAtMostOnce
<1>1. IInv => AuditedAtMostOnce
  BY DEF IInv
<1> QED BY <1>1, Invariance, PTL

----------------------------------------------------------------------------
(* What a step may never do *)

LiveAttemptStep ==
    \A w \in Workers :
      /\ Busy(w)
      /\ status[job[w]] = "running" /\ attempts[job[w]] = att[w]
      /\ lapsed[job[w]] = {}
      /\ status'[job[w]] # "running" \/ attempts'[job[w]] # att[w]
      => status'[job[w]] = "cancelled" \/ pc'[w] # pc[w]

\* A worker with the current attempt and a lease that is live on every clock
\* loses its Job only by its own report or by the owner's cancel.
THEOREM LiveAttemptsAreKept == Spec => LiveAttemptKept
<1>1. IInv /\ [Next]_vars => [LiveAttemptStep]_vars
  <2> SUFFICES ASSUME IInv, Next, NEW w \in Workers, Busy(w),
                      status[job[w]] = "running", attempts[job[w]] = att[w],
                      lapsed[job[w]] = {},
                      status'[job[w]] # "running" \/ attempts'[job[w]] # att[w]
               PROVE  status'[job[w]] = "cancelled" \/ pc'[w] # pc[w]
    BY DEF LiveAttemptStep
  <2> DEFINE k == job[w]
  <2>0. k \in Jobs /\ status[k] = "running" /\ attempts[k] = att[w]
    BY DEF IInv, TypeOK, Busy, LiveClaim
  <2> USE DEF IInv, TypeOK
  <2>1. ASSUME NEW j \in Jobs, Create(j) \/ ReserveKey(j) \/ TakeResultKey(j)
        PROVE FALSE
    BY <2>0, <2>1 DEF Create, ReserveKey, TakeResultKey, row
  <2>2. ASSUME NEW j \in Jobs, Cancel(j) PROVE status'[k] = "cancelled"
    BY <2>0, <2>2 DEF Cancel
  <2>3. ASSUME NEW v \in Workers, ClaimNext(v) PROVE FALSE
    <3>1. PICK E \in OneOf(Exhausted(v)), C \in OneOf(Oldest(Claimable(v))) :
            Claim(v, E, C)
      BY <2>3 DEF ClaimNext
    <3>2. k \notin E /\ k \notin C
      BY <2>0 DEF OneOf, Oldest, Exhausted, Claimable, Stale
    <3>3. status'[k] = status[k] /\ attempts'[k] = attempts[k]
      BY <2>0, <3>1, <3>2 DEF Claim, Recovered, NextAttempt
    <3> QED BY <2>0, <3>3
  <2>4. ASSUME NEW v \in Workers,
               OpenExecution(v) \/ SubmitFactor(v) \/ ExecutionFails(v)
        PROVE FALSE
    BY <2>0, <2>4 DEF OpenExecution, SubmitFactor, ExecutionFails, RollBack, row
  <2>5. ASSUME NEW v \in Workers, CommitExecution(v) \/ Fail(v)
        PROVE pc'[w] # pc[w]
    <3>1. job[v] = k /\ LiveClaim(job[v], att[v]) /\ attempts' = attempts
      BY <2>0, <2>5 DEF CommitExecution, Fail, RollBack, row
    <3>2. att[v] = att[w] /\ Busy(v)
      BY <2>0, <2>5, <3>1 DEF LiveClaim, CommitExecution, Fail, At, Busy
    <3>3. v = w
      BY <3>1, <3>2 DEF AttemptFence, Busy
    <3> QED BY <2>5, <3>1, <3>3 DEF CommitExecution, Fail, At, Busy
  <2>6. ASSUME NEW v \in Workers, EmitObservation(v) \/ Crash(v) PROVE FALSE
    BY <2>0, <2>6 DEF EmitObservation, Crash, row
  <2>7. ASSUME NEW c \in Clocks, NEW j \in Jobs, Lapse(c, j) PROVE FALSE
    BY <2>0, <2>7 DEF Lapse
  <2> QED BY <2>1, <2>2, <2>3, <2>4, <2>5, <2>6, <2>7 DEF Next
<1>2. [LiveAttemptStep]_vars <=>
        [\A w \in Workers :
           /\ Busy(w)
           /\ status[job[w]] = "running" /\ attempts[job[w]] = att[w]
           /\ lapsed[job[w]] = {}
           /\ status'[job[w]] # "running" \/ attempts'[job[w]] # att[w]
           => status'[job[w]] = "cancelled" \/ pc'[w] # pc[w]]_vars
  BY DEF LiveAttemptStep
<1> QED BY <1>1, <1>2, Invariance, PTL DEF Spec, LiveAttemptKept

----------------------------------------------------------------------------
(* The store implements the business-Job lifecycle *)

\* Every transaction moves every row along one transition of the lifecycle,
\* or leaves it alone.
THEOREM ImplementsLifecycle == Spec => LifecycleSpec
<1> USE DEF Lifecycle!Stay, Lifecycle!Becomes
<1>1. Init => Lifecycle!Init
  <2> SUFFICES ASSUME Init PROVE Lifecycle!Init
    OBVIOUS
  <2>1. \A j \in Jobs : attempts[j] \in Nat /\ (status[j] = "absent" <=> attempts[j] = 0)
    BY MaxAttemptsAssumption DEF Init
  <2> QED BY <2>1 DEF Init, Lifecycle!Init
<1>2. IInv /\ [Next]_vars => [Lifecycle!Next]_(Lifecycle!vars)
  <2> SUFFICES ASSUME IInv, Next PROVE Lifecycle!Next \/ UNCHANGED Lifecycle!vars
    BY DEF vars, Lifecycle!vars
  <2> USE DEF IInv, TypeOK
  <2>0. \A j \in Jobs : status[j] \in {"absent", "queued", "running"} => result[j] = FALSE
    BY DEF PublishedIffCompleted
  <2>1. ASSUME NEW j \in Jobs, Create(j) PROVE Lifecycle!Next
    BY <2>0, <2>1 DEF Create, Lifecycle!Next, Lifecycle!JobStep, Lifecycle!Submit
  <2>2. ASSUME NEW j \in Jobs, ReserveKey(j) \/ TakeResultKey(j)
        PROVE UNCHANGED Lifecycle!vars
    BY <2>2 DEF ReserveKey, TakeResultKey, row, Lifecycle!vars
  <2>3. ASSUME NEW j \in Jobs, Cancel(j) PROVE Lifecycle!Next
    BY <2>0, <2>3 DEF Cancel, Lifecycle!Next, Lifecycle!JobStep, Lifecycle!Withdraw,
       Lifecycle!Active
  <2>4. ASSUME NEW w \in Workers, ClaimNext(w) PROVE Lifecycle!Next
    <3>1. PICK E \in OneOf(Exhausted(w)), C \in OneOf(Oldest(Claimable(w))) :
            Claim(w, E, C)
      BY <2>4 DEF ClaimNext
    <3>2. /\ E \cap C = {}
          /\ \A j \in E : status[j] = "running"
          /\ \A j \in C : status[j] \in {"queued", "running"} /\ attempts[j] < MaxAttempts
      BY ClaimRows
    <3>3. ASSUME NEW j \in Jobs, j \in C PROVE Lifecycle!Start(j)
      BY <2>0, <3>1, <3>2, <3>3 DEF Claim, NextAttempt, Recovered, Lifecycle!Start, Lifecycle!Active
    <3>4. ASSUME NEW j \in Jobs, j \in Recovered(E) PROVE Lifecycle!Succeed(j)
      BY <3>1, <3>2, <3>4 DEF Claim, NextAttempt, Recovered, Lifecycle!Succeed
    <3>5. ASSUME NEW j \in Jobs, j \in E, j \notin Recovered(E) PROVE Lifecycle!GiveUp(j)
      BY <2>0, <3>1, <3>2, <3>5 DEF Claim, Lifecycle!GiveUp, Lifecycle!Active, RunningStarted
    <3>6. ASSUME NEW j \in Jobs, j \notin E, j \notin C PROVE Lifecycle!Stay(j)
      BY <3>1, <3>6 DEF Claim, Recovered, NextAttempt
    <3> QED BY <3>3, <3>4, <3>5, <3>6 DEF Lifecycle!Next, Lifecycle!JobStep
  <2>5. ASSUME NEW w \in Workers,
               OpenExecution(w) \/ SubmitFactor(w) \/ ExecutionFails(w)
        PROVE UNCHANGED Lifecycle!vars
    BY <2>5 DEF OpenExecution, SubmitFactor, ExecutionFails, RollBack, row, Lifecycle!vars
  <2>6. ASSUME NEW w \in Workers, CommitExecution(w)
        PROVE Lifecycle!Next \/ UNCHANGED Lifecycle!vars
    <3>1. CASE LiveClaim(job[w], att[w])
      <4>1. job[w] \in Jobs /\ status[job[w]] = "running"
        BY <2>6, <3>1 DEF CommitExecution, At, LiveClaim
      <4>2. /\ status' = [status EXCEPT ![job[w]] = "completed"]
            /\ result' = [result EXCEPT ![job[w]] = TRUE]
            /\ attempts' = attempts
        BY <2>6, <3>1 DEF CommitExecution
      <4>3. Lifecycle!Succeed(job[w])
        BY <4>1, <4>2 DEF Lifecycle!Succeed
      <4>4. \A j \in Jobs : j # job[w] => Lifecycle!Stay(j)
        BY <4>1, <4>2
      <4> QED BY <4>3, <4>4 DEF Lifecycle!Next, Lifecycle!JobStep
    <3>2. CASE ~LiveClaim(job[w], att[w])
      BY <2>6, <3>2 DEF CommitExecution, RollBack, row, Lifecycle!vars
    <3> QED BY <3>1, <3>2
  <2>7. ASSUME NEW w \in Workers, Fail(w)
        PROVE Lifecycle!Next \/ UNCHANGED Lifecycle!vars
    <3>1. CASE LiveClaim(job[w], att[w])
      <4>1. job[w] \in Jobs /\ status[job[w]] = "running" /\ attempts[job[w]] > 0
        BY <2>7, <3>1 DEF Fail, At, LiveClaim, RunningStarted
      <4>2. attempts' = attempts /\ result' = result
            /\ status' = [status EXCEPT ![job[w]] =
                 IF retryable[w] /\ attempts[job[w]] < MaxAttempts
                 THEN "queued" ELSE "failed"]
        BY <2>7, <3>1 DEF Fail
      <4>3. Lifecycle!Retry(job[w]) \/ Lifecycle!GiveUp(job[w])
        BY <2>0, <4>1, <4>2 DEF Lifecycle!Retry, Lifecycle!GiveUp, Lifecycle!Active
      <4>4. \A j \in Jobs : j # job[w] => Lifecycle!Stay(j)
        BY <4>1, <4>2
      <4> QED BY <4>3, <4>4 DEF Lifecycle!Next, Lifecycle!JobStep
    <3>2. CASE ~LiveClaim(job[w], att[w])
      BY <2>7, <3>2 DEF Fail, Lifecycle!vars
    <3> QED BY <3>1, <3>2
  <2>8. ASSUME NEW w \in Workers, EmitObservation(w) \/ Crash(w)
        PROVE UNCHANGED Lifecycle!vars
    BY <2>8 DEF EmitObservation, Crash, row, Lifecycle!vars
  <2>9. ASSUME NEW c \in Clocks, NEW j \in Jobs, Lapse(c, j)
        PROVE UNCHANGED Lifecycle!vars
    BY <2>9 DEF Lapse, Lifecycle!vars
  <2> QED BY <2>1, <2>2, <2>3, <2>4, <2>5, <2>6, <2>7, <2>8, <2>9 DEF Next
<1> QED BY <1>1, <1>2, Invariance, PTL DEF Spec, LifecycleSpec, Lifecycle!Spec
=============================================================================
