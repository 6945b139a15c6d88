---------------------------- MODULE MLRunsProofs ----------------------------
(***************************************************************************)
(* Proofs about MLRuns, the queues of one machine-learning study, for every *)
(* number of runs and workers, every budget of attempts and takeovers and   *)
(* every number of publishing transactions.                                 *)
(***************************************************************************)
EXTENDS MLRuns, FiniteSetTheorems, TLAPS

----------------------------------------------------------------------------
(* The inductive invariant *)

\* A busy worker has a run; one that prepares has a training run, and only one
\* that executes has published anything.
JobsInHand ==
    \A w \in Workers :
      /\ pc[w] # "idle" => job[w] \in Runs
      /\ pc[w] \in Preparing \cup {"release"} => job[w] \in Trainings
      /\ pc[w] # "run" => stage[w] = 0

\* A queued row can still be started, and a running one was.
BudgetLeft ==
    \A r \in Runs :
      /\ status[r] = "queued" => attempts[r] < MaxAttempts
      /\ status[r] = "running" => attempts[r] > 0

\* The study's lock is held by one request, and what that request read under
\* the lock is still so: no worker makes a run active or undoes one.
LockKeepsDecision ==
    /\ \A q, s \in open : q = s
    /\ "train" \in open => study = "validated"
    /\ "predict" \in open => study = "validated"
    /\ "archive" \in open => study = "validated" /\ ~HasActive
    /\ "restore" \in open => study = "archived"
    /\ "supersede" \in open => study = "validated" /\ ~HasHistory

\* Two active training runs of the study are the same run.
ActiveAgree ==
    \A t, u \in Trainings : status[t] \in Active /\ status[u] \in Active => t = u

\* Only a run with a frozen input is ever queued; before that it has neither an
\* attempt nor a completion, and no run with one waits again.
FrozenRows ==
    /\ \A t \in Trainings \ prepared :
         /\ status[t] \in {"absent", "waiting_for_data", "failed", "cancelled"}
         /\ attempts[t] = 0
    /\ \A t \in prepared : status[t] \notin {"absent", "waiting_for_data"}
    /\ \A p \in Predictions : /\ status[p] # "waiting_for_data"
                              /\ status[p] = "absent" => attempts[p] = 0

\* What a worker has published is published, and a completed run has all of it.
PublishedFirst ==
    /\ \A w \in Workers : pc[w] = "run" => stage[w] <= published[job[w]]
    /\ \A r \in Runs : status[r] = "completed" => published[r] = LastStage

IInv ==
    /\ TypeOK
    /\ JobsInHand
    /\ BudgetLeft
    /\ LockKeepsDecision
    /\ StudyAtRest
    /\ ActiveAgree
    /\ FrozenRows
    /\ PublishedFirst

----------------------------------------------------------------------------
(* Rows *)

Moves(r, s, a) ==
    /\ status'[r] = s /\ attempts'[r] = a
    /\ r \in prepared' <=> r \in prepared

\* Everything a step may do to one row of either table.
RowMove(r) ==
    \/ Moves(r, status[r], attempts[r])
    \/ status[r] = "absent" /\ r \in Trainings /\ Moves(r, "waiting_for_data", attempts[r])
    \/ status[r] = "absent" /\ r \in Predictions /\ Moves(r, "queued", attempts[r])
    \/ /\ status[r] = "waiting_for_data" /\ r \in Trainings
       /\ status'[r] = "queued" /\ attempts'[r] = attempts[r] /\ r \in prepared'
    \/ status[r] = "waiting_for_data" /\ \E s \in {"failed", "cancelled"} : Moves(r, s, attempts[r])
    \/ status[r] = "queued" /\ Moves(r, "cancelled", attempts[r])
    \/ /\ status[r] \in {"queued", "running"} /\ attempts[r] < MaxAttempts
       /\ Moves(r, "running", attempts[r] + 1)
    \/ status[r] = "running" /\ attempts[r] < MaxAttempts /\ Moves(r, "queued", attempts[r])
    \/ status[r] = "running" /\ Moves(r, "failed", attempts[r])
    \/ status[r] = "running" /\ published[r] = LastStage /\ Moves(r, "completed", attempts[r])

\* claim_next queues expired rows again or gives them up, and starts one row
\* that has an attempt left.
LEMMA ClaimNextMoves ==
    ASSUME TypeOK, BudgetLeft, NEW w \in Workers, NEW S \in SUBSET Runs, ClaimNext(w, S)
    PROVE  /\ \A r \in Runs : RowMove(r)
           /\ status' \in [Runs -> Status]
           /\ attempts' \in [Runs -> 0..MaxAttempts]
<1> USE BudgetAssumption DEF TypeOK, BudgetLeft
<1> DEFINE now == [r \in Runs |-> IF r \notin Expired(S) THEN status[r]
                                  ELSE IF attempts[r] < MaxAttempts THEN "queued"
                                  ELSE "failed"]
           queue == {r \in S : now[r] = "queued"}
<1>1. now \in [Runs -> Status]
  BY DEF Status, Active, Terminal
<1>2. \A r \in Runs : r \in Expired(S) => status[r] = "running"
  BY DEF Expired
<1>3. CASE status' = now /\ UNCHANGED <<attempts, prepared>>
  BY <1>1, <1>2, <1>3 DEF RowMove, Moves
<1>4. ASSUME NEW k \in queue,
             status' = [now EXCEPT ![k] = "running"],
             attempts' = [attempts EXCEPT ![k] = @ + 1],
             prepared' = prepared
      PROVE  /\ \A r \in Runs : RowMove(r)
             /\ status' \in [Runs -> Status]
             /\ attempts' \in [Runs -> 0..MaxAttempts]
  <2>1. /\ k \in Runs /\ now[k] = "queued"
        /\ status[k] \in {"queued", "running"} /\ attempts[k] < MaxAttempts
    BY <1>2
  <2>2. RowMove(k)
    BY <1>1, <1>4, <2>1 DEF RowMove, Moves
  <2>3. \A r \in Runs \ {k} : RowMove(r)
    BY <1>1, <1>2, <1>4 DEF RowMove, Moves
  <2>4. status' \in [Runs -> Status]
    BY <1>1, <1>4 DEF Status, Active
  <2>5. attempts' \in [Runs -> 0..MaxAttempts]
    BY <1>4, <2>1
  <2> QED BY <2>2, <2>3, <2>4, <2>5
<1> QED BY <1>3, <1>4 DEF ClaimNext, prep

\* A step moves every row as RowMove says: the fences of the preparation and of
\* the attempt leave a row alone that has moved on without the worker.
LEMMA EveryMove ==
    ASSUME TypeOK, JobsInHand, BudgetLeft, PublishedFirst, Next
    PROVE  \A r \in Runs : RowMove(r)
<1> USE DEF TypeOK, JobsInHand, Moves, Runs
<1>1. ASSUME NEW q \in Requests, Begin(q) \/ Rollback(q) PROVE \A r \in Runs : RowMove(r)
  BY <1>1 DEF Begin, Rollback, RowMove, row, prep
<1>2. CASE CommitTraining \/ CommitPrediction
  BY <1>2 DEF CommitTraining, CommitPrediction, RowMove, prep
<1>3. ASSUME NEW q, NEW s, CommitStudy(q, s) PROVE \A r \in Runs : RowMove(r)
  BY <1>3 DEF CommitStudy, RowMove, row, prep
<1>4. ASSUME NEW t \in Trainings, Cancel(t) PROVE \A r \in Runs : RowMove(r)
  BY <1>4 DEF Cancel, RowMove
<1>5. ASSUME NEW r \in Runs, Lapse(r) PROVE \A k \in Runs : RowMove(k)
  BY <1>5 DEF Lapse, RowMove, prep
<1>6. CASE RepairEnds \/ SessionLost \/ SessionRecovered \/ EndsByAssessment \/ Reopen
  BY <1>6 DEF RepairEnds, SessionLost, SessionRecovered, EndsByAssessment,
     Reopen, RowMove, row, prep
<1>7. ASSUME NEW w \in Workers, ClaimPreparation(w) PROVE \A r \in Runs : RowMove(r)
  BY <1>7 DEF ClaimPreparation, RowMove
<1>8. ASSUME NEW w \in Workers, Assess(w) \/ Release(w) \/ Publish(w) \/ Crash(w)
      PROVE \A r \in Runs : RowMove(r)
  BY <1>8 DEF Assess, Release, Publish, Crash, RowMove, row, prep
<1>9. ASSUME NEW w \in Workers, RequestRepair(w) \/ PreparationFails(w)
      PROVE \A r \in Runs : RowMove(r)
  BY <1>9 DEF RequestRepair, PreparationFails, FailWaiting, Fenced, RowMove
<1>10. ASSUME NEW w \in Workers, Promote(w) PROVE \A r \in Runs : RowMove(r)
  BY <1>10 DEF Promote, Fenced, Preparing, RowMove
<1>11. ASSUME NEW w \in Workers, ClaimTraining(w) \/ ClaimPrediction(w)
       PROVE \A r \in Runs : RowMove(r)
  BY <1>11, ClaimNextMoves DEF ClaimTraining, ClaimPrediction
<1>12. ASSUME NEW w \in Workers, Complete(w) PROVE \A r \in Runs : RowMove(r)
  <2>1. job[w] \in Runs /\ published[job[w]] = LastStage
    BY <1>12, BudgetAssumption DEF Complete, Report, PublishedFirst, Stages
  <2> QED BY <1>12, <2>1 DEF Complete, Report, Current, RowMove, prep
<1>13. ASSUME NEW w \in Workers, Fail(w) PROVE \A r \in Runs : RowMove(r)
  BY <1>13 DEF Fail, Report, Current, RowMove, prep
<1> QED
  BY <1>1, <1>2, <1>3, <1>4, <1>5, <1>6, <1>7, <1>8, <1>9, <1>10, <1>11, <1>12, <1>13
  DEF Next, Prepares

----------------------------------------------------------------------------
(* Types *)

\* The requests, the rows and the workers keep their types: a row is queued
\* only with an attempt left, so a claim never counts past max_attempts, and
\* recoveries never pass their bound.
LEMMA NextTypeOK == TypeOK /\ JobsInHand /\ BudgetLeft /\ Next => TypeOK'
<1> SUFFICES ASSUME TypeOK, JobsInHand, BudgetLeft, Next PROVE TypeOK'
  OBVIOUS
<1> USE BudgetAssumption DEF TypeOK, JobsInHand, Repairs, request, row, prep, market, proc
<1>1. ASSUME NEW q \in Requests, Begin(q) \/ Rollback(q) PROVE TypeOK'
  BY <1>1 DEF Begin, Rollback
<1>2. CASE CommitTraining \/ CommitPrediction
  <2>1. status' \in [Runs -> Status]
    BY <1>2 DEF CommitTraining, CommitPrediction, Status, Active
  <2> QED BY <1>2, <2>1 DEF CommitTraining, CommitPrediction
<1>3. ASSUME NEW q, NEW s \in {"validated", "archived", "superseded"}, CommitStudy(q, s)
      PROVE TypeOK'
  BY <1>3 DEF CommitStudy
<1>4. ASSUME NEW t \in Trainings, Cancel(t) PROVE TypeOK'
  BY <1>4 DEF Cancel, Unclaim, Status, Terminal, Runs
<1>5. ASSUME NEW r \in Runs, Lapse(r) PROVE TypeOK'
  BY <1>5 DEF Lapse
<1>6. CASE RepairEnds \/ SessionLost \/ SessionRecovered \/ EndsByAssessment \/ Reopen
  BY <1>6 DEF RepairEnds, SessionLost, SessionRecovered, EndsByAssessment, Reopen
<1>7. ASSUME NEW w \in Workers, ClaimPreparation(w) PROVE TypeOK'
  <2>1. PICK t \in Trainings :
          /\ status[t] = "waiting_for_data"
          /\ claim[t] = Nobody \/ t \in lapsed
          /\ lapsed' = lapsed \ {t}
          /\ IF PreparationSpent(t)
               THEN /\ status' = [status EXCEPT ![t] = "failed"]
                    /\ Unclaim(t)
                    /\ UNCHANGED <<pc, job>>
               ELSE /\ claim' = [claim EXCEPT ![t] = w]
                    /\ recoveries' = [recoveries EXCEPT ![t] =
                           IF claim[t] = Nobody THEN @ ELSE @ + 1]
                    /\ job' = [job EXCEPT ![w] = t]
                    /\ Goto(w, "assess")
                    /\ UNCHANGED status
    BY <1>7 DEF ClaimPreparation
  <2>2. CASE PreparationSpent(t)
    BY <1>7, <2>1, <2>2 DEF ClaimPreparation, Unclaim, Status, Terminal, Runs
  <2>3. CASE ~PreparationSpent(t)
    <3>1. recoveries' \in [Trainings -> 0..MaxRecoveries]
      BY <2>1, <2>3 DEF PreparationSpent
    <3>2. /\ claim' \in [Trainings -> Workers \cup {Nobody}]
          /\ job' \in [Workers -> Runs \cup {NoRun}]
          /\ pc' \in [Workers -> PC]
      BY <2>1, <2>3 DEF Goto, PC, Preparing, Runs
    <3> QED BY <1>7, <2>1, <2>3, <3>1, <3>2 DEF ClaimPreparation
  <2> QED BY <2>2, <2>3
<1>8. ASSUME NEW w \in Workers, Assess(w) PROVE TypeOK'
  BY <1>8 DEF Assess, Leave, Goto, PC, Preparing
<1>9. ASSUME NEW w \in Workers, FailWaiting(w)
      PROVE /\ status' \in [Runs -> Status]
            /\ claim' \in [Trainings -> Workers \cup {Nobody}]
            /\ recoveries' \in [Trainings -> 0..MaxRecoveries]
            /\ pc' \in [Workers -> PC]
            /\ job' \in [Workers -> Runs \cup {NoRun}]
  <2>1. pc' \in [Workers -> PC] /\ job' \in [Workers -> Runs \cup {NoRun}]
    BY <1>9 DEF FailWaiting, Leave, Goto, PC, Preparing
  <2>2. CASE Fenced(w)
    BY <1>9, <2>1, <2>2 DEF FailWaiting, Unclaim, Status, Terminal
  <2>3. CASE ~Fenced(w)
    BY <1>9, <2>1, <2>3 DEF FailWaiting
  <2> QED BY <2>2, <2>3
<1>10. ASSUME NEW w \in Workers, RequestRepair(w) PROVE TypeOK'
  <2>1. CASE repair = "ended" \/ ~Fenced(w)
    BY <1>9, <1>10, <2>1 DEF RequestRepair
  <2>2. CASE ~(repair = "ended" \/ ~Fenced(w))
    BY <1>10, <2>2 DEF RequestRepair, Goto, PC
  <2> QED BY <2>1, <2>2
<1>11. ASSUME NEW w \in Workers, PreparationFails(w) PROVE TypeOK'
  BY <1>9, <1>11 DEF PreparationFails
<1>12. ASSUME NEW w \in Workers, Release(w) PROVE TypeOK'
  BY <1>12 DEF Release, Leave, Goto, PC
<1>13. ASSUME NEW w \in Workers, Promote(w) PROVE TypeOK'
  <2>1. pc' \in [Workers -> PC] /\ job' \in [Workers -> Runs \cup {NoRun}]
    BY <1>13 DEF Promote, Leave, Goto, PC
  <2>2. job[w] \in Trainings
    BY <1>13 DEF Promote, Preparing
  <2>3. CASE Fenced(w)
    BY <1>13, <2>1, <2>2, <2>3 DEF Promote, Unclaim, Status, Active
  <2>4. CASE ~Fenced(w)
    BY <1>13, <2>1, <2>4 DEF Promote
  <2> QED BY <2>3, <2>4
<1>14. ASSUME NEW w \in Workers, NEW S \in SUBSET Runs, ClaimNext(w, S) PROVE TypeOK'
  <2>1. status' \in [Runs -> Status] /\ attempts' \in [Runs -> 0..MaxAttempts]
    BY <1>14, ClaimNextMoves
  <2>2. /\ pc' \in [Workers -> PC]
        /\ job' \in [Workers -> Runs \cup {NoRun}]
        /\ att' \in [Workers -> 0..MaxAttempts]
    <3>1. CASE UNCHANGED <<attempts, pc, job, att>>
      BY <3>1
    <3>2. ASSUME NEW r \in Runs,
                 attempts' = [attempts EXCEPT ![r] = @ + 1],
                 job' = [job EXCEPT ![w] = r],
                 att' = [att EXCEPT ![w] = attempts[r] + 1],
                 Goto(w, "run")
          PROVE /\ pc' \in [Workers -> PC]
                /\ job' \in [Workers -> Runs \cup {NoRun}]
                /\ att' \in [Workers -> 0..MaxAttempts]
      <4>1. attempts'[r] = attempts[r] + 1
        BY <3>2
      <4> QED BY <2>1, <3>2, <4>1 DEF Goto, PC
    <3> QED BY <1>14, <3>1, <3>2 DEF ClaimNext
  <2> QED BY <1>14, <2>1, <2>2 DEF ClaimNext
<1>15. ASSUME NEW w \in Workers, Publish(w) PROVE TypeOK'
  BY <1>15 DEF Publish, Stages
<1>16. ASSUME NEW w \in Workers, NEW outcome \in {"completed", "failed"}, Report(w, outcome)
       PROVE TypeOK'
  BY <1>16 DEF Report, Goto, PC, Stages, Status, Terminal
<1>17. ASSUME NEW w \in Workers, Crash(w) PROVE TypeOK'
  BY <1>17 DEF Crash, Goto, PC, Stages
<1>18. Trainings \in SUBSET Runs /\ Predictions \in SUBSET Runs
  BY DEF Runs
<1> QED
  BY <1>1, <1>2, <1>3, <1>4, <1>5, <1>6, <1>7, <1>8, <1>10, <1>11, <1>12, <1>13, <1>14,
     <1>15, <1>16, <1>17, <1>18
  DEF Next, Prepares, ClaimTraining, ClaimPrediction, Complete, Fail

\* Only a worker that is busy has a run in hand, and a preparation is always of
\* a training run.
LEMMA NextJobsInHand == TypeOK /\ JobsInHand /\ Next => JobsInHand'
<1> SUFFICES ASSUME TypeOK, JobsInHand, Next PROVE JobsInHand'
  OBVIOUS
<1> USE DEF TypeOK, JobsInHand, row, prep, market, proc, Preparing
<1>1. ASSUME NEW q \in Requests, Begin(q) \/ Rollback(q) PROVE JobsInHand'
  BY <1>1 DEF Begin, Rollback
<1>2. CASE \/ CommitTraining \/ CommitPrediction
          \/ RepairEnds \/ SessionLost \/ SessionRecovered \/ EndsByAssessment \/ Reopen
  BY <1>2 DEF CommitTraining, CommitPrediction, RepairEnds, SessionLost, SessionRecovered,
     EndsByAssessment, Reopen
<1>3. ASSUME NEW q, NEW s, CommitStudy(q, s) PROVE JobsInHand'
  BY <1>3 DEF CommitStudy
<1>4. ASSUME NEW r, Cancel(r) \/ Lapse(r) PROVE JobsInHand'
  BY <1>4 DEF Cancel, Lapse
<1>5. ASSUME NEW w \in Workers, ClaimPreparation(w) PROVE JobsInHand'
  BY <1>5 DEF ClaimPreparation, Goto, Runs
<1>6. ASSUME NEW w \in Workers, Assess(w) \/ Release(w) \/ Promote(w) \/ PreparationFails(w)
      PROVE JobsInHand'
  BY <1>6 DEF Assess, Release, Promote, PreparationFails, FailWaiting, Leave, Goto
<1>7. ASSUME NEW w \in Workers, RequestRepair(w) PROVE JobsInHand'
  BY <1>7 DEF RequestRepair, FailWaiting, Leave, Goto
<1>8. ASSUME NEW w \in Workers, NEW S \in SUBSET Runs, ClaimNext(w, S) PROVE JobsInHand'
  <2>1. \/ UNCHANGED <<pc, job>>
        \/ \E r \in Runs : pc' = [pc EXCEPT ![w] = "run"] /\ job' = [job EXCEPT ![w] = r]
    BY <1>8 DEF ClaimNext, Goto
  <2>2. stage' = stage /\ pc[w] = "idle"
    BY <1>8 DEF ClaimNext
  <2> QED BY <2>1, <2>2
<1>9. ASSUME NEW w \in Workers, Publish(w) PROVE JobsInHand'
  BY <1>9 DEF Publish
<1>10. ASSUME NEW w \in Workers, NEW outcome, Report(w, outcome) PROVE JobsInHand'
  BY <1>10 DEF Report, Goto
<1>11. ASSUME NEW w \in Workers, Crash(w) PROVE JobsInHand'
  BY <1>11 DEF Crash, Goto
<1>12. Trainings \in SUBSET Runs /\ Predictions \in SUBSET Runs
  BY DEF Runs
<1> QED
  BY <1>1, <1>2, <1>3, <1>4, <1>5, <1>6, <1>7, <1>8, <1>9, <1>10, <1>11, <1>12
  DEF Next, Prepares, ClaimTraining, ClaimPrediction, Complete, Fail

----------------------------------------------------------------------------
(* Budgets and frozen inputs *)

\* What RowMove allows keeps the budget of every row.
LEMMA NextBudgetLeft ==
    ASSUME TypeOK, BudgetLeft, FrozenRows, \A r \in Runs : RowMove(r)
    PROVE  BudgetLeft'
<1> SUFFICES ASSUME NEW r \in Runs
             PROVE /\ status'[r] = "queued" => attempts'[r] < MaxAttempts
                   /\ status'[r] = "running" => attempts'[r] > 0
  BY DEF BudgetLeft
<1>1. status[r] = "waiting_for_data" => attempts[r] = 0
  BY BudgetAssumption DEF TypeOK, FrozenRows, Runs
<1>2. attempts[r] \in Nat
  BY BudgetAssumption DEF TypeOK
<1>3. r \in Predictions /\ status[r] = "absent" => attempts[r] = 0
  BY DEF FrozenRows
<1>4. RowMove(r)
  OBVIOUS
<1> QED BY <1>1, <1>2, <1>3, <1>4, BudgetAssumption DEF RowMove, Moves, BudgetLeft

\* A row has its input before it is queued and never waits again after.
LEMMA NextFrozenRows ==
    ASSUME TypeOK, TypeOK', FrozenRows, \A r \in Runs : RowMove(r)
    PROVE  FrozenRows'
<1> USE RunsAssumption DEF FrozenRows, RowMove, Moves, TypeOK, Runs
<1>1. ASSUME NEW t \in Trainings, t \notin prepared'
      PROVE /\ status'[t] \in {"absent", "waiting_for_data", "failed", "cancelled"}
            /\ attempts'[t] = 0
  <2>1. RowMove(t) /\ t \notin Predictions
    OBVIOUS
  <2>2. t \notin prepared
    BY <1>1, <2>1
  <2> QED BY <1>1, <2>1, <2>2
<1>2. ASSUME NEW t \in prepared' PROVE status'[t] \notin {"absent", "waiting_for_data"}
  <2>1. RowMove(t) /\ t \in Trainings /\ t \notin Predictions
    OBVIOUS
  <2> QED BY <1>2, <2>1
<1>3. ASSUME NEW p \in Predictions
      PROVE /\ status'[p] # "waiting_for_data"
            /\ status'[p] = "absent" => attempts'[p] = 0
  <2>1. RowMove(p) /\ p \notin Trainings
    OBVIOUS
  <2> QED BY <1>3, <2>1
<1> QED BY <1>1, <1>2, <1>3

----------------------------------------------------------------------------
(* The study *)

\* Outside the requests under the study's lock, a run is neither created nor
\* made active again.
LEMMA NothingStarts ==
    ASSUME TypeOK, JobsInHand, Next, open' = open
    PROVE  /\ study' = study
           /\ \A r \in Runs : /\ status'[r] \in Active => status[r] \in Active
                              /\ status[r] = "absent" <=> status'[r] = "absent"
<1> USE DEF TypeOK, JobsInHand, request, row, prep, market, proc, Active
<1> DEFINE Quiet == /\ study' = study
                    /\ \A r \in Runs : /\ status'[r] \in Active => status[r] \in Active
                                       /\ status[r] = "absent" <=> status'[r] = "absent"
<1>1. ASSUME NEW q \in Requests, Begin(q) \/ Rollback(q) PROVE FALSE
  BY <1>1 DEF Begin, Rollback, Lockable
<1>2. CASE CommitTraining \/ CommitPrediction
  BY <1>2 DEF CommitTraining, CommitPrediction
<1>3. ASSUME NEW q, NEW s, CommitStudy(q, s) PROVE FALSE
  BY <1>3 DEF CommitStudy
<1>4. ASSUME NEW t \in Trainings, Cancel(t) PROVE Quiet
  BY <1>4 DEF Cancel, Runs
<1>5. ASSUME NEW r \in Runs, Lapse(r) PROVE Quiet
  BY <1>5 DEF Lapse
<1>6. CASE RepairEnds \/ SessionLost \/ SessionRecovered \/ EndsByAssessment \/ Reopen
  BY <1>6 DEF RepairEnds, SessionLost, SessionRecovered, EndsByAssessment, Reopen
<1>7. ASSUME NEW w \in Workers, ClaimPreparation(w) PROVE Quiet
  BY <1>7 DEF ClaimPreparation, Runs
<1>8. ASSUME NEW w \in Workers, Assess(w) \/ Release(w) \/ Publish(w) \/ Crash(w) PROVE Quiet
  BY <1>8 DEF Assess, Release, Publish, Crash
<1>9. ASSUME NEW w \in Workers, RequestRepair(w) \/ PreparationFails(w) PROVE Quiet
  BY <1>9 DEF RequestRepair, PreparationFails, FailWaiting, Fenced
<1>10. ASSUME NEW w \in Workers, Promote(w) PROVE Quiet
  BY <1>10 DEF Promote, Fenced
<1>11. ASSUME NEW w \in Workers, NEW S \in SUBSET Runs, ClaimNext(w, S) PROVE Quiet
  BY <1>11 DEF ClaimNext, Expired
<1>12. ASSUME NEW w \in Workers, NEW outcome \in {"completed", "failed"}, Report(w, outcome)
       PROVE Quiet
  BY <1>12 DEF Report, Current
<1>13. Trainings \in SUBSET Runs /\ Predictions \in SUBSET Runs
  BY DEF Runs
<1> QED
  BY <1>1, <1>2, <1>3, <1>4, <1>5, <1>6, <1>7, <1>8, <1>9, <1>10, <1>11, <1>12, <1>13
  DEF Next, Prepares, ClaimTraining, ClaimPrediction, Complete, Fail

\* So a study that was at rest, or never executed, stays so.
LEMMA RestStays ==
    ASSUME TypeOK, JobsInHand, Next, open' = open
    PROVE  /\ study' = study
           /\ ~HasActive => ~HasActive'
           /\ ~HasHistory => ~HasHistory'
  BY NothingStarts DEF HasActive, HasHistory, ActiveRuns, Executed

\* The requests that change the set of holders of the study's lock.
LEMMA LockSteps ==
    ASSUME TypeOK, JobsInHand, Next, open' # open
    PROVE  \/ \E q \in Requests : Begin(q) \/ Rollback(q)
           \/ CommitTraining \/ CommitPrediction
           \/ CommitStudy("archive", "archived")
           \/ CommitStudy("restore", "validated")
           \/ CommitStudy("supersede", "superseded")
  BY DEF Next, RepairEnds, SessionLost, SessionRecovered, EndsByAssessment, Reopen,
     Cancel, Lapse, ClaimPreparation, Prepares, Assess, RequestRepair,
     Release, Promote, PreparationFails, ClaimTraining, ClaimPrediction, ClaimNext, Publish,
     Complete, Fail, Report, Crash, request

\* The lock serialises the requests: until its holder commits, what it read is
\* true.
LEMMA NextLockKeepsDecision ==
    TypeOK /\ JobsInHand /\ LockKeepsDecision /\ Next => LockKeepsDecision'
<1> SUFFICES ASSUME TypeOK, JobsInHand, LockKeepsDecision, Next PROVE LockKeepsDecision'
  OBVIOUS
<1>1. CASE open' = open
  BY <1>1, RestStays DEF LockKeepsDecision
<1>2. ASSUME NEW q \in Requests, Begin(q) PROVE LockKeepsDecision'
  <2>1. /\ open' = {q} /\ study' = study /\ status' = status /\ Permitted(q)
    BY <1>2 DEF Begin, Lockable, row
  <2>2. (HasActive' <=> HasActive) /\ (HasHistory' <=> HasHistory)
    BY <2>1 DEF HasActive, HasHistory, ActiveRuns, Executed
  <2> QED BY <2>1, <2>2 DEF LockKeepsDecision, Permitted
<1>3. ASSUME NEW q, q \in open, open' = open \ {q} PROVE LockKeepsDecision'
  <2>1. open' = {}
    BY <1>3 DEF LockKeepsDecision
  <2> QED BY <2>1 DEF LockKeepsDecision
<1>4. CASE open' # open
  BY <1>2, <1>3, <1>4, LockSteps DEF Rollback, CommitTraining, CommitPrediction, CommitStudy
<1> QED BY <1>1, <1>4

\* Archiving and deletion commit only at rest, and a submission commits only
\* while the study is still validated.
LEMMA NextStudyAtRest ==
    TypeOK /\ JobsInHand /\ LockKeepsDecision /\ StudyAtRest /\ Next => StudyAtRest'
<1> SUFFICES ASSUME TypeOK, JobsInHand, LockKeepsDecision, StudyAtRest, Next
             PROVE StudyAtRest'
  OBVIOUS
<1>1. CASE open' = open
  BY <1>1, RestStays DEF StudyAtRest
<1>2. CASE CommitTraining \/ CommitPrediction
  BY <1>2 DEF CommitTraining, CommitPrediction, LockKeepsDecision, StudyAtRest
<1>3. CASE status' = status
  <2>1. (HasActive' <=> HasActive) /\ (HasHistory' <=> HasHistory)
    BY <1>3 DEF HasActive, HasHistory, ActiveRuns, Executed
  <2>2. CASE study' = study
    BY <2>1, <2>2 DEF StudyAtRest
  <2>3. CASE CommitStudy("archive", "archived")
    BY <2>1, <2>3 DEF CommitStudy, LockKeepsDecision, StudyAtRest
  <2>4. CASE CommitStudy("restore", "validated")
    BY <2>1, <2>4 DEF CommitStudy, StudyAtRest
  <2>5. CASE CommitStudy("supersede", "superseded")
    <3>1. ~HasHistory => ~HasActive
      BY DEF HasHistory, HasActive, Executed, ActiveRuns, Active
    <3> QED BY <2>1, <2>5, <3>1 DEF CommitStudy, LockKeepsDecision, StudyAtRest
  <2>6. CASE open' # open
    BY <1>2, <2>2, <2>3, <2>4, <2>5, <2>6, LockSteps DEF Begin, Rollback
  <2> QED BY <1>1, <2>6
<1> QED BY <1>1, <1>2, <1>3, LockSteps DEF Begin, Rollback, CommitStudy, row

\* A training run is inserted only while none is active.
LEMMA NextActiveAgree == TypeOK /\ JobsInHand /\ ActiveAgree /\ Next => ActiveAgree'
<1> SUFFICES ASSUME TypeOK, JobsInHand, ActiveAgree, Next PROVE ActiveAgree'
  OBVIOUS
<1>1. CASE open' = open
  BY <1>1, NothingStarts DEF ActiveAgree, Runs
<1>2. CASE CommitTraining
  BY <1>2 DEF CommitTraining, Equivalent, ActiveAgree, TypeOK, Runs
<1>3. CASE CommitPrediction
  BY <1>3, RunsAssumption DEF CommitPrediction, ActiveAgree, TypeOK, Runs
<1>4. CASE status' = status
  BY <1>4 DEF ActiveAgree
<1> QED BY <1>1, <1>2, <1>3, <1>4, LockSteps DEF Begin, Rollback, CommitStudy, row

----------------------------------------------------------------------------
(* Publication *)

\* Artifacts are only ever added: what an attempt that lost its lease has
\* published stays, whatever its successor does.
LEMMA PublishedGrows ==
    ASSUME TypeOK, JobsInHand, Next
    PROVE  \A r \in Runs : published[r] <= published'[r] /\ published'[r] \in Stages
<1> USE BudgetAssumption DEF TypeOK, JobsInHand, Stages
<1>1. ASSUME NEW w \in Workers, Publish(w)
      PROVE \A r \in Runs : published[r] <= published'[r] /\ published'[r] \in Stages
  BY <1>1 DEF Publish
<1>2. CASE published' = published
  BY <1>2
<1> QED
  BY <1>1, <1>2 DEF Next, Begin, Rollback, CommitTraining, CommitPrediction, CommitStudy,
     RepairEnds, SessionLost, SessionRecovered, EndsByAssessment, Reopen,
     Cancel, Lapse, ClaimPreparation, Prepares, Assess, RequestRepair, Release,
     Promote, PreparationFails, ClaimTraining, ClaimPrediction, ClaimNext, Complete, Fail,
     Report, Crash

\* A worker counts a stage when it is published, and a run completes only when
\* its worker has counted them all.
LEMMA NextPublishedFirst ==
    ASSUME TypeOK, JobsInHand, PublishedFirst, Next, \A r \in Runs : RowMove(r)
    PROVE  PublishedFirst'
<1> USE BudgetAssumption DEF TypeOK, JobsInHand, PublishedFirst, Stages
<1>1. \A r \in Runs : status'[r] = "completed" => published'[r] = LastStage
  <2> SUFFICES ASSUME NEW r \in Runs, status'[r] = "completed"
               PROVE  published'[r] = LastStage
    OBVIOUS
  <2>1. RowMove(r)
    OBVIOUS
  <2>2. published[r] = LastStage
    BY <2>1 DEF RowMove, Moves
  <2> QED BY <2>2, PublishedGrows
<1>2. ASSUME NEW w \in Workers, pc'[w] = "run" PROVE stage'[w] <= published'[job'[w]]
  <2>1. CASE pc[w] = "run" /\ job'[w] = job[w] /\ stage'[w] = stage[w]
    <3>1. job[w] \in Runs /\ stage[w] <= published[job[w]]
      BY <2>1
    <3>2. published[job[w]] <= published'[job[w]] /\ published'[job[w]] \in Stages
      BY <3>1, PublishedGrows
    <3> QED BY <2>1, <3>1, <3>2
  <2>2. ASSUME Publish(w) PROVE stage'[w] <= published'[job'[w]]
    BY <2>2 DEF Publish
  <2>3. ASSUME NEW S \in SUBSET Runs, ClaimNext(w, S)
        PROVE  stage'[w] <= published'[job'[w]]
    <3>1. pc[w] = "idle" /\ stage' = stage
      BY <2>3 DEF ClaimNext
    <3>2. \E r \in S : job' = [job EXCEPT ![w] = r]
      BY <1>2, <2>3, <3>1 DEF ClaimNext
    <3>3. stage'[w] = 0 /\ job'[w] \in Runs
      BY <3>1, <3>2
    <3> QED BY <3>3, PublishedGrows
  <2>4. ASSUME NEW v \in Workers,
               \/ ClaimPreparation(v) \/ Assess(v) \/ RequestRepair(v) \/ Release(v)
               \/ Promote(v) \/ PreparationFails(v) \/ Complete(v) \/ Fail(v) \/ Crash(v)
               \/ v # w /\ (Publish(v) \/ ClaimTraining(v) \/ ClaimPrediction(v))
        PROVE  pc[w] = "run" /\ job'[w] = job[w] /\ stage'[w] = stage[w]
    <3>1. CASE v # w
      BY <1>2, <2>4, <3>1 DEF ClaimPreparation, Assess, RequestRepair, Release, Promote,
         PreparationFails, FailWaiting, Leave, Complete, Fail, Report, Crash, Publish,
         ClaimTraining, ClaimPrediction, ClaimNext, Goto
    <3>2. CASE v = w
      BY <1>2, <2>4, <3>2 DEF ClaimPreparation, Assess, RequestRepair, Release, Promote,
         PreparationFails, FailWaiting, Leave, Complete, Fail, Report, Crash, Goto
    <3> QED BY <3>1, <3>2
  <2>5. ASSUME UNCHANGED proc
        PROVE  pc[w] = "run" /\ job'[w] = job[w] /\ stage'[w] = stage[w]
    BY <1>2, <2>5 DEF proc
  <2>6. ASSUME ~ \E v \in Workers :
                   \/ ClaimPreparation(v) \/ Prepares(v) \/ PreparationFails(v)
                   \/ ClaimTraining(v) \/ ClaimPrediction(v)
                   \/ Publish(v) \/ Complete(v) \/ Fail(v) \/ Crash(v)
        PROVE  UNCHANGED proc
    BY <2>6 DEF Next, Begin, Rollback, CommitTraining, CommitPrediction, CommitStudy,
       RepairEnds, SessionLost, SessionRecovered, EndsByAssessment, Reopen, Cancel, Lapse
  <2>7. Trainings \in SUBSET Runs /\ Predictions \in SUBSET Runs
    BY DEF Runs
  <2> QED
    BY <2>1, <2>2, <2>3, <2>4, <2>5, <2>6, <2>7 DEF Prepares, ClaimTraining, ClaimPrediction
<1> QED BY <1>1, <1>2

----------------------------------------------------------------------------
(* The theorems *)

\* The initial state satisfies every part.
LEMMA InitIInv == Init => IInv
<1> SUFFICES ASSUME Init PROVE IInv
  OBVIOUS
<1> USE BudgetAssumption DEF Init
<1>1. TypeOK
  BY DEF TypeOK, Repairs, Status, Stages, PC
<1>2. JobsInHand /\ BudgetLeft /\ FrozenRows /\ PublishedFirst
  BY DEF JobsInHand, BudgetLeft, FrozenRows, PublishedFirst, Runs, Preparing
<1>3. LockKeepsDecision /\ StudyAtRest /\ ActiveAgree
  BY DEF LockKeepsDecision, StudyAtRest, ActiveAgree, Active, Runs
<1> QED BY <1>1, <1>2, <1>3 DEF IInv

\* Every step keeps every part.
LEMMA NextIInv == IInv /\ [Next]_vars => IInv'
<1> SUFFICES ASSUME IInv, [Next]_vars PROVE IInv'
  OBVIOUS
<1>1. CASE Next
  <2> USE <1>1 DEF IInv
  <2>1. \A r \in Runs : RowMove(r)
    BY EveryMove
  <2>2. TypeOK' /\ JobsInHand'
    BY NextTypeOK, NextJobsInHand
  <2>3. BudgetLeft' /\ FrozenRows'
    BY <2>1, <2>2, NextBudgetLeft, NextFrozenRows
  <2>4. LockKeepsDecision' /\ StudyAtRest' /\ ActiveAgree'
    BY NextLockKeepsDecision, NextStudyAtRest, NextActiveAgree
  <2>5. PublishedFirst'
    BY <2>1, NextPublishedFirst
  <2> QED BY <2>2, <2>3, <2>4, <2>5
<1>2. CASE UNCHANGED vars
  BY <1>2 DEF vars, IInv, TypeOK, JobsInHand, BudgetLeft, LockKeepsDecision, StudyAtRest,
     HasActive, HasHistory, ActiveRuns, Executed, ActiveAgree, FrozenRows, PublishedFirst
<1> QED BY <1>1, <1>2

\* Every reachable state satisfies the combined invariant.
LEMMA Invariance == Spec => []IInv
  BY InitIInv, NextIInv, PTL DEF Spec

\* The study, its runs and the workers keep their types.
THEOREM TypeCorrect == Spec => []TypeOK
<1>1. IInv => TypeOK
  BY DEF IInv
<1> QED BY <1>1, Invariance, PTL

\* However submissions, archiving, restoring and deletion race, nothing is
\* active for a study that is not validated, and a deleted study has no runs.
THEOREM ArchivedIsAtRest == Spec => []StudyAtRest
<1>1. IInv => StudyAtRest
  BY DEF IInv
<1> QED BY <1>1, Invariance, PTL

\* Any number of equivalent submissions leave one active training run.
THEOREM SubmissionsConverge == Spec => []OneActiveRun
<1>1. IInv => OneActiveRun
  <2> SUFFICES ASSUME IInv PROVE OneActiveRun
    OBVIOUS
  <2> DEFINE S == Trainings \cap ActiveRuns
  <2>1. \A t, u \in S : t = u
    BY DEF IInv, ActiveAgree, ActiveRuns
  <2>2. CASE S = {}
    BY <2>2, FS_EmptySet DEF OneActiveRun
  <2>3. ASSUME NEW t \in S PROVE OneActiveRun
    <3>1. S = {t}
      BY <2>1
    <3>2. Cardinality({t}) = 1
      BY FS_Singleton
    <3> QED BY <3>1, <3>2 DEF OneActiveRun
  <2> QED BY <2>2, <2>3
<1> QED BY <1>1, Invariance, PTL

\* Both queues move every run along the lifecycle of a business Job from the
\* moment its input is frozen: bounded attempts, terminal for good, and
\* completed only with every Artifact published.
THEOREM ImplementsLifecycle == Spec => LifecycleSpec
<1> DEFINE seen(r) == IF r \in Predictions \cup prepared THEN status[r] ELSE "absent"
           done(r) == status[r] = "completed" /\ published[r] = LastStage
<1>1. Init => Life!Init
  <2> SUFFICES ASSUME Init PROVE Life!Init
    OBVIOUS
  <2>1. \A r \in Runs : seen(r) = "absent" /\ done(r) = FALSE /\ attempts[r] = 0
    BY DEF Init
  <2>2. attempts \in [Runs -> 0..MaxAttempts]
    BY BudgetAssumption DEF Init
  <2> QED BY <2>1, <2>2 DEF Life!Init
<1>2. IInv /\ [Next]_vars => [Life!Next]_(Life!vars)
  <2> SUFFICES ASSUME IInv, Next PROVE Life!Next
    BY DEF vars, Life!vars
  <2> USE DEF IInv
  <2>1. \A r \in Runs : RowMove(r)
    BY EveryMove
  <2>2. PublishedFirst'
    BY <2>1, NextPublishedFirst
  <2> SUFFICES ASSUME NEW r \in Runs PROVE Life!JobStep(r)
    BY DEF Life!Next
  <2>3. /\ done(r) <=> status[r] = "completed"
        /\ done(r)' <=> status'[r] = "completed"
    BY <2>2 DEF PublishedFirst
  <2>4. CASE r \notin Predictions /\ r \notin prepared'
    <3>1. r \in Trainings \ prepared /\ status'[r] # "completed" /\ attempts'[r] = attempts[r]
      BY <2>1, <2>4 DEF RowMove, Moves, FrozenRows, Runs
    <3> QED
      BY <2>3, <2>4, <3>1 DEF Life!JobStep, Life!Stay, Life!Becomes, FrozenRows
  <2>5. CASE r \in Predictions \cup prepared'
    <3>1. CASE r \notin Predictions \cup prepared
      <4>1. status'[r] = "queued" /\ attempts'[r] = attempts[r]
        BY <2>1, <2>5, <3>1 DEF RowMove, Moves, Runs
      <4> QED BY <2>3, <2>5, <3>1, <4>1, NextTypeOK
          DEF Life!JobStep, Life!Submit, Life!Becomes, FrozenRows, Runs
    <3>2. CASE r \in Predictions \cup prepared
      <4> USE <2>3, <2>5, <3>2 DEF Life!Becomes
      <4>1. status[r] # "waiting_for_data" /\ attempts[r] \in Nat
        BY BudgetAssumption DEF FrozenRows, TypeOK
      <4>2. CASE status'[r] = status[r] /\ attempts'[r] = attempts[r]
        BY <4>2 DEF Life!JobStep, Life!Stay
      <4>3. CASE status[r] = "absent" /\ status'[r] = "queued" /\ attempts'[r] = attempts[r]
        BY <4>3 DEF Life!JobStep, Life!Submit
      <4>4. CASE status[r] = "queued" /\ status'[r] = "cancelled" /\ attempts'[r] = attempts[r]
        BY <4>4 DEF Life!JobStep, Life!Withdraw, Life!Active
      <4>5. CASE /\ status[r] \in {"queued", "running"} /\ attempts[r] < MaxAttempts
                 /\ status'[r] = "running" /\ attempts'[r] = attempts[r] + 1
        BY <4>5 DEF Life!JobStep, Life!Start, Life!Active
      <4>6. CASE /\ status[r] = "running" /\ attempts[r] < MaxAttempts
                 /\ status'[r] = "queued" /\ attempts'[r] = attempts[r]
        BY <4>6 DEF Life!JobStep, Life!Retry
      <4>7. CASE status[r] = "running" /\ status'[r] = "failed" /\ attempts'[r] = attempts[r]
        BY <4>7 DEF Life!JobStep, Life!GiveUp, Life!Active, BudgetLeft
      <4>8. CASE status[r] = "running" /\ status'[r] = "completed" /\ attempts'[r] = attempts[r]
        BY <4>8 DEF Life!JobStep, Life!Succeed
      <4>9. CASE status[r] = "absent" /\ r \in Trainings
        BY <3>2, <4>9, RunsAssumption DEF FrozenRows
      <4> QED
        BY <2>1, <4>1, <4>2, <4>3, <4>4, <4>5, <4>6, <4>7, <4>8, <4>9 DEF RowMove, Moves
    <3> QED BY <3>1, <3>2
  <2> QED BY <2>4, <2>5
<1> QED BY <1>1, <1>2, Invariance, PTL DEF Spec, LifecycleSpec, Life!Spec
=============================================================================
