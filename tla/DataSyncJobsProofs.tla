------------------------- MODULE DataSyncJobsProofs -------------------------
(***************************************************************************)
(* Proofs about DataSyncJobs, the market-data sync queue, for every number *)
(* of jobs, symbols, workers and attempts.                                 *)
(***************************************************************************)
EXTENDS DataSyncJobs, TLAPS

----------------------------------------------------------------------------
(* The inductive invariant *)

InHand == {"fetched", "current", "refused"}

\* A busy worker has a job and a token of it that was really given; a symbol in
\* hand is one it still has to record.
Claims ==
    \A w \in Workers :
      /\ pc[w] # "idle" => job[w] \in Jobs /\ claim[w] \in 1..attempts[job[w]]
      /\ pc[w] \in InHand => symbol[w] \in Symbols /\ mine[w][symbol[w]] = "open"

\* A running row carries the token of its last attempt, any other row none, and
\* a row is only attempted once it runs.
Tokens ==
    \A j \in Jobs :
      /\ status[j] = "running" => token[j] = attempts[j] /\ attempts[j] > 0
      /\ status[j] # "running" => token[j] = 0
      /\ status[j] \in {"absent", "queued"} => attempts[j] = 0

\* No two workers were given the same token of a job.
TokensDiffer ==
    \A v, w \in Workers :
      pc[v] # "idle" /\ pc[w] # "idle" /\ job[v] = job[w] /\ claim[v] = claim[w] => v = w

\* The holder of the current token knows the checkpoints; only an import whose
\* answer was lost is recorded without its knowledge.
HolderKnows ==
    \A w \in Workers : pc[w] # "idle" /\ token[job[w]] = claim[w] =>
      /\ pc[w] # "refused" => mine[w] = results[job[w]]
      /\ pc[w] = "refused" => \A s \in Symbols \ {symbol[w]} : mine[w][s] = results[job[w]][s]

\* An import leaves its checkpoint, and there is one import at most.
ImportsMarked ==
    \A j \in Jobs, s \in Symbols :
      /\ imports[j][s] <= 1
      /\ imports[j][s] > 0 => results[j][s] # "open"

\* A symbol found current is in the market tables.
CurrentStored == \A w \in Workers : pc[w] = "current" => symbol[w] \in market

IInv ==
    /\ TypeOK
    /\ Claims
    /\ Tokens
    /\ TokensDiffer
    /\ HolderKnows
    /\ ImportsMarked
    /\ CurrentStored
    /\ ReportedIsStored

----------------------------------------------------------------------------
(* One claim *)

\* The rows one claim touches: at most one each, waiting, and never the same.
LEMMA ClaimRows ==
    ASSUME TypeOK, NEW w \in Workers,
           NEW E \in OneOf(Exhausted(w)), NEW C \in OneOf(Claimable(w))
    PROVE  /\ E \subseteq Jobs /\ C \subseteq Jobs /\ E \cap C = {}
           /\ \A j \in E : status[j] \in {"queued", "running"} /\ attempts[j] >= MaxAttempts
           /\ \A j \in C : status[j] \in {"queued", "running"} /\ attempts[j] < MaxAttempts
           /\ \A j, k \in C : j = k
<1>1. E \subseteq Exhausted(w) /\ C \subseteq Claimable(w) /\ \A j, k \in C : j = k
  BY DEF OneOf
<1>2. Exhausted(w) \cap Claimable(w) = {}
  BY MaxAttemptsAssumption DEF Exhausted, Claimable, TypeOK
<1> QED BY <1>1, <1>2 DEF Exhausted, Claimable, Waiting

\* What claim_next_job writes, row by row, and what the worker gets.
Claimed(w, E, C) ==
    /\ E \cup C # {}
    /\ status' = [j \in Jobs |-> IF j \in C THEN "running"
                                 ELSE IF j \in E THEN "failed" ELSE status[j]]
    /\ attempts' = [j \in Jobs |-> IF j \in C THEN attempts[j] + 1 ELSE attempts[j]]
    /\ token' = [j \in Jobs |-> IF j \in C THEN attempts[j] + 1
                                ELSE IF j \in E THEN 0 ELSE token[j]]
    /\ lapsed' = [j \in Jobs |-> IF j \in E \cup C THEN {} ELSE lapsed[j]]
    /\ \/ C = {} /\ UNCHANGED proc
       \/ \E j \in C :
            /\ pc' = [pc EXCEPT ![w] = "claimed"]
            /\ job' = [job EXCEPT ![w] = j]
            /\ claim' = [claim EXCEPT ![w] = attempts[j] + 1]
            /\ mine' = [mine EXCEPT ![w] = results[j]]
            /\ UNCHANGED symbol
    /\ UNCHANGED <<results, market, imports>>

\* A claim is Claimed for a set of rows given up and a set of at most one row
\* started, all of them waiting.
LEMMA ClaimedRows ==
    ASSUME TypeOK, NEW w \in Workers, ClaimNextJob(w)
    PROVE  \E E \in SUBSET Jobs, C \in SUBSET Jobs :
             /\ Claimed(w, E, C) /\ pc[w] = "idle"
             /\ E \cap C = {}
             /\ \A j \in E : status[j] \in {"queued", "running"} /\ attempts[j] >= MaxAttempts
             /\ \A j \in C : status[j] \in {"queued", "running"} /\ attempts[j] < MaxAttempts
             /\ \A j, k \in C : j = k
<1>1. PICK E \in OneOf(Exhausted(w)), C \in OneOf(Claimable(w)) : Claimed(w, E, C)
  BY DEF ClaimNextJob, Claimed, Checkpoints, data
<1> QED BY <1>1, ClaimRows DEF ClaimNextJob

----------------------------------------------------------------------------
(* Types *)

\* The initial tables and workers have their types.
LEMMA InitTypeOK == Init => TypeOK
<1> SUFFICES ASSUME Init PROVE TypeOK
  OBVIOUS
<1>1. NoResult \in Results
  BY DEF NoResult, Results
<1> QED BY <1>1, MaxAttemptsAssumption DEF Init, TypeOK, Status, PC

\* A checkpoint written by a worker is a set of results, and its job's row and
\* the worker keep their types.
LEMMA ProgressTypes ==
    ASSUME TypeOK, Claims, NEW w \in Workers, pc[w] \in InHand,
           NEW outcome \in {"completed", "failed"}, SetProgress(w, outcome)
    PROVE  /\ results' \in [Jobs -> Results] /\ lapsed' \in [Jobs -> SUBSET Workers]
           /\ pc' \in [Workers -> PC] /\ mine' \in [Workers -> Results]
           /\ symbol' \in [Workers -> Symbols \cup {None}]
           /\ UNCHANGED <<status, attempts, token, job, claim>>
<1>1. [mine[w] EXCEPT ![symbol[w]] = outcome] \in Results
  BY DEF TypeOK, Results, Claims
<1> QED BY <1>1 DEF TypeOK, SetProgress, Goto, PC

\* A worker that ends its attempt keeps its types.
LEMMA IdleTypes ==
    ASSUME TypeOK, NEW w \in Workers, Idle(w)
    PROVE  /\ pc' \in [Workers -> PC] /\ job' \in [Workers -> Jobs \cup {None}]
           /\ claim' \in [Workers -> 0..MaxAttempts] /\ mine' \in [Workers -> Results]
           /\ symbol' \in [Workers -> Symbols \cup {None}]
<1>1. NoResult \in Results
  BY DEF NoResult, Results
<1> QED BY <1>1, MaxAttemptsAssumption DEF TypeOK, Idle, Goto, PC

\* An import leaves the market tables and the count of imports in their types.
LEMMA ImportTypes ==
    ASSUME TypeOK, Claims, NEW w \in Workers, pc[w] \in InHand,
           market' = market \cup {symbol[w]},
           imports' = [imports EXCEPT ![job[w]][symbol[w]] = @ + 1]
    PROVE  market' \subseteq Symbols /\ imports' \in [Jobs -> [Symbols -> Nat]]
  BY DEF TypeOK, Claims, InHand

\* The rows, the market tables and the workers keep their types: a claim never
\* counts past MAX_JOB_ATTEMPTS.
LEMMA NextTypeOK == TypeOK /\ Claims /\ Next => TypeOK'
<1> SUFFICES ASSUME TypeOK, Claims, Next PROVE TypeOK'
  OBVIOUS
<1> USE MaxAttemptsAssumption DEF TypeOK, row, data, proc
<1>1. ASSUME NEW j \in Jobs, CreateJob(j) PROVE TypeOK'
  BY <1>1 DEF CreateJob, Status
<1>2. ASSUME NEW w \in Workers, ClaimNextJob(w) PROVE TypeOK'
  <2>1. PICK E \in SUBSET Jobs, C \in SUBSET Jobs :
          /\ Claimed(w, E, C)
          /\ \A j \in C : attempts[j] < MaxAttempts
    BY <1>2, ClaimedRows
  <2>2. /\ status' \in [Jobs -> Status] /\ lapsed' \in [Jobs -> SUBSET Workers]
        /\ attempts' \in [Jobs -> 0..MaxAttempts] /\ token' \in [Jobs -> 0..MaxAttempts]
    BY <2>1 DEF Claimed, Status, Terminal
  <2>3. /\ pc' \in [Workers -> PC] /\ job' \in [Workers -> Jobs \cup {None}]
        /\ claim' \in [Workers -> 0..MaxAttempts] /\ mine' \in [Workers -> Results]
        /\ symbol' = symbol
    <3>1. CASE UNCHANGED proc
      BY <3>1
    <3>2. ASSUME NEW j \in C,
                 pc' = [pc EXCEPT ![w] = "claimed"],
                 job' = [job EXCEPT ![w] = j],
                 claim' = [claim EXCEPT ![w] = attempts[j] + 1],
                 mine' = [mine EXCEPT ![w] = results[j]],
                 UNCHANGED symbol
          PROVE  /\ pc' \in [Workers -> PC] /\ job' \in [Workers -> Jobs \cup {None}]
                 /\ claim' \in [Workers -> 0..MaxAttempts] /\ mine' \in [Workers -> Results]
                 /\ symbol' = symbol
      <4>1. attempts[j] + 1 \in 0..MaxAttempts
        BY <2>1
      <4> QED BY <3>2, <4>1 DEF PC
    <3> QED BY <2>1, <3>1, <3>2 DEF Claimed
  <2> QED BY <2>1, <2>2, <2>3 DEF Claimed
<1>3. ASSUME NEW w \in Workers, OpenProvider(w) \/ FetchSymbol(w) PROVE TypeOK'
  <2>1. CASE OpenProvider(w)
    BY <2>1 DEF OpenProvider, Pending, Goto, PC
  <2>2. CASE FetchSymbol(w)
    BY <2>2 DEF FetchSymbol, Pending, Goto, PC
  <2> QED BY <1>3, <2>1, <2>2
<1>4. ASSUME NEW w \in Workers, ImportSymbol(w) PROVE TypeOK'
  <2>1. CASE LiveClaim(w)
    BY <1>4, <2>1, ProgressTypes, ImportTypes DEF ImportSymbol, InHand
  <2>2. CASE ~LiveClaim(w)
    BY <1>4, <2>2, IdleTypes DEF ImportSymbol, LeaseLost
  <2> QED BY <2>1, <2>2
<1>5. ASSUME NEW w \in Workers, CheckpointFails(w) PROVE TypeOK'
  <2>1. pc[w] \in InHand /\ symbol[w] \in Symbols
    BY <1>5 DEF CheckpointFails, InHand, Claims
  <2>2. /\ pc' \in [Workers -> PC] /\ symbol' \in [Workers -> Symbols \cup {None}]
        /\ UNCHANGED <<job, claim, mine>>
    BY <1>5, <2>1 DEF CheckpointFails, Goto, PC
  <2>3. market' \subseteq Symbols /\ imports' \in [Jobs -> [Symbols -> Nat]]
    <3>1. CASE UNCHANGED data
      BY <3>1
    <3>2. CASE /\ market' = market \cup {symbol[w]}
               /\ imports' = [imports EXCEPT ![job[w]][symbol[w]] = @ + 1]
      BY <2>1, <3>2, ImportTypes
    <3> QED BY <1>5, <3>1, <3>2 DEF CheckpointFails
  <2>4. [mine[w] EXCEPT ![symbol[w]] = "completed"] \in Results
    BY <2>1 DEF Results
  <2>5. /\ results' \in [Jobs -> Results] /\ lapsed' \in [Jobs -> SUBSET Workers]
        /\ UNCHANGED <<status, attempts, token>>
    <3>1. CASE UNCHANGED row
      BY <3>1
    <3>2. CASE /\ results' = [results EXCEPT ![job[w]] =
                                [mine[w] EXCEPT ![symbol[w]] = "completed"]]
               /\ lapsed' = [lapsed EXCEPT ![job[w]] = {}]
               /\ UNCHANGED <<status, attempts, token>>
      BY <2>4, <3>2
    <3> QED BY <1>5, <3>1, <3>2 DEF CheckpointFails
  <2> QED BY <2>2, <2>3, <2>5
<1>6. ASSUME NEW w \in Workers, RecordSymbol(w) PROVE TypeOK'
  <2>1. CASE LiveClaim(w)
    <3>1. pc[w] \in InHand /\ \E outcome \in {"completed", "failed"} : SetProgress(w, outcome)
      BY <1>6, <2>1 DEF RecordSymbol, InHand
    <3> QED BY <1>6, <3>1, ProgressTypes DEF RecordSymbol
  <2>2. CASE ~LiveClaim(w)
    BY <1>6, <2>2, IdleTypes DEF RecordSymbol, LeaseLost
  <2> QED BY <2>1, <2>2
<1>7. ASSUME NEW w \in Workers, NEW outcome \in Terminal, FinishAs(w, outcome) PROVE TypeOK'
  <2>1. CASE LiveClaim(w)
    <3>1. Idle(w) /\ UNCHANGED data /\ UNCHANGED attempts
      BY <1>7, <2>1 DEF FinishAs
    <3>2. outcome \in Status /\ 0 \in 0..MaxAttempts
      BY <1>7 DEF Status
    <3>3. status' \in [Jobs -> Status] /\ token' \in [Jobs -> 0..MaxAttempts]
      BY <1>7, <2>1, <3>2, ZenonT(30) DEF FinishAs
    <3>4. lapsed' \in [Jobs -> SUBSET Workers] /\ results' \in [Jobs -> Results]
      BY <1>7, <2>1, SMTT(30) DEF FinishAs
    <3> QED BY <3>1, <3>3, <3>4, IdleTypes
  <2>2. CASE ~LiveClaim(w)
    BY <1>7, <2>2, IdleTypes DEF FinishAs
  <2> QED BY <2>1, <2>2
<1>8. ASSUME NEW w \in Workers, NoProvider(w) \/ Finish(w) PROVE TypeOK'
  BY <1>7, <1>8 DEF NoProvider, Finish, Verdict, Terminal
<1>9. ASSUME NEW w \in Workers, Crash(w) PROVE TypeOK'
  BY <1>9, IdleTypes DEF Crash
<1>10. ASSUME NEW w \in Workers, NEW j \in Jobs, Lapse(w, j) PROVE TypeOK'
  BY <1>10 DEF Lapse
<1> QED
  BY <1>1, <1>2, <1>3, <1>4, <1>5, <1>6, <1>8, <1>9, <1>10 DEF Next, WorkerStep

----------------------------------------------------------------------------
(***************************************************************************)
(* The kinds of step.  What the actions of a worker do to its job depends   *)
(* on its fence: with a live claim it records a symbol, with or without     *)
(* hearing of it, or finishes the job; without one it only ends its own     *)
(* attempt.                                                                 *)
(***************************************************************************)

Imported(w) ==
    /\ market' = market \cup {symbol[w]}
    /\ imports' = [imports EXCEPT ![job[w]][symbol[w]] = @ + 1]

\* The fence as the proofs use it, without the clock.
Holder(w) == status[job[w]] = "running" /\ token[job[w]] = claim[w]

Recorded(w, outcome) ==
    /\ pc[w] \in InHand /\ Holder(w)
    /\ SetProgress(w, outcome)
    /\ \/ pc[w] = "fetched" /\ outcome = "completed" /\ Imported(w)
       \/ pc[w] = "current" /\ outcome = "completed" /\ UNCHANGED data
       \/ pc[w] = "refused" /\ outcome = "failed" /\ UNCHANGED data

Unheard(w) ==
    /\ pc[w] \in {"fetched", "current"} /\ Holder(w)
    /\ IF pc[w] = "fetched" THEN Imported(w) ELSE UNCHANGED data
    /\ results' = [results EXCEPT ![job[w]] = [mine[w] EXCEPT ![symbol[w]] = "completed"]]
    /\ Goto(w, "refused", symbol[w])
    /\ UNCHANGED <<status, attempts, token, job, claim, mine>>

RolledBack(w) ==
    /\ pc[w] \in {"fetched", "current"}
    /\ Goto(w, "refused", symbol[w])
    /\ UNCHANGED <<row, data, job, claim, mine>>

Finished(w, outcome) ==
    /\ pc[w] \in {"claimed", "working"} /\ Holder(w)
    /\ outcome # "failed" => Pending(w) = {} /\ outcome = Verdict(w)
    /\ status' = [status EXCEPT ![job[w]] = outcome]
    /\ token' = [token EXCEPT ![job[w]] = 0]
    /\ results' = [results EXCEPT ![job[w]] = mine[w]]
    /\ Idle(w)
    /\ UNCHANGED <<attempts, data>>

Ended(w) == Idle(w) /\ UNCHANGED <<row, data>>

LeaseOnly == UNCHANGED <<status, attempts, token, results, data, proc>>

StepKind ==
    \/ \E j \in Jobs : CreateJob(j)
    \/ LeaseOnly
    \/ \E w \in Workers :
         \/ ClaimNextJob(w) \/ OpenProvider(w) \/ FetchSymbol(w)
         \/ (\E outcome \in {"completed", "failed"} : Recorded(w, outcome))
         \/ Unheard(w) \/ RolledBack(w)
         \/ (\E outcome \in Terminal : Finished(w, outcome))
         \/ Ended(w)

\* Every step is of one of these kinds.
LEMMA EveryKind == Next => StepKind
<1> SUFFICES ASSUME Next PROVE StepKind
  OBVIOUS
<1>1. ASSUME NEW w \in Workers, NEW j \in Jobs, Lapse(w, j) PROVE LeaseOnly
  BY <1>1 DEF Lapse, LeaseOnly
<1>2. ASSUME NEW w \in Workers, ImportSymbol(w)
      PROVE Recorded(w, "completed") \/ Ended(w)
  BY <1>2 DEF ImportSymbol, Recorded, Ended, Imported, Holder, LiveClaim, LeaseLost, InHand
<1>3. ASSUME NEW w \in Workers, RecordSymbol(w)
      PROVE Recorded(w, "completed") \/ Recorded(w, "failed") \/ Ended(w)
  BY <1>3 DEF RecordSymbol, Recorded, Ended, Holder, LiveClaim, LeaseLost, InHand
<1>4. ASSUME NEW w \in Workers, CheckpointFails(w) PROVE Unheard(w) \/ RolledBack(w)
  BY <1>4 DEF CheckpointFails, Unheard, RolledBack, Imported, Holder, LiveClaim
<1>5. ASSUME NEW w \in Workers, NoProvider(w) PROVE Finished(w, "failed") \/ Ended(w)
  <2>1. CASE LiveClaim(w)
    <3>1. pc[w] = "claimed" /\ FinishAs(w, "failed") /\ Holder(w)
      BY <1>5, <2>1 DEF NoProvider, Holder, LiveClaim
    <3>2. pc[w] \in {"claimed", "working"}
      BY <3>1
    <3> QED BY <2>1, <3>1, <3>2 DEF FinishAs, Finished
  <2>2. CASE ~LiveClaim(w)
    BY <1>5, <2>2 DEF NoProvider, FinishAs, Ended
  <2> QED BY <2>1, <2>2
<1>6. ASSUME NEW w \in Workers, Finish(w) PROVE Finished(w, Verdict(w)) \/ Ended(w)
  BY <1>6 DEF Finish, FinishAs, Finished, Ended, Holder, LiveClaim
<1>7. \A w \in Workers : Verdict(w) \in Terminal
  BY DEF Verdict, Terminal
<1>8. ASSUME NEW w \in Workers, Crash(w) PROVE Ended(w)
  BY <1>8 DEF Crash, Ended
<1> QED
  BY <1>1, <1>2, <1>3, <1>4, <1>5, <1>6, <1>7, <1>8 DEF Next, WorkerStep, StepKind, Terminal

----------------------------------------------------------------------------
(* Claims and tokens *)

\* A worker's token was given to it by a claim that started an attempt, and the
\* symbol it fetched is one it has not recorded.
LEMMA NextClaims == TypeOK /\ Claims /\ StepKind => Claims'
<1> SUFFICES ASSUME TypeOK, Claims, StepKind PROVE Claims'
  OBVIOUS
<1> USE MaxAttemptsAssumption DEF TypeOK, Claims, InHand
<1>1. ASSUME NEW j \in Jobs, CreateJob(j) PROVE Claims'
  BY <1>1 DEF CreateJob, proc
<1>2. CASE LeaseOnly
  BY <1>2 DEF LeaseOnly, proc
<1>3. ASSUME NEW w \in Workers, ClaimNextJob(w) PROVE Claims'
  <2>1. PICK E \in SUBSET Jobs, C \in SUBSET Jobs : Claimed(w, E, C)
    BY <1>3, ClaimedRows
  <2>2. \A j \in Jobs : attempts[j] \in Nat /\ attempts'[j] \in {attempts[j], attempts[j] + 1}
    BY <2>1 DEF Claimed
  <2>3. \A v \in Workers \ {w} : /\ pc'[v] = pc[v] /\ job'[v] = job[v] /\ claim'[v] = claim[v]
                                 /\ symbol'[v] = symbol[v] /\ mine'[v] = mine[v]
    BY <2>1 DEF Claimed, proc
  <2>4. CASE C = {}
    BY <2>1, <2>4 DEF Claimed, proc
  <2>5. CASE C # {}
    <3>1. PICK j \in C : /\ pc'[w] = "claimed" /\ job'[w] = j /\ claim'[w] = attempts[j] + 1
                         /\ attempts'[j] = attempts[j] + 1
      BY <2>1, <2>5 DEF Claimed
    <3> QED BY <2>2, <2>3, <3>1, SMTT(30)
  <2> QED BY <2>4, <2>5
<1>4. ASSUME NEW w \in Workers, OpenProvider(w) \/ FetchSymbol(w) PROVE Claims'
  BY <1>4 DEF OpenProvider, FetchSymbol, Goto, Pending, row
<1>5. ASSUME NEW w \in Workers, NEW outcome, Recorded(w, outcome) PROVE Claims'
  BY <1>5 DEF Recorded, SetProgress, Goto
<1>6. ASSUME NEW w \in Workers, Unheard(w) \/ RolledBack(w) PROVE Claims'
  BY <1>6 DEF Unheard, RolledBack, Goto, row
<1>7. ASSUME NEW w \in Workers, NEW outcome, Finished(w, outcome) PROVE Claims'
  BY <1>7 DEF Finished, Idle, Goto
<1>8. ASSUME NEW w \in Workers, Ended(w) PROVE Claims'
  BY <1>8 DEF Ended, Idle, Goto, row
<1> QED BY <1>1, <1>2, <1>3, <1>4, <1>5, <1>6, <1>7, <1>8 DEF StepKind

\* A row's token is the number of its running attempt.
LEMMA NextTokens == TypeOK /\ Claims /\ Tokens /\ StepKind => Tokens'
<1> SUFFICES ASSUME TypeOK, Claims, Tokens, StepKind PROVE Tokens'
  OBVIOUS
<1> USE MaxAttemptsAssumption DEF TypeOK, Tokens
<1>1. ASSUME NEW j \in Jobs, CreateJob(j) PROVE Tokens'
  BY <1>1 DEF CreateJob
<1>2. CASE LeaseOnly
  BY <1>2 DEF LeaseOnly
<1>3. ASSUME NEW w \in Workers, ClaimNextJob(w) PROVE Tokens'
  <2>1. PICK E \in SUBSET Jobs, C \in SUBSET Jobs : Claimed(w, E, C)
    BY <1>3, ClaimedRows
  <2>2. ASSUME NEW j \in Jobs
        PROVE  /\ status'[j] = "running" => token'[j] = attempts'[j] /\ attempts'[j] > 0
               /\ status'[j] # "running" => token'[j] = 0
               /\ status'[j] \in {"absent", "queued"} => attempts'[j] = 0
    BY <2>1 DEF Claimed
  <2> QED BY <2>2
<1>4. ASSUME NEW w \in Workers, OpenProvider(w) \/ FetchSymbol(w) \/ RolledBack(w) \/ Ended(w)
      PROVE Tokens'
  BY <1>4 DEF OpenProvider, FetchSymbol, RolledBack, Ended, row
<1>5. ASSUME NEW w \in Workers, NEW outcome, Recorded(w, outcome) \/ Unheard(w) PROVE Tokens'
  BY <1>5 DEF Recorded, SetProgress, Unheard
<1>6. ASSUME NEW w \in Workers, NEW outcome \in Terminal, Finished(w, outcome) PROVE Tokens'
  BY <1>6 DEF Finished, Holder, Claims, Terminal
<1> QED BY <1>1, <1>2, <1>3, <1>4, <1>5, <1>6 DEF StepKind

\* No token is given twice: a claim's is higher than every one before it.
LEMMA NextTokensDiffer == TypeOK /\ Claims /\ TokensDiffer /\ StepKind => TokensDiffer'
<1> SUFFICES ASSUME TypeOK, Claims, TokensDiffer, StepKind PROVE TokensDiffer'
  OBVIOUS
<1> USE MaxAttemptsAssumption DEF TypeOK, TokensDiffer
<1>1. CASE UNCHANGED proc
  BY <1>1 DEF proc
<1>2. ASSUME NEW w \in Workers, UNCHANGED <<job, claim>>,
             pc[w] # "idle", \A v \in Workers \ {w} : pc'[v] = pc[v]
      PROVE TokensDiffer'
  BY <1>2
<1>3. ASSUME NEW w \in Workers, ClaimNextJob(w) PROVE TokensDiffer'
  <2>1. PICK E \in SUBSET Jobs, C \in SUBSET Jobs : Claimed(w, E, C)
    BY <1>3, ClaimedRows
  <2>2. CASE C = {}
    BY <1>1, <2>1, <2>2 DEF Claimed
  <2>3. CASE C # {}
    <3>1. PICK j \in C : /\ pc'[w] = "claimed" /\ job'[w] = j /\ claim'[w] = attempts[j] + 1
      BY <2>1, <2>3 DEF Claimed
    <3>2. \A v \in Workers \ {w} : pc'[v] = pc[v] /\ job'[v] = job[v] /\ claim'[v] = claim[v]
      BY <2>1 DEF Claimed, proc
    <3>3. \A v \in Workers : pc[v] # "idle" /\ job[v] = j => claim[v] # attempts[j] + 1
      BY DEF Claims
    <3> QED BY <3>1, <3>2, <3>3
  <2> QED BY <2>2, <2>3
<1>4. ASSUME NEW w \in Workers, OpenProvider(w) \/ FetchSymbol(w) \/ RolledBack(w) \/ Unheard(w)
      PROVE TokensDiffer'
  BY <1>2, <1>4 DEF OpenProvider, FetchSymbol, RolledBack, Unheard, Goto
<1>5. ASSUME NEW w \in Workers, NEW outcome, Recorded(w, outcome) PROVE TokensDiffer'
  BY <1>2, <1>5 DEF Recorded, SetProgress, Goto, InHand
<1>6. ASSUME NEW w \in Workers, Idle(w) PROVE TokensDiffer'
  BY <1>6 DEF Idle, Goto
<1> QED
  BY <1>1, <1>3, <1>4, <1>5, <1>6 DEF StepKind, CreateJob, LeaseOnly, Finished, Ended

----------------------------------------------------------------------------
(* Checkpoints *)

\* The holder of a job's token is alone: no other worker's fence is open.
LEMMA HolderAlone ==
    ASSUME TypeOK, Claims, TokensDiffer, NEW v \in Workers, NEW w \in Workers,
           pc[v] # "idle", pc[w] # "idle", Holder(w),
           job[v] = job[w], token[job[v]] = claim[v]
    PROVE  v = w
  BY DEF TokensDiffer, Holder

\* What the holder knows stays true: only the holder writes checkpoints, a new
\* attempt starts from them, and its claim takes the token from the one before.
LEMMA NextHolderKnows ==
    TypeOK /\ Claims /\ Tokens /\ TokensDiffer /\ HolderKnows /\ StepKind => HolderKnows'
<1> SUFFICES ASSUME TypeOK, Claims, Tokens, TokensDiffer, HolderKnows, StepKind
             PROVE  HolderKnows'
  OBVIOUS
<1> USE MaxAttemptsAssumption DEF TypeOK
<1>1. ASSUME NEW j \in Jobs, CreateJob(j) PROVE HolderKnows'
  BY <1>1 DEF CreateJob, HolderKnows, proc
<1>2. CASE LeaseOnly
  BY <1>2 DEF LeaseOnly, HolderKnows, proc
<1>3. ASSUME NEW w \in Workers, ClaimNextJob(w) PROVE HolderKnows'
  <2>1. PICK E \in SUBSET Jobs, C \in SUBSET Jobs : Claimed(w, E, C)
    BY <1>3, ClaimedRows
  <2>2. ASSUME NEW v \in Workers, v # w \/ C = {}, pc'[v] # "idle", token'[job'[v]] = claim'[v]
        PROVE  /\ pc'[v] # "refused" => mine'[v] = results'[job'[v]]
               /\ pc'[v] = "refused" =>
                    \A s \in Symbols \ {symbol'[v]} : mine'[v][s] = results'[job'[v]][s]
    <3>1. /\ pc'[v] = pc[v] /\ job'[v] = job[v] /\ claim'[v] = claim[v]
          /\ mine'[v] = mine[v] /\ symbol'[v] = symbol[v] /\ results' = results
      BY <2>1, <2>2 DEF Claimed, proc
    <3>2. job[v] \in Jobs /\ claim[v] \in 1..attempts[job[v]]
      BY <2>2, <3>1 DEF Claims
    <3>3. job[v] \notin C /\ job[v] \notin E
      BY <2>1, <2>2, <3>1, <3>2 DEF Claimed
    <3>4. token[job[v]] = claim[v]
      BY <2>1, <2>2, <3>1, <3>2, <3>3 DEF Claimed
    <3> QED BY <2>2, <3>1, <3>4 DEF HolderKnows
  <2>3. ASSUME C # {}
        PROVE  pc'[w] = "claimed" /\ mine'[w] = results'[job'[w]]
    BY <2>1, <2>3 DEF Claimed
  <2> QED BY <2>2, <2>3 DEF HolderKnows
<1>4. ASSUME NEW w \in Workers, OpenProvider(w) \/ FetchSymbol(w) \/ RolledBack(w)
      PROVE HolderKnows'
  BY <1>4 DEF OpenProvider, FetchSymbol, RolledBack, Goto, HolderKnows, row
<1>5. ASSUME NEW w \in Workers, pc[w] # "idle", Holder(w), token' = token,
             \A v \in Workers \ {w} : /\ pc'[v] = pc[v] /\ job'[v] = job[v]
                                      /\ claim'[v] = claim[v] /\ mine'[v] = mine[v]
                                      /\ symbol'[v] = symbol[v],
             \A j \in Jobs \ {job[w]} : results'[j] = results[j],
             NEW v \in Workers, v # w, pc'[v] # "idle", token'[job'[v]] = claim'[v]
      PROVE  /\ pc'[v] # "refused" => mine'[v] = results'[job'[v]]
             /\ pc'[v] = "refused" =>
                  \A s \in Symbols \ {symbol'[v]} : mine'[v][s] = results'[job'[v]][s]
  <2>1. job[v] \in Jobs /\ job[v] # job[w]
    BY <1>5, HolderAlone DEF Claims
  <2> QED BY <1>5, <2>1 DEF HolderKnows
<1>6. ASSUME NEW w \in Workers, NEW outcome, Recorded(w, outcome) PROVE HolderKnows'
  <2>1. job[w] \in Jobs /\ pc[w] # "idle" /\ Holder(w) /\ token' = token
    BY <1>6 DEF Recorded, SetProgress, InHand, Claims
  <2>2. \A v \in Workers \ {w} : /\ pc'[v] = pc[v] /\ job'[v] = job[v]
                                 /\ claim'[v] = claim[v] /\ mine'[v] = mine[v]
                                 /\ symbol'[v] = symbol[v]
    BY <1>6 DEF Recorded, SetProgress, Goto
  <2>3. \A j \in Jobs \ {job[w]} : results'[j] = results[j]
    BY <1>6 DEF Recorded, SetProgress
  <2>4. pc'[w] = "working" /\ mine'[w] = results'[job'[w]]
    BY <1>6, <2>1 DEF Recorded, SetProgress, Goto
  <2> QED BY <1>5, <2>1, <2>2, <2>3, <2>4 DEF HolderKnows
<1>7. ASSUME NEW w \in Workers, Unheard(w) PROVE HolderKnows'
  <2>1. job[w] \in Jobs /\ pc[w] # "idle" /\ Holder(w) /\ token' = token
    BY <1>7 DEF Unheard, Claims
  <2>2. \A v \in Workers \ {w} : /\ pc'[v] = pc[v] /\ job'[v] = job[v]
                                 /\ claim'[v] = claim[v] /\ mine'[v] = mine[v]
                                 /\ symbol'[v] = symbol[v]
    BY <1>7 DEF Unheard, Goto
  <2>3. \A j \in Jobs \ {job[w]} : results'[j] = results[j]
    BY <1>7 DEF Unheard
  <2>4. /\ pc'[w] = "refused" /\ symbol'[w] = symbol[w] /\ mine' = mine /\ job' = job
        /\ results'[job[w]] = [mine[w] EXCEPT ![symbol[w]] = "completed"]
    BY <1>7, <2>1 DEF Unheard, Goto
  <2>5. \A s \in Symbols \ {symbol'[w]} : mine'[w][s] = results'[job'[w]][s]
    BY <2>4 DEF Results
  <2> SUFFICES ASSUME NEW v \in Workers, pc'[v] # "idle", token'[job'[v]] = claim'[v]
               PROVE  /\ pc'[v] # "refused" => mine'[v] = results'[job'[v]]
                      /\ pc'[v] = "refused" =>
                           \A s \in Symbols \ {symbol'[v]} : mine'[v][s] = results'[job'[v]][s]
    BY DEF HolderKnows
  <2>6. CASE v # w
    BY <1>5, <2>1, <2>2, <2>3, <2>6
  <2>7. CASE v = w
    BY <2>4, <2>5, <2>7
  <2> QED BY <2>6, <2>7
<1>8. ASSUME NEW w \in Workers, NEW outcome, Finished(w, outcome) PROVE HolderKnows'
  <2>1. /\ job[w] \in Jobs /\ pc'[w] = "idle"
        /\ \A v \in Workers \ {w} : /\ pc'[v] = pc[v] /\ job'[v] = job[v]
                                    /\ claim'[v] = claim[v] /\ mine'[v] = mine[v]
                                    /\ symbol'[v] = symbol[v]
    BY <1>8 DEF Finished, Claims, Idle, Goto
  <2>2. ASSUME NEW v \in Workers, v # w, pc[v] # "idle", token'[job[v]] = claim[v]
        PROVE  job[v] # job[w] /\ token[job[v]] = claim[v]
    <3>1. claim[v] \in 1..attempts[job[v]] /\ job[v] \in Jobs
      BY <2>2 DEF Claims
    <3> QED BY <1>8, <2>1, <2>2, <3>1 DEF Finished
  <2>3. \A j \in Jobs \ {job[w]} : results'[j] = results[j]
    BY <1>8 DEF Finished
  <2> QED BY <2>1, <2>2, <2>3 DEF HolderKnows, Claims
<1>9. ASSUME NEW w \in Workers, Ended(w) PROVE HolderKnows'
  BY <1>9 DEF Ended, Idle, Goto, HolderKnows, row
<1> QED BY <1>1, <1>2, <1>3, <1>4, <1>6, <1>7, <1>8, <1>9 DEF StepKind

\* The holder of the token writes back the checkpoints it found: a checkpoint,
\* once written, is never open again, and the one being recorded was open
\* unless its import's answer was lost.
LEMMA CheckpointsKept ==
    ASSUME TypeOK, Claims, HolderKnows, StepKind, NEW j \in Jobs, NEW s \in Symbols,
           results[j][s] # "open"
    PROVE  results'[j][s] # "open"
<1> USE DEF TypeOK
<1>1. CASE results' = results
  BY <1>1
<1>2. ASSUME NEW w \in Workers, NEW outcome \in {"completed", "failed"}, Recorded(w, outcome)
      PROVE results'[j][s] # "open"
  <2>1. CASE job[w] # j
    BY <1>2, <2>1 DEF Recorded, SetProgress
  <2>2. CASE job[w] = j /\ s = symbol[w]
    <3>1. mine[w] \in Results /\ symbol[w] \in Symbols
      BY <1>2 DEF Recorded, Claims
    <3> QED BY <1>2, <2>2, <3>1 DEF Recorded, SetProgress, Results
  <2>3. CASE job[w] = j /\ s # symbol[w]
    <3>1. mine[w] \in Results /\ mine[w][s] = results[j][s]
      BY <1>2, <2>3 DEF Recorded, Holder, HolderKnows, InHand
    <3> QED BY <1>2, <2>3, <3>1 DEF Recorded, SetProgress, Results
  <2> QED BY <2>1, <2>2, <2>3
<1>3. ASSUME NEW w \in Workers, Unheard(w) PROVE results'[j][s] # "open"
  <2>1. CASE job[w] # j
    BY <1>3, <2>1 DEF Unheard
  <2>2. CASE job[w] = j
    <3>1. mine[w] \in Results /\ mine[w] = results[j] /\ symbol[w] \in Symbols
      BY <1>3, <2>2 DEF Unheard, Holder, HolderKnows, Claims, InHand
    <3> QED BY <1>3, <2>2, <3>1 DEF Unheard, Results
  <2> QED BY <2>1, <2>2
<1>4. ASSUME NEW w \in Workers, NEW outcome, Finished(w, outcome) PROVE results'[j][s] # "open"
  BY <1>4 DEF Finished, Holder, HolderKnows
<1> QED
  BY <1>1, <1>2, <1>3, <1>4 DEF StepKind, CreateJob, LeaseOnly, ClaimNextJob, OpenProvider,
     FetchSymbol, RolledBack, Ended, row

\* The one transaction that imports a symbol finds its checkpoint open and
\* leaves it marked, so there is no second import.
LEMMA NextImportsMarked ==
    TypeOK /\ Claims /\ HolderKnows /\ ImportsMarked /\ StepKind => ImportsMarked'
<1> SUFFICES ASSUME TypeOK, Claims, HolderKnows, ImportsMarked, StepKind,
                    NEW j \in Jobs, NEW s \in Symbols
             PROVE  /\ imports'[j][s] <= 1
                    /\ imports'[j][s] > 0 => results'[j][s] # "open"
  BY DEF ImportsMarked
<1>0. imports[j][s] \in Nat /\ imports[j][s] <= 1
  BY DEF TypeOK, ImportsMarked
<1>1. CASE imports'[j][s] = imports[j][s]
  BY <1>0, <1>1, CheckpointsKept DEF ImportsMarked
<1>2. ASSUME NEW w \in Workers, pc[w] = "fetched", Holder(w), Imported(w),
             results'[job[w]] = [mine[w] EXCEPT ![symbol[w]] = "completed"]
      PROVE  /\ imports'[j][s] <= 1
             /\ imports'[j][s] > 0 => results'[j][s] # "open"
  <2>1. /\ job[w] \in Jobs /\ symbol[w] \in Symbols /\ mine[w] = results[job[w]]
        /\ mine[w][symbol[w]] = "open" /\ mine[w] \in Results
    BY <1>2 DEF Claims, HolderKnows, Holder, InHand, TypeOK
  <2>2. CASE j = job[w] /\ s = symbol[w]
    <3>1. imports[j][s] = 0
      BY <1>0, <2>1, <2>2 DEF ImportsMarked
    <3>2. imports'[j][s] = 1
      BY <1>2, <2>1, <2>2, <3>1 DEF Imported, TypeOK
    <3>3. results'[j][s] = "completed"
      BY <1>2, <2>1, <2>2 DEF Results
    <3> QED BY <3>2, <3>3
  <2>3. CASE ~(j = job[w] /\ s = symbol[w])
    <3>1. imports'[j][s] = imports[j][s]
      BY <1>2, <2>1, <2>3 DEF Imported, TypeOK
    <3> QED BY <1>1, <3>1
  <2> QED BY <2>2, <2>3
<1>3. ASSUME NEW w \in Workers, NEW outcome, Recorded(w, outcome)
      PROVE  /\ imports'[j][s] <= 1
             /\ imports'[j][s] > 0 => results'[j][s] # "open"
  <2>1. CASE UNCHANGED data
    BY <1>1, <2>1 DEF data
  <2>2. CASE pc[w] = "fetched" /\ outcome = "completed" /\ Imported(w)
    <3>1. Holder(w) /\ results'[job[w]] = [mine[w] EXCEPT ![symbol[w]] = "completed"]
      BY <1>3, <2>2 DEF Recorded, SetProgress, Claims, TypeOK, InHand
    <3> QED BY <1>2, <2>2, <3>1
  <2> QED BY <1>3, <2>1, <2>2 DEF Recorded
<1>4. ASSUME NEW w \in Workers, Unheard(w)
      PROVE  /\ imports'[j][s] <= 1
             /\ imports'[j][s] > 0 => results'[j][s] # "open"
  <2>1. CASE UNCHANGED data
    BY <1>1, <2>1 DEF data
  <2>2. CASE pc[w] = "fetched" /\ Imported(w)
    <3>1. Holder(w) /\ results'[job[w]] = [mine[w] EXCEPT ![symbol[w]] = "completed"]
      BY <1>4, <2>2 DEF Unheard, Claims, TypeOK
    <3> QED BY <1>2, <2>2, <3>1
  <2> QED BY <1>4, <2>1, <2>2 DEF Unheard
<1> QED
  BY <1>1, <1>3, <1>4 DEF StepKind, CreateJob, LeaseOnly, ClaimNextJob, OpenProvider,
     FetchSymbol, RolledBack, Finished, Ended, data

----------------------------------------------------------------------------
(* The market tables *)

\* Market rows are never removed.
LEMMA MarketGrows ==
    ASSUME StepKind
    PROVE  market \subseteq market'
<1>1. ASSUME NEW w \in Workers, Imported(w) PROVE market \subseteq market'
  BY <1>1 DEF Imported
<1>2. CASE UNCHANGED data
  BY <1>2 DEF data
<1> QED
  BY <1>1, <1>2 DEF StepKind, CreateJob, LeaseOnly, ClaimNextJob, OpenProvider, FetchSymbol,
     RolledBack, Recorded, Unheard, Finished, Ended

\* A symbol that was current when its worker looked is still stored.
LEMMA NextCurrentStored == TypeOK /\ CurrentStored /\ StepKind => CurrentStored'
<1> SUFFICES ASSUME TypeOK, CurrentStored, StepKind, NEW v \in Workers, pc'[v] = "current"
             PROVE  symbol'[v] \in market'
  BY DEF CurrentStored
<1>1. CASE pc[v] = "current" /\ symbol'[v] = symbol[v]
  BY <1>1, MarketGrows DEF CurrentStored
<1>2. CASE FetchSymbol(v)
  BY <1>2 DEF FetchSymbol, Goto, TypeOK, data
<1>3. ASSUME NEW w \in Workers, ClaimNextJob(w)
      PROVE pc[v] = "current" /\ symbol'[v] = symbol[v]
  BY <1>3 DEF ClaimNextJob, TypeOK, proc
<1>4. ASSUME NEW w \in Workers, w # v \/ ~FetchSymbol(w),
             \/ OpenProvider(w) \/ FetchSymbol(w) \/ Unheard(w) \/ RolledBack(w) \/ Ended(w)
             \/ \E outcome : Recorded(w, outcome) \/ Finished(w, outcome)
      PROVE pc[v] = "current" /\ symbol'[v] = symbol[v]
  <2>1. CASE w # v
    BY <1>4, <2>1 DEF OpenProvider, FetchSymbol, Unheard, RolledBack, Ended, Recorded,
       SetProgress, Finished, Idle, Goto, TypeOK
  <2>2. CASE w = v
    BY <1>4, <2>2 DEF OpenProvider, Unheard, RolledBack, Ended, Recorded, SetProgress,
       Finished, Idle, Goto, TypeOK
  <2> QED BY <2>1, <2>2
<1>5. CASE UNCHANGED proc
  BY <1>1, <1>5 DEF proc
<1> QED
  BY <1>1, <1>2, <1>3, <1>4, <1>5 DEF StepKind, CreateJob, LeaseOnly

\* ReportedIsStored in two parts: what is stored, and the verdict on one row.
Stored == \A j \in Jobs, s \in Symbols : results[j][s] = "completed" => s \in market

Justified(st, res) ==
    /\ st = "completed" => \A s \in Symbols : res[s] = "completed"
    /\ st = "partial" => {res[s] : s \in Symbols} = {"completed", "failed"}

\* A completed checkpoint has its rows stored: it is written with the import, or
\* by a worker that saw the rows.
LEMMA NextStored ==
    TypeOK /\ Claims /\ HolderKnows /\ CurrentStored /\ Stored /\ StepKind => Stored'
<1> SUFFICES ASSUME TypeOK, Claims, HolderKnows, CurrentStored, Stored, StepKind
             PROVE  Stored'
  OBVIOUS
<1> USE DEF TypeOK
<1>1. CASE results' = results
  BY <1>1, MarketGrows DEF Stored
<1>2. ASSUME NEW w \in Workers, Holder(w), pc[w] \in InHand,
             NEW outcome \in {"completed", "failed"},
             results' = [results EXCEPT ![job[w]] = [mine[w] EXCEPT ![symbol[w]] = outcome]],
             outcome = "completed" => symbol[w] \in market'
      PROVE Stored'
  <2>1. job[w] \in Jobs /\ symbol[w] \in Symbols /\ mine[w] \in Results
    BY <1>2 DEF Claims, InHand
  <2>2. \A s \in Symbols \ {symbol[w]} : mine[w][s] = results[job[w]][s]
    BY <1>2 DEF HolderKnows, Holder, InHand
  <2> SUFFICES ASSUME NEW j \in Jobs, NEW s \in Symbols, results'[j][s] = "completed"
               PROVE  s \in market'
    BY DEF Stored
  <2>3. CASE j = job[w] /\ s = symbol[w]
    BY <1>2, <2>1, <2>3 DEF Results
  <2>4. CASE ~(j = job[w] /\ s = symbol[w])
    <3>1. results'[j][s] = results[j][s]
      BY <1>2, <2>1, <2>2, <2>4 DEF Results
    <3> QED BY <3>1, MarketGrows DEF Stored
  <2> QED BY <2>3, <2>4
<1>3. ASSUME NEW w \in Workers, NEW outcome \in {"completed", "failed"}, Recorded(w, outcome)
      PROVE Stored'
  <2>1. outcome = "completed" => symbol[w] \in market'
    BY <1>3 DEF Recorded, Imported, CurrentStored, data
  <2> QED BY <1>2, <1>3, <2>1 DEF Recorded, SetProgress
<1>4. ASSUME NEW w \in Workers, Unheard(w) PROVE Stored'
  <2>1. symbol[w] \in market' /\ pc[w] \in InHand
    BY <1>4 DEF Unheard, Imported, CurrentStored, data, InHand
  <2> QED BY <1>2, <1>4, <2>1 DEF Unheard
<1>5. ASSUME NEW w \in Workers, NEW outcome \in Terminal, Finished(w, outcome) PROVE Stored'
  <2>1. results' = results
    BY <1>5 DEF Finished, Claims, Holder, HolderKnows
  <2> QED BY <1>1, <2>1
<1> QED
  BY <1>1, <1>3, <1>4, <1>5 DEF StepKind, CreateJob, LeaseOnly, ClaimNextJob, OpenProvider,
     FetchSymbol, RolledBack, Ended, row

\* The status a job is finished with is the one its checkpoints justify, and the
\* checkpoints of a finished job are not written any more.
LEMMA NextJustified ==
    ASSUME TypeOK, Claims, HolderKnows, StepKind, NEW j \in Jobs, Justified(status[j], results[j])
    PROVE  Justified(status'[j], results'[j])
<1> USE DEF TypeOK
<1>1. CASE status'[j] = status[j] /\ results'[j] = results[j]
  BY <1>1
<1>2. CASE status'[j] \in {"queued", "running", "failed"}
  BY <1>2 DEF Justified
<1>3. ASSUME NEW w \in Workers, ClaimNextJob(w) PROVE Justified(status'[j], results'[j])
  <2>1. PICK E \in SUBSET Jobs, C \in SUBSET Jobs : Claimed(w, E, C)
    BY <1>3, ClaimedRows
  <2> QED BY <1>1, <1>2, <2>1 DEF Claimed
<1>4. ASSUME NEW w \in Workers, Holder(w), pc[w] \in InHand, status' = status,
             \A k \in Jobs \ {job[w]} : results'[k] = results[k]
      PROVE Justified(status'[j], results'[j])
  BY <1>1, <1>2, <1>4 DEF Holder
<1>5. ASSUME NEW w \in Workers, NEW outcome, Recorded(w, outcome) \/ Unheard(w)
      PROVE Justified(status'[j], results'[j])
  BY <1>4, <1>5 DEF Recorded, SetProgress, Unheard, InHand
<1>6. ASSUME NEW w \in Workers, NEW outcome \in Terminal, Finished(w, outcome)
      PROVE Justified(status'[j], results'[j])
  <2>1. job[w] \in Jobs /\ mine[w] \in Results
    BY <1>6 DEF Finished, Claims
  <2>2. CASE j # job[w]
    BY <1>1, <1>6, <2>2 DEF Finished
  <2>3. CASE j = job[w]
    <3>1. status'[j] = outcome /\ results'[j] = mine[w]
      BY <1>6, <2>3 DEF Finished
    <3>2. outcome = "completed" => \A s \in Symbols : mine[w][s] = "completed"
      BY <1>6, <2>1 DEF Finished, Pending, Verdict, Results
    <3>3. outcome = "partial" => {mine[w][s] : s \in Symbols} = {"completed", "failed"}
      BY <1>6, <2>1 DEF Finished, Pending, Verdict, Results
    <3>4. Justified(outcome, mine[w])
      BY <3>2, <3>3 DEF Justified
    <3> QED BY <3>1, <3>4
  <2> QED BY <2>2, <2>3
<1>7. ASSUME NEW k \in Jobs, CreateJob(k) PROVE Justified(status'[j], results'[j])
  BY <1>1, <1>2, <1>7 DEF CreateJob
<1> QED
  BY <1>1, <1>3, <1>5, <1>6, <1>7 DEF StepKind, LeaseOnly, OpenProvider, FetchSymbol,
     RolledBack, Ended, row

----------------------------------------------------------------------------
(* The theorems *)

\* The initial state satisfies every part: market rows may be there already.
LEMMA InitIInv == Init => IInv
<1> SUFFICES ASSUME Init PROVE IInv
  OBVIOUS
<1>1. TypeOK
  BY InitTypeOK
<1>2. Claims /\ Tokens /\ TokensDiffer /\ HolderKnows /\ CurrentStored
  BY DEF Init, Claims, Tokens, TokensDiffer, HolderKnows, CurrentStored, InHand
<1>3. ImportsMarked
  BY DEF Init, ImportsMarked
<1>4. ReportedIsStored
  <2>1. \A j \in Jobs : status[j] = "absent" /\ \A s \in Symbols : results[j][s] = "open"
    BY DEF Init, NoResult
  <2> QED BY <2>1 DEF ReportedIsStored
<1> QED BY <1>1, <1>2, <1>3, <1>4 DEF IInv

\* Every step keeps every part.
LEMMA NextIInv == IInv /\ [Next]_vars => IInv'
<1> SUFFICES ASSUME IInv, [Next]_vars PROVE IInv'
  OBVIOUS
<1>1. ReportedIsStored <=> Stored /\ \A j \in Jobs : Justified(status[j], results[j])
  BY DEF ReportedIsStored, Stored, Justified
<1>2. ReportedIsStored' <=> Stored' /\ \A j \in Jobs : Justified(status'[j], results'[j])
  BY DEF ReportedIsStored, Stored, Justified
<1>3. CASE Next
  <2> USE DEF IInv
  <2>1. StepKind
    BY <1>3, EveryKind
  <2>2. TypeOK' /\ Claims' /\ Tokens' /\ TokensDiffer'
    BY <1>3, <2>1, NextTypeOK, NextClaims, NextTokens, NextTokensDiffer
  <2>3. HolderKnows' /\ ImportsMarked' /\ CurrentStored'
    BY <2>1, NextHolderKnows, NextImportsMarked, NextCurrentStored
  <2>4. ReportedIsStored'
    BY <1>1, <1>2, <2>1, NextStored, NextJustified
  <2> QED BY <2>2, <2>3, <2>4
<1>4. CASE UNCHANGED vars
  <2>1. (TypeOK /\ Claims /\ Tokens /\ TokensDiffer /\ HolderKnows /\ ImportsMarked
           /\ CurrentStored)'
    BY <1>4 DEF vars, IInv, TypeOK, Claims, Tokens, TokensDiffer, HolderKnows, ImportsMarked,
       CurrentStored
  <2>2. ReportedIsStored'
    BY <1>1, <1>2, <1>4 DEF vars, IInv, Stored
  <2> QED BY <2>1, <2>2 DEF IInv
<1> QED BY <1>3, <1>4

\* Every reachable state satisfies the combined invariant.
LEMMA Invariance == Spec => []IInv
  BY InitIInv, NextIInv, PTL DEF Spec

\* The rows, the market tables and the workers keep their types.
THEOREM TypeCorrect == Spec => []TypeOK
<1>1. IInv => TypeOK
  BY DEF IInv
<1> QED BY <1>1, Invariance, PTL

\* Whatever the number of attempts, takeovers and lost answers, each symbol of
\* a job is imported at most once.
THEOREM ImportsAreUnique == Spec => []ImportedAtMostOnce
<1>1. IInv => ImportedAtMostOnce
  BY DEF IInv, ImportsMarked, ImportedAtMostOnce
<1> QED BY <1>1, Invariance, PTL

\* A checkpoint that says completed has its rows in the market tables, and a
\* finished job's status is the one its checkpoints justify.
THEOREM ReportsAreStored == Spec => []ReportedIsStored
<1>1. IInv => ReportedIsStored
  BY DEF IInv
<1> QED BY <1>1, Invariance, PTL

\* The worker with the current token knows every checkpoint of its job but the
\* one it is about to record, so that no attempt writes over another's.
THEOREM CheckpointsAreShared == Spec => []CheckpointsShared
<1>1. IInv => CheckpointsShared
  BY DEF IInv, HolderKnows, CheckpointsShared
<1> QED BY <1>1, Invariance, PTL

\* The sync queue moves every job along the lifecycle of a business Job: bounded
\* attempts, terminal for good, failed only after an attempt.
THEOREM ImplementsLifecycle == Spec => LifecycleSpec
<1> USE DEF Lifecycle!Becomes
<1> DEFINE done(j) == status[j] \in {"completed", "partial"}
           seen(j) == IF status[j] = "partial" THEN "completed" ELSE status[j]
<1>1. Init => Lifecycle!Init
  <2> SUFFICES ASSUME Init PROVE Lifecycle!Init
    OBVIOUS
  <2>1. \A j \in Jobs : seen(j) = "absent" /\ done(j) = FALSE /\ attempts[j] = 0
    BY DEF Init
  <2>2. attempts \in [Jobs -> 0..MaxAttempts]
    BY MaxAttemptsAssumption DEF Init
  <2> QED BY <2>1, <2>2 DEF Lifecycle!Init
<1>2. IInv /\ [Next]_vars => [Lifecycle!Next]_(Lifecycle!vars)
  <2> SUFFICES ASSUME IInv, Next PROVE Lifecycle!Next
    BY DEF vars, Lifecycle!vars
  <2>1. StepKind
    BY EveryKind
  <2> SUFFICES ASSUME NEW j \in Jobs PROVE Lifecycle!JobStep(j)
    BY DEF Lifecycle!Next
  <2>2. CASE status'[j] = status[j] /\ attempts'[j] = attempts[j]
    BY <2>2 DEF Lifecycle!JobStep, Lifecycle!Stay
  <2>3. ASSUME NEW k \in Jobs, CreateJob(k) PROVE Lifecycle!JobStep(j)
    <3>1. CASE k = j
      <4>1. /\ status[j] = "absent" /\ status'[j] = "queued" /\ attempts'[j] = attempts[j]
        BY <2>3, <3>1 DEF CreateJob, IInv, TypeOK
      <4>2. done(j)' = FALSE
        BY <4>1
      <4> QED BY <4>1, <4>2 DEF Lifecycle!JobStep, Lifecycle!Submit
    <3>2. CASE k # j
      BY <2>2, <2>3, <3>2 DEF CreateJob, IInv, TypeOK
    <3> QED BY <3>1, <3>2
  <2>4. ASSUME NEW w \in Workers, ClaimNextJob(w) PROVE Lifecycle!JobStep(j)
    <3>1. PICK E \in SUBSET Jobs, C \in SUBSET Jobs :
            /\ Claimed(w, E, C) /\ E \cap C = {}
            /\ \A k \in E : status[k] \in {"queued", "running"} /\ attempts[k] >= MaxAttempts
            /\ \A k \in C : status[k] \in {"queued", "running"} /\ attempts[k] < MaxAttempts
      BY <2>4, ClaimedRows DEF IInv
    <3>2. CASE j \in C
      <4>1. /\ status[j] \in {"queued", "running"} /\ attempts[j] < MaxAttempts
            /\ status'[j] = "running" /\ attempts'[j] = attempts[j] + 1
        BY <3>1, <3>2 DEF Claimed
      <4>2. done(j)' = FALSE
        BY <4>1
      <4> QED BY <4>1, <4>2 DEF Lifecycle!JobStep, Lifecycle!Start, Lifecycle!Active
    <3>3. CASE j \in E
      <4>1. /\ status[j] \in {"queued", "running"} /\ attempts[j] > 0
            /\ status'[j] = "failed" /\ attempts'[j] = attempts[j]
        BY <3>1, <3>3, MaxAttemptsAssumption DEF Claimed, IInv, TypeOK
      <4>2. done(j)' = FALSE
        BY <4>1
      <4> QED BY <4>1, <4>2 DEF Lifecycle!JobStep, Lifecycle!GiveUp, Lifecycle!Active
    <3>4. CASE j \notin C /\ j \notin E
      BY <2>2, <3>1, <3>4 DEF Claimed
    <3> QED BY <3>2, <3>3, <3>4
  <2>5. ASSUME NEW w \in Workers, NEW outcome \in Terminal, Finished(w, outcome)
        PROVE Lifecycle!JobStep(j)
    <3>1. CASE j # job[w]
      BY <2>2, <2>5, <3>1 DEF Finished, IInv, TypeOK
    <3>2. CASE j = job[w]
      <4>1. /\ status[j] = "running" /\ attempts[j] > 0
            /\ status'[j] = outcome /\ attempts'[j] = attempts[j]
        BY <2>5, <3>2 DEF Finished, Holder, Tokens, IInv, TypeOK
      <4>2. CASE outcome = "failed"
        <5>1. done(j)' = FALSE
          BY <4>1, <4>2
        <5> QED BY <4>1, <4>2, <5>1 DEF Lifecycle!JobStep, Lifecycle!GiveUp, Lifecycle!Active
      <4>3. CASE outcome \in {"completed", "partial"}
        <5>1. done(j)' = TRUE
          BY <4>1, <4>3
        <5> QED BY <4>1, <4>3, <5>1 DEF Lifecycle!JobStep, Lifecycle!Succeed
      <4> QED BY <4>2, <4>3 DEF Terminal
    <3> QED BY <3>1, <3>2
  <2> QED
    BY <2>1, <2>2, <2>3, <2>4, <2>5 DEF StepKind, LeaseOnly, OpenProvider, FetchSymbol, Recorded,
       SetProgress, Unheard, RolledBack, Ended, row
<1> QED BY <1>1, <1>2, Invariance, PTL DEF Spec, LifecycleSpec, Lifecycle!Spec

\* A checkpoint stays written and the report of an ended job stays as it is: a
\* worker writes symbol_results_json only under its fence, to a running job,
\* and from a copy that holds every checkpoint of its job.
THEOREM CheckpointsAreFinal == Spec => CheckpointsFinal
<1> DEFINE Final(j) ==
      /\ \A s \in Symbols : results[j][s] # "open" => results'[j][s] # "open"
      /\ status[j] \in Terminal => results'[j] = results[j]
<1>1. ASSUME IInv, Next, NEW j \in Jobs PROVE Final(j)
  <2>1. StepKind
    BY <1>1, EveryKind
  <2>2. \A s \in Symbols : results[j][s] # "open" => results'[j][s] # "open"
    BY <1>1, <2>1, CheckpointsKept DEF IInv
  <2>3. ASSUME status[j] \in Terminal PROVE results'[j] = results[j]
    <3>1. \A w \in Workers : Holder(w) => job[w] # j
      BY <2>3 DEF Holder, Terminal
    <3>2. ASSUME NEW w \in Workers, NEW outcome,
                 Recorded(w, outcome) \/ Unheard(w) \/ Finished(w, outcome)
          PROVE  results'[j] = results[j]
      <4>1. job[w] # j
        BY <3>1, <3>2 DEF Recorded, Unheard, Finished
      <4>2. results \in [Jobs -> Results]
        BY <1>1 DEF IInv, TypeOK
      <4> QED BY <3>2, <4>1, <4>2 DEF Recorded, SetProgress, Unheard, Finished
    <3> QED
      BY <2>1, <3>2 DEF StepKind, CreateJob, LeaseOnly, ClaimNextJob, OpenProvider, FetchSymbol,
         RolledBack, Ended, row
  <2> QED BY <2>2, <2>3
<1>2. IInv /\ [Next]_vars => [\A j \in Jobs : Final(j)]_vars
  BY <1>1
<1> QED BY <1>2, Invariance, PTL DEF Spec, CheckpointsFinal
=============================================================================
