---------------------------- MODULE DataSyncJobs ----------------------------
(***************************************************************************)
(* The market-data sync queue (data_sync.py) and the part of the data      *)
(* worker's loop that serves it (workers/data/worker.py).                  *)
(*                                                                         *)
(* A job fetches several symbols one after the other.  Each symbol is a    *)
(* checkpoint: its market rows and the job's symbol_results commit in one  *)
(* transaction, which also renews the lease.  An attempt that takes over   *)
(* resumes from the checkpoints of the attempts before it.                 *)
(*                                                                         *)
(* Every lease comparison uses the clock of the worker that makes it, for  *)
(* claims and for fences alike: lapsed[j] is the set of workers by whose   *)
(* clock the lease of row j is over.                                       *)
(***************************************************************************)
EXTENDS Naturals, FiniteSets

CONSTANTS
    Jobs,           \* idempotency keys
    Symbols,        \* the symbols every job asks for
    Workers,
    MaxAttempts     \* MAX_JOB_ATTEMPTS

ASSUME MaxAttemptsAssumption == MaxAttempts \in Nat \ {0}
ASSUME SymbolsAssumption == IsFiniteSet(Symbols) /\ Symbols # {}

VARIABLES
    \* table data_sync_jobs
    status,         \* [Jobs -> Status]
    attempts,       \* [Jobs -> 0..MaxAttempts]
    token,          \* [Jobs -> 0..MaxAttempts], lease_token: one per claim
    lapsed,         \* [Jobs -> SUBSET Workers]
    results,        \* [Jobs -> Results], symbol_results_json
    \* market tables
    market,         \* symbols with rows up to the requested end date
    imports,        \* [Jobs -> [Symbols -> Nat]], imports made for a job
    \* worker processes
    pc,             \* [Workers -> PC]
    job,            \* [Workers -> Jobs \cup {None}]
    claim,          \* [Workers -> 0..MaxAttempts], the token it was given
    mine,           \* [Workers -> Results], its copy of symbol_results
    symbol          \* [Workers -> Symbols \cup {None}], the one in hand

row  == <<status, attempts, token, lapsed, results>>
data == <<market, imports>>
proc == <<pc, job, claim, mine, symbol>>
vars == <<status, attempts, token, lapsed, results, market, imports, pc, job,
          claim, mine, symbol>>

None     == "none"
Terminal == {"completed", "partial", "failed"}
Status   == {"absent", "queued", "running"} \cup Terminal
Results  == [Symbols -> {"open", "completed", "failed"}]
NoResult == [s \in Symbols |-> "open"]

\* claimed  claim_next_job committed
\* working  between symbols
\* fetched  normalized bars in hand, to be imported
\* current  the symbol needs no fetch (incremental mode)
\* refused  the provider, the validation or the import failed
PC == {"idle", "claimed", "working", "fetched", "current", "refused"}

TypeOK ==
    /\ status \in [Jobs -> Status]
    /\ attempts \in [Jobs -> 0..MaxAttempts]
    /\ token \in [Jobs -> 0..MaxAttempts]
    /\ lapsed \in [Jobs -> SUBSET Workers]
    /\ results \in [Jobs -> Results]
    /\ market \subseteq Symbols
    /\ imports \in [Jobs -> [Symbols -> Nat]]
    /\ pc \in [Workers -> PC]
    /\ job \in [Workers -> Jobs \cup {None}]
    /\ claim \in [Workers -> 0..MaxAttempts]
    /\ mine \in [Workers -> Results]
    /\ symbol \in [Workers -> Symbols \cup {None}]

Init ==
    /\ status = [j \in Jobs |-> "absent"]
    /\ attempts = [j \in Jobs |-> 0]
    /\ token = [j \in Jobs |-> 0]
    /\ lapsed = [j \in Jobs |-> {}]
    /\ results = [j \in Jobs |-> NoResult]
    /\ market \in SUBSET Symbols
    /\ imports = [j \in Jobs |-> [s \in Symbols |-> 0]]
    /\ pc = [w \in Workers |-> "idle"]
    /\ job = [w \in Workers |-> None]
    /\ claim = [w \in Workers |-> 0]
    /\ mine = [w \in Workers |-> NoResult]
    /\ symbol = [w \in Workers |-> None]

----------------------------------------------------------------------------

\* create_job: a replayed key returns its row or a conflict.
CreateJob(j) ==
    /\ status[j] = "absent"
    /\ status' = [status EXCEPT ![j] = "queued"]
    /\ UNCHANGED <<attempts, token, lapsed, results, data, proc>>

Waiting(w, j) ==
    \/ status[j] = "queued"
    \/ status[j] = "running" /\ w \in lapsed[j]

\* Mutant: an off-by-one in the budget of the final attempt.
ExhaustedLate(w) == {j \in Jobs : Waiting(w, j) /\ attempts[j] > MaxAttempts}

Exhausted(w) == {j \in Jobs : Waiting(w, j) /\ attempts[j] >= MaxAttempts}

Claimable(w) == {j \in Jobs : Waiting(w, j) /\ attempts[j] < MaxAttempts}

\* What one LIMIT 1 query may return (any row stands for the oldest).
OneOf(S) == IF S = {} THEN {{}} ELSE {{j} : j \in S}

\* Mutant: an attempt that takes over begins anew.
CheckpointsNone(j) == NoResult

\* claim["symbol_results_json"]: where the attempts before this one stopped.
Checkpoints(j) == results[j]

\* claim_next_job: retires one exhausted row, then claims one.
ClaimNextJob(w) ==
    /\ pc[w] = "idle"
    /\ \E E \in OneOf(Exhausted(w)), C \in OneOf(Claimable(w)) :
         /\ E \cup C # {}
         /\ status' = [j \in Jobs |-> IF j \in C THEN "running"
                                      ELSE IF j \in E THEN "failed" ELSE status[j]]
         /\ attempts' = [j \in Jobs |-> IF j \in C THEN attempts[j] + 1 ELSE attempts[j]]
         /\ token' = [j \in Jobs |-> IF j \in C THEN attempts[j] + 1
                                     ELSE IF j \in E THEN 0 ELSE token[j]]
         /\ lapsed' = [j \in Jobs |-> IF j \in E \cup C THEN {} ELSE lapsed[j]]
         /\ \/ C = {} /\ UNCHANGED proc
            \/ \E j \in C :
                 /\ pc' = [pc EXCEPT ![w] = "claimed"]
                 /\ job' = [job EXCEPT ![w] = j]
                 /\ claim' = [claim EXCEPT ![w] = attempts[j] + 1]
                 /\ mine' = [mine EXCEPT ![w] = Checkpoints(j)]
                 /\ UNCHANGED symbol
    /\ UNCHANGED <<results, data>>

Pending(w) == {s \in Symbols : mine[w][s] = "open"}

Goto(w, place, s) ==
    /\ pc' = [pc EXCEPT ![w] = place]
    /\ symbol' = [symbol EXCEPT ![w] = s]

\* The end of an attempt, orderly or not.
Idle(w) ==
    /\ Goto(w, "idle", None)
    /\ job' = [job EXCEPT ![w] = None]
    /\ claim' = [claim EXCEPT ![w] = 0]
    /\ mine' = [mine EXCEPT ![w] = NoResult]

\* The start of run_claimed_job: a provider, if any symbol is pending.
OpenProvider(w) ==
    /\ pc[w] = "claimed"
    /\ Goto(w, "working", None)
    /\ UNCHANGED <<row, data, job, claim, mine>>

\* fetch_daily and _normalize_bars, outside every transaction.  Incremental
\* mode skips a symbol whose stored rows already reach the end date.
FetchSymbol(w) ==
    /\ pc[w] = "working"
    /\ \E s \in Pending(w) : \/ Goto(w, "fetched", s)
                             \/ Goto(w, "refused", s)
                             \/ s \in market /\ Goto(w, "current", s)
    /\ UNCHANGED <<row, data, job, claim, mine>>

\* The fence of _require_live_claim, _set_progress and _finish.
LiveClaim(w) ==
    /\ status[job[w]] = "running"
    /\ token[job[w]] = claim[w]
    /\ w \notin lapsed[job[w]]

\* _set_progress: the checkpoint as this worker knows it; renews the lease.
SetProgress(w, outcome) ==
    LET mark == [mine[w] EXCEPT ![symbol[w]] = outcome] IN
    /\ results' = [results EXCEPT ![job[w]] = mark]
    /\ lapsed' = [lapsed EXCEPT ![job[w]] = {}]
    /\ mine' = [mine EXCEPT ![w] = mark]
    /\ Goto(w, "working", None)
    /\ UNCHANGED <<status, attempts, token, job, claim>>

LeaseLost(w) == Idle(w) /\ UNCHANGED row

\* Mutant: market rows are imported in a transaction before the checkpoint's.
ImportSymbolEarly(w) ==
    /\ pc[w] = "fetched"
    /\ market' = market \cup {symbol[w]}
    /\ imports' = [imports EXCEPT ![job[w]][symbol[w]] = @ + 1]
    /\ IF LiveClaim(w) THEN SetProgress(w, "completed") ELSE LeaseLost(w)

\* "Market rows and the job checkpoint commit together": one transaction.
ImportSymbol(w) ==
    /\ pc[w] = "fetched"
    /\ IF LiveClaim(w)
         THEN /\ market' = market \cup {symbol[w]}
              /\ imports' = [imports EXCEPT ![job[w]][symbol[w]] = @ + 1]
              /\ SetProgress(w, "completed")
         ELSE LeaseLost(w) /\ UNCHANGED data

\* The checkpoint's transaction raises SQLAlchemyError, which run_claimed_job
\* takes for a failure of the symbol, even of one that was already current: it
\* rolled back, or it committed and the answer was lost.
CheckpointFails(w) ==
    /\ pc[w] \in {"fetched", "current"}
    /\ \/ UNCHANGED <<row, data>>
       \/ /\ LiveClaim(w)
          /\ IF pc[w] = "fetched"
               THEN /\ market' = market \cup {symbol[w]}
                    /\ imports' = [imports EXCEPT ![job[w]][symbol[w]] = @ + 1]
               ELSE UNCHANGED data
          /\ results' = [results EXCEPT ![job[w]] =
                           [mine[w] EXCEPT ![symbol[w]] = "completed"]]
          /\ lapsed' = [lapsed EXCEPT ![job[w]] = {}]
          /\ UNCHANGED <<status, attempts, token>>
    /\ Goto(w, "refused", symbol[w])
    /\ UNCHANGED <<job, claim, mine>>

\* The checkpoint of a symbol that was not imported by this step.
RecordSymbol(w) ==
    /\ pc[w] \in {"current", "refused"}
    /\ IF LiveClaim(w)
         THEN SetProgress(w, IF pc[w] = "current" THEN "completed" ELSE "failed")
         ELSE LeaseLost(w)
    /\ UNCHANGED data

\* Mutant: the final UPDATE names the job only.
FinishAsUnfenced(w, outcome) ==
    /\ status' = [status EXCEPT ![job[w]] = outcome]
    /\ token' = [token EXCEPT ![job[w]] = 0]
    /\ lapsed' = [lapsed EXCEPT ![job[w]] = {}]
    /\ results' = [results EXCEPT ![job[w]] = mine[w]]
    /\ Idle(w)
    /\ UNCHANGED <<attempts, data>>

\* _finish
FinishAs(w, outcome) ==
    /\ IF LiveClaim(w)
         THEN /\ status' = [status EXCEPT ![job[w]] = outcome]
              /\ token' = [token EXCEPT ![job[w]] = 0]
              /\ lapsed' = [lapsed EXCEPT ![job[w]] = {}]
              /\ results' = [results EXCEPT ![job[w]] = mine[w]]
              /\ UNCHANGED attempts
         ELSE UNCHANGED row
    /\ Idle(w)
    /\ UNCHANGED data

\* provider_factory refuses: the credentials are missing or not usable.
NoProvider(w) ==
    /\ pc[w] = "claimed"
    /\ Pending(w) # {}
    /\ FinishAs(w, "failed")

\* Mutant: a job with any result is reported complete.
VerdictLenient(w) ==
    IF \A s \in Symbols : mine[w][s] = "failed" THEN "failed" ELSE "completed"

Verdict(w) ==
    LET failures == {s \in Symbols : mine[w][s] = "failed"}
    IN  IF failures = Symbols THEN "failed"
        ELSE IF failures # {} THEN "partial" ELSE "completed"

Finish(w) ==
    /\ pc[w] = "working"
    /\ Pending(w) = {}
    /\ FinishAs(w, Verdict(w))

\* The process dies, or an error that no handler expects ends the attempt.
Crash(w) ==
    /\ pc[w] # "idle"
    /\ Idle(w)
    /\ UNCHANGED <<row, data>>

Lapse(w, j) ==
    /\ status[j] = "running"
    /\ w \notin lapsed[j]
    /\ lapsed' = [lapsed EXCEPT ![j] = @ \cup {w}]
    /\ UNCHANGED <<status, attempts, token, results, data, proc>>

WorkerStep(w) ==
    \/ ClaimNextJob(w) \/ OpenProvider(w) \/ FetchSymbol(w) \/ ImportSymbol(w)
    \/ RecordSymbol(w) \/ Finish(w)

Next ==
    \/ \E j \in Jobs : CreateJob(j)
    \/ \E w \in Workers : \/ WorkerStep(w) \/ CheckpointFails(w)
                          \/ NoProvider(w) \/ Crash(w)
    \/ \E w \in Workers, j \in Jobs : Lapse(w, j)

Spec == Init /\ [][Next]_vars

\* The data worker polls for ever, a provider call ends, and time passes.
Fairness ==
    /\ \A w \in Workers : WF_vars(WorkerStep(w))
    /\ \A w \in Workers, j \in Jobs : WF_vars(Lapse(w, j))

FairSpec == Spec /\ Fairness

----------------------------------------------------------------------------
(* Properties *)

\* However many attempts, takeovers and lost answers a job goes through, the
\* rows of each of its symbols are imported at most once.
ImportedAtMostOnce == \A j \in Jobs, s \in Symbols : imports[j][s] <= 1

\* A job that claims a symbol has its rows in the market tables, and a job's
\* final status is the one its checkpoints justify: "completed" with no symbol
\* failed or left out, "partial" with some of each.
ReportedIsStored ==
    \A j \in Jobs :
        /\ \A s \in Symbols : results[j][s] = "completed" => s \in market
        /\ status[j] = "completed" => \A s \in Symbols : results[j][s] = "completed"
        /\ status[j] = "partial" => {results[j][s] : s \in Symbols} = {"completed", "failed"}

\* A worker whose token is current knows every checkpoint of its job, but for
\* the symbol whose import's answer it is still to record: no attempt writes
\* over the checkpoints of another.
CheckpointsShared ==
    \A w \in Workers : pc[w] # "idle" /\ token[job[w]] = claim[w] =>
        \A s \in Symbols \ {symbol[w]} : mine[w][s] = results[job[w]][s]

\* Whatever a late worker still reports, a checkpoint is never opened again, so
\* no symbol is fetched twice for it, and what an ended job reports never changes.
CheckpointsFinal ==
    [][\A j \in Jobs :
         /\ \A s \in Symbols : results[j][s] # "open" => results'[j][s] # "open"
         /\ status[j] \in Terminal => results'[j] = results[j]]_vars

Lifecycle == INSTANCE JobLifecycle WITH
    status <- [j \in Jobs |-> IF status[j] = "partial" THEN "completed" ELSE status[j]],
    result <- [j \in Jobs |-> status[j] \in {"completed", "partial"}]

\* The sync queue keeps the promise every business Job makes.
LifecycleSpec == Lifecycle!Spec

\* Every accepted sync job comes to an end.
EveryJobSettles ==
    \A j \in Jobs : status[j] \in {"queued", "running"} ~> status[j] \in Terminal
=============================================================================
