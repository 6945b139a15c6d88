---------------------------- MODULE JobLifecycle ----------------------------
(***************************************************************************)
(* What a durable business Job of BeyondQuant promises its owner, whatever *)
(* queue, worker or recovery path serves it: business_job.py projects the  *)
(* row of every Job store on these statuses.  The stores' own modules      *)
(* (FactorJobs, BacktestJobs, OptimizationJobs, DataSyncJobs, MLRuns) are  *)
(* checked to implement this one.                                          *)
(*                                                                         *)
(* One transaction of a store may move several rows (a claim first settles *)
(* an exhausted row, then starts another), so a step of this specification *)
(* moves every Job by at most one transition.                              *)
(***************************************************************************)
EXTENDS Naturals

CONSTANTS
    Jobs,         \* the rows a store may come to hold
    MaxAttempts   \* the attempt budget of one row

VARIABLES
    status,       \* [Jobs -> Status]
    attempts,     \* [Jobs -> 0..MaxAttempts], the attempts started so far
    result        \* [Jobs -> BOOLEAN], the row names a result Artifact

vars == <<status, attempts, result>>

Active   == {"queued", "running"}
Terminal == {"completed", "failed", "cancelled"}
Status   == {"absent", "deleted"} \cup Active \cup Terminal

\* An inherited row is one that an earlier process left in the database.
Init ==
    /\ status \in [Jobs -> {"absent", "running"}]
    /\ attempts \in [Jobs -> 0..MaxAttempts]
    /\ result = [j \in Jobs |-> FALSE]
    /\ \A j \in Jobs : status[j] = "absent" <=> attempts[j] = 0

----------------------------------------------------------------------------
(* The transitions of one Job, written over the next state of its row so    *)
(* that several rows can move in one step.                                  *)

Row(j)     == <<status[j], attempts[j], result[j]>>
Becomes(j, s, a, r) ==
    /\ status'[j] = s
    /\ attempts'[j] = a
    /\ result'[j] = r

Submit(j) ==
    /\ status[j] = "absent"
    /\ Becomes(j, "queued", attempts[j], FALSE)

\* A first attempt, or the takeover of one whose worker is given up on.
Start(j) ==
    /\ status[j] \in Active
    /\ attempts[j] < MaxAttempts
    /\ Becomes(j, "running", attempts[j] + 1, FALSE)

Retry(j) ==
    /\ status[j] = "running"
    /\ attempts[j] < MaxAttempts
    /\ Becomes(j, "queued", attempts[j], FALSE)

Succeed(j) ==
    /\ status[j] = "running"
    /\ Becomes(j, "completed", attempts[j], TRUE)

\* Giving up needs an attempt that was really started.
GiveUp(j) ==
    /\ status[j] \in Active
    /\ attempts[j] > 0
    /\ Becomes(j, "failed", attempts[j], FALSE)

Withdraw(j) ==
    /\ status[j] \in Active
    /\ Becomes(j, "cancelled", attempts[j], FALSE)

\* The owner removes a row once nothing can happen to it any more.
Purge(j) ==
    /\ status[j] \in Terminal
    /\ Becomes(j, "deleted", attempts[j], FALSE)

Stay(j) == Becomes(j, status[j], attempts[j], result[j])

JobStep(j) ==
    \/ Stay(j)
    \/ Submit(j) \/ Start(j) \/ Retry(j)
    \/ Succeed(j) \/ GiveUp(j) \/ Withdraw(j)
    \/ Purge(j)

Next == \A j \in Jobs : JobStep(j)

Spec == Init /\ [][Next]_vars
=============================================================================
