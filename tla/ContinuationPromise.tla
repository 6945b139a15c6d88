------------------------ MODULE ContinuationPromise ------------------------
(***************************************************************************)
(* What the continuation protocol promises for each signal, whatever       *)
(* Backend, Gateway and runtime adapter go through to keep it.  A signal   *)
(* is reserved once.  From then on it is either cancelled, and the model   *)
(* is never started for it, or it is dispatched, and the model is started  *)
(* at most once.  What was dispatched can no longer be cancelled, only     *)
(* settled, after its run took place and is gone; both ends are final.     *)
(*                                                                         *)
(* TaskContinuation is checked and proved to implement this module.  One   *)
(* of its steps may concern several signals (a revocation cancels every    *)
(* reservation, a crash ends every process), so a step here moves every    *)
(* signal by at most one transition.                                       *)
(***************************************************************************)
EXTENDS Naturals

CONSTANT
    Jobs        \* the signals: signal producer Jobs of a task

VARIABLES
    stage,      \* [Jobs -> Stage], what the ledger commits to
    runs,       \* [Jobs -> Nat], how often the model was started for a signal
    live        \* signals with a process of theirs still running

vars == <<stage, runs, live>>

\* The ledger's statuses, as far as they bind anyone: one that may have crossed
\* the process boundary and one that is known to have are both dispatched.
Stage == {"none", "reserved", "cancelled", "dispatched", "settled"}

Init ==
    /\ stage = [j \in Jobs |-> "none"]
    /\ runs = [j \in Jobs |-> 0]
    /\ live = {}

----------------------------------------------------------------------------
(* The transitions of one signal, written over its next state so that      *)
(* several signals can move in one step.                                   *)

Commits(j, from, to) ==
    /\ stage[j] = from /\ stage'[j] = to
    /\ runs'[j] = runs[j]
    /\ j \in live' <=> j \in live

Reserve(j)  == Commits(j, "none", "reserved")
Cancel(j)   == Commits(j, "reserved", "cancelled")
Dispatch(j) == Commits(j, "reserved", "dispatched")

\* Settlement is about a run that took place and is gone.
Settle(j) ==
    /\ runs[j] = 1 /\ j \notin live
    /\ Commits(j, "dispatched", "settled")

Start(j) ==
    /\ stage[j] = "dispatched" /\ runs[j] = 0
    /\ stage'[j] = stage[j]
    /\ runs'[j] = 1 /\ j \in live'

End(j) ==
    /\ j \in live /\ j \notin live'
    /\ stage'[j] = stage[j] /\ runs'[j] = runs[j]

SignalStep(j) ==
    \/ Commits(j, stage[j], stage[j])
    \/ Reserve(j) \/ Cancel(j) \/ Dispatch(j) \/ Settle(j)
    \/ Start(j) \/ End(j)

Next == \A j \in Jobs : SignalStep(j)

Spec == Init /\ [][Next]_vars
=============================================================================
