-------------------------- MODULE TaskContinuation --------------------------
(***************************************************************************)
(* Automatic continuation of a research conversation when one of its       *)
(* signal Jobs is ready (reservation schema v3).  Three processes share    *)
(* the work and none of them can commit with another:                      *)
(*   Backend          the ledger of reservations on the task's row         *)
(*                    (research_continuation.py); every operation locks    *)
(*                    the row, so each is one step;                        *)
(*   Gateway          the poller that turns a reservation into a prompt    *)
(*                    (task_continuation.py, main.py), the cancel endpoint *)
(*                    and the delivery of terminal events.  Its memory     *)
(*                    dies with it; the cancel marker is a file;           *)
(*   Runtime adapter  the process that runs the prompt (runtime.py).  All  *)
(*                    its state dies with it.                              *)
(*                                                                         *)
(* One conversation and one task are modelled.  A run is named by the Job  *)
(* it continues (AtMostOneRun says that this is enough): a row's run_id is *)
(* the Boolean bound.  Left out: the choice of model and options, request  *)
(* usage, outcome wording, soft and hard cancel names, an operator's audit *)
(* that closes a root over calls of unknown outcome.                       *)
(***************************************************************************)
EXTENDS Naturals, Sequences, FiniteSets

CONSTANTS
    Jobs,           \* signal producer Jobs of the task
    MaxFaults       \* crashes, lost answers, calls left open and unprovable runs

ASSUME MaxFaultsAssumption == MaxFaults \in Nat

\* No Job bears the name that stands for the absence of one.
ASSUME JobsAssumption == "none" \notin Jobs

VARIABLES
    \* Backend
    ready,          \* completed Jobs with a validated snapshot
    ledger,         \* reserved Jobs, in the order of continuation_budget
    entry,          \* [Jobs -> Status], status of the ledger entry
    attempts,       \* [Jobs -> 0..1], dispatch_attempts
    bound,          \* Jobs whose entry has a run_id
    cancelAt,       \* Jobs whose entry has cancel_requested_at
    revoked,        \* continuation_permission.revoked_at
    taskActive,     \* the task and the conversation are not over
    root,           \* [Jobs -> {"none", "active", "closed"}], agent_runtime_turns
    liable,         \* Jobs whose root has a domain call that Backend cannot account
                    \* for: a claim or an ingress that is pending or unknown
    \* Runtime adapter
    runtime,        \* the adapter has a record of the session
    prompted,       \* Jobs with a key in prompt_idempotency
    current,        \* the Job of record.continuation_budget, or None
    running,        \* record.active_run
    ended,          \* the current root's terminal event is published
    exited,         \* the current root's process has exited
    acked,          \* the current root's terminal receipt is acknowledged
    gaps,           \* what the evidence of the current root lacks: see Gaps
    cached,         \* Jobs settled in budget_receipts
    shelved,        \* Jobs outcome_unknown in budget_receipts
    \* Gateway
    session,        \* the ProductSession is registered
    hold,           \* continuation_reservation, or None
    cancelling,     \* continuation_cancel_requested is set
    marker,         \* the fsynced cancel marker, or None
    rested,         \* a poll has finished since the session was attached
    pc,             \* the poller
    snap,           \* the intent the poller holds, or NoSnap
    handler,        \* the cancel request in progress
    target,         \* its Job, or None
    \* network and history
    post,           \* [Jobs -> Post], the prompt request
    runs,           \* [Jobs -> Nat], runs ever started
    live,           \* Jobs with a process of theirs still running
    lost,           \* the adapter has lost its state
    faults          \* faults so far

roots   == <<root, liable>>
backend == <<ready, ledger, entry, attempts, bound, cancelAt, revoked, taskActive, roots>>
receipts == <<cached, shelved>>
adapter == <<runtime, prompted, current, running, ended, exited, acked, gaps, receipts>>
gateway == <<session, hold, cancelling, marker, rested, pc, snap, handler, target>>
history == <<post, runs, live, lost, faults>>
vars == <<ready, ledger, entry, attempts, bound, cancelAt, revoked, taskActive, root,
          liable, runtime, prompted, current, running, ended, exited, acked, gaps,
          cached, shelved,
          session, hold, cancelling, marker, rested, pc, snap, handler, target,
          post, runs, live, lost, faults>>

None   == "none"
Settled == {"settled", "cancelled"}
Status == {"none", "reserved", "outcome_unknown", "accepted"} \cup Settled
Post   == {"none", "sent", "accepted"}
PC     == {"idle", "claim", "reserved", "intent", "receipt", "dispatch", "post",
           "await", "accept", "settle", "finish", "fence", "target", "clear"}

\* "open":     a request proxy that is not closed, domain calls that Backend has
\*             not acknowledged, or a process that is not confirmed to be gone
\* "unproven": a provider request without its one known answer, or a request
\*             gate, tool guard or usage that cannot be read
Gaps   == {"open", "unproven"}
NoSnap == [job |-> None, status |-> "none", cancel |-> FALSE, may |-> FALSE]

TypeOK ==
    /\ ready \subseteq Jobs /\ bound \subseteq Jobs /\ cancelAt \subseteq Jobs
    /\ ledger \in Seq(Jobs)
    /\ Len(ledger) = Cardinality({j \in Jobs : entry[j] # "none"})
    /\ entry \in [Jobs -> Status]
    /\ attempts \in [Jobs -> 0..1]
    /\ root \in [Jobs -> {"none", "active", "closed"}]
    /\ {revoked, taskActive, runtime, running, ended, exited, acked,
        session, cancelling, rested, lost} \subseteq BOOLEAN
    /\ prompted \subseteq Jobs /\ live \subseteq Jobs /\ liable \subseteq Jobs
    /\ cached \subseteq Jobs /\ shelved \subseteq Jobs /\ gaps \subseteq Gaps
    /\ {current, hold, marker, target} \subseteq Jobs \cup {None}
    /\ pc \in PC
    /\ handler \in {"idle", "target", "fence", "fencestop", "stop"}
    /\ snap \in [job : Jobs \cup {None}, status : Status, cancel : BOOLEAN, may : BOOLEAN]
    /\ post \in [Jobs -> Post]
    /\ runs \in [Jobs -> Nat]
    /\ faults \in 0..MaxFaults

Init ==
    /\ ready = {} /\ ledger = <<>>
    /\ entry = [j \in Jobs |-> "none"]
    /\ attempts = [j \in Jobs |-> 0]
    /\ bound = {} /\ cancelAt = {}
    /\ revoked = FALSE /\ taskActive = TRUE
    /\ root = [j \in Jobs |-> "none"] /\ liable = {}
    /\ runtime = TRUE
    /\ prompted = {} /\ current = None /\ gaps = {} /\ cached = {} /\ shelved = {}
    /\ running = FALSE /\ ended = FALSE /\ exited = TRUE /\ acked = TRUE
    /\ session = TRUE /\ hold = None /\ cancelling = FALSE /\ marker = None
    /\ rested = FALSE /\ pc = "idle" /\ snap = NoSnap
    /\ handler = "idle" /\ target = None
    /\ post = [j \in Jobs |-> "none"]
    /\ runs = [j \in Jobs |-> 0]
    /\ live = {} /\ lost = FALSE /\ faults = 0

Fault == faults < MaxFaults /\ faults' = faults + 1
NoFault == UNCHANGED faults

----------------------------------------------------------------------------
(* Backend: what each transaction does to the ledger *)

Unresolved(j) == entry[j] \in {"reserved", "outcome_unknown", "accepted"}

\* Mutant: a row that may already have crossed the boundary is cancelled.
FenceRowsAll(S) ==
    /\ entry' = [j \in Jobs |-> IF j \in S /\ Unresolved(j) THEN "cancelled" ELSE entry[j]]
    /\ cancelAt' = cancelAt \cup {j \in S : Unresolved(j)}

\* _cancel_v3_ledger_entry for each row of S.
FenceRows(S) ==
    /\ entry' = [j \in Jobs |-> IF j \in S /\ entry[j] = "reserved"
                                  THEN "cancelled" ELSE entry[j]]
    /\ cancelAt' = cancelAt \cup {j \in S : Unresolved(j)}

\* _v3_intent
Intent(j) ==
    [job    |-> j,
     status |-> entry[j],
     cancel |-> Unresolved(j) /\ (j \in cancelAt \/ revoked),
     may    |-> entry[j] = "reserved" /\ ~revoked /\ j \notin cancelAt /\ taskActive]

\* reserve_default_continuation_v3 writes a new row.
Reservable(j) == j \in ready /\ entry[j] = "none" /\ taskActive /\ ~revoked

\* claim_continuation_dispatch
MayDispatch(j) ==
    /\ ~revoked
    /\ entry[j] = "reserved" /\ attempts[j] = 0
    /\ j \notin cancelAt
    /\ taskActive

\* _require_acp_root_terminal_safe
TerminalSafe(j) == j \notin liable

\* record_continuation_receipt(settled), _assert_v3_runtime_settlement
MaySettle(j) ==
    /\ entry[j] \in {"accepted", "outcome_unknown"}
    /\ j \in bound
    /\ root[j] = "closed" /\ TerminalSafe(j)

\* A signal Job completes with a validated snapshot.
SignalReady(j) ==
    /\ j \notin ready
    /\ ready' = ready \cup {j}
    /\ UNCHANGED <<ledger, entry, attempts, bound, cancelAt, revoked, taskActive, roots,
                   adapter, gateway, history>>

\* revoke_continuation_permission, _fence_revoked_v3_rows
RevokePermission ==
    /\ ~revoked
    /\ revoked' = TRUE
    /\ FenceRows(Jobs)
    /\ UNCHANGED <<ready, ledger, attempts, bound, taskActive, roots, adapter, gateway, history>>

\* The task or the conversation is completed or cancelled.
TaskEnds ==
    /\ taskActive
    /\ taskActive' = FALSE
    /\ UNCHANGED <<ready, ledger, entry, attempts, bound, cancelAt, revoked, roots,
                   adapter, gateway, history>>

----------------------------------------------------------------------------
(* Runtime adapter *)

\* Mutant: a settled receipt needs no acknowledged terminal event.
ReceiptEarly(j) ==
    IF ~runtime THEN "missing"
    ELSE IF j \in cached THEN "settled"
    ELSE IF j \in shelved THEN "unknown"
    ELSE IF current # j THEN "missing"
    ELSE IF running THEN "accepted"
    ELSE "settled"

\* continuation_receipt, _task_ready_budget_receipt: nothing short of complete
\* evidence of the run settles its receipt.
Receipt(j) ==
    IF ~runtime THEN "missing"
    ELSE IF j \in cached THEN "settled"
    ELSE IF j \in shelved THEN "unknown"
    ELSE IF current # j THEN "missing"
    ELSE IF running THEN "accepted"
    ELSE IF exited /\ acked /\ gaps = {} THEN "settled" ELSE "unknown"

\* Settled receipts are kept for later questions once they have been made.
Remember(S) == cached' = cached \cup {j \in S : Receipt(j) = "settled"}

\* submit_prompt also keeps the receipt of the root that it replaces when its
\* outcome is unknown: it stays unknown.
Shelve == shelved' = shelved \cup {j \in Jobs : Receipt(j) = "unknown"}

\* A new root needs the previous one to be gone, drained and acknowledged.
RootAdmitted == runtime /\ ~running /\ exited /\ acked /\ "open" \notin gaps

\* The accepted root, from its registration to the start of its thread.
StartRoot(j) ==
    /\ prompted' = prompted \cup {j}
    /\ current' = j
    /\ running' = TRUE /\ ended' = FALSE /\ exited' = FALSE /\ acked' = FALSE
    /\ gaps' = {}
    /\ root' = [root EXCEPT ![j] = "active"]
    /\ runs' = [runs EXCEPT ![j] = @ + 1]
    /\ live' = live \cup {j}

\* submit_prompt for a reservation: a known key returns its run; a new root
\* that is not admitted is refused, which the Gateway takes for a lost answer.
SubmitPrompt(j) ==
    /\ runtime /\ post[j] = "sent"
    /\ IF j \notin prompted /\ RootAdmitted
         THEN Remember(Jobs) /\ Shelve /\ StartRoot(j) /\ UNCHANGED runtime
         ELSE UNCHANGED <<adapter, root, runs, live>>
    /\ post' = [post EXCEPT ![j] =
           IF j \in prompted \/ RootAdmitted THEN "accepted" ELSE "none"]
    /\ UNCHANGED <<ready, ledger, entry, attempts, bound, cancelAt, revoked, taskActive,
                   liable, gateway, lost, faults>>

\* The prompt request never reaches the adapter, or is refused for another reason.
PromptLost(j) ==
    /\ post[j] = "sent" /\ Fault
    /\ post' = [post EXCEPT ![j] = "none"]
    /\ UNCHANGED <<backend, adapter, gateway, runs, live, lost>>

\* An ordinary turn of the user, from start to acknowledgement: it replaces the
\* current root, whose receipt submit_prompt first puts away.
OrdinaryTurn ==
    /\ session /\ RootAdmitted /\ current # None
    /\ Remember(Jobs) /\ Shelve
    /\ current' = None /\ gaps' = {}
    /\ UNCHANGED <<runtime, prompted, running, ended, exited, acked, backend, gateway, history>>

\* The run calls a domain tool, or opens what it must close, and that is not
\* over at once: Backend admits the call while the root is active
\* (claim_domain_call, observe_acp_tool_ingress).
DomainCall(j) ==
    /\ current = j /\ running /\ "open" \notin gaps /\ Fault
    /\ gaps' = gaps \cup {"open"}
    /\ \/ UNCHANGED liable
       \/ root[j] = "active" /\ liable' = liable \cup {j}
    /\ UNCHANGED <<ready, ledger, entry, attempts, bound, cancelAt, revoked, taskActive, root,
                   runtime, prompted, current, running, ended, exited, acked, receipts,
                   gateway, post, runs, live, lost>>

\* The proxy is closed, the last call acknowledged (acknowledge_domain_call).
CloseGap ==
    /\ "open" \in gaps
    /\ gaps' = gaps \ {"open"}
    /\ UNCHANGED <<runtime, prompted, current, running, ended, exited, acked, receipts,
                   backend, gateway, history>>

\* The last call of the root is accounted for (execute_domain_call,
\* settle_acp_tool_ingress).
CallAccounted(j) ==
    /\ j \in liable
    /\ liable' = liable \ {j}
    /\ UNCHANGED <<ready, ledger, entry, attempts, bound, cancelAt, revoked, taskActive, root,
                   adapter, gateway, history>>

\* A provider request, or the record of one, comes to nothing provable
\* (settlement_state is UNKNOWN_OR_UNPAIRED), or a guard cannot be read.
ProofLost ==
    /\ running /\ Fault
    /\ gaps' = gaps \cup {"unproven"}
    /\ UNCHANGED <<runtime, prompted, current, running, ended, exited, acked, receipts,
                   backend, gateway, post, runs, live, lost>>

\* _run_prompt returns, fails, or is stopped by the watchdog, which also waits
\* for the process.
RunEnds ==
    /\ running
    /\ running' = FALSE /\ ended' = TRUE
    /\ \/ UNCHANGED <<exited, live>>
       \/ exited' = TRUE /\ live' = live \ {current}
    /\ UNCHANGED <<runtime, prompted, current, acked, gaps, receipts, backend, gateway,
                   post, runs, lost, faults>>

\* cancel_session(expected_root_run_id): soft publishes the terminal event and
\* lets the run stop, hard closes the process before it answers.
Stoppable(j) == runtime /\ current = j /\ running /\ ~ended

StopRoot(j) ==
    /\ Stoppable(j)
    /\ ended' = TRUE
    /\ \/ UNCHANGED <<running, exited, live>>
       \/ running' = FALSE /\ exited' = TRUE /\ live' = live \ {j}
    /\ UNCHANGED <<runtime, prompted, current, acked, gaps, receipts>>

\* What _send_agent_lifecycle can do for a terminal event.  Backend refuses the
\* event while calls of the root are unaccounted for.
Closable(j) == /\ session /\ runtime /\ current = j /\ ended
               /\ root[j] = "active" /\ TerminalSafe(j)
Ackable(j)  == session /\ runtime /\ current = j /\ ended /\ root[j] = "closed" /\ ~acked

\* First half, close_runtime_root: Backend closes the exact root.
CloseRoot(j) ==
    /\ Closable(j)
    /\ root' = [root EXCEPT ![j] = "closed"]
    /\ UNCHANGED <<ready, ledger, entry, attempts, bound, cancelAt, revoked, taskActive,
                   liable, adapter, live>>

\* Second half, acknowledge_terminal: the adapter closes the process, then
\* drops its fence.
AckTerminal(j) ==
    /\ Ackable(j)
    /\ acked' = TRUE /\ exited' = TRUE
    /\ live' = live \ {j}
    /\ UNCHANGED <<runtime, prompted, current, running, ended, gaps, receipts, backend>>

\* The trace delivery sends the terminal event of the current root.
DeliverTerminal(j) ==
    /\ CloseRoot(j) \/ AckTerminal(j)
    /\ UNCHANGED <<gateway, post, runs, lost, faults>>

----------------------------------------------------------------------------
(* Gateway: the poller *)

Goto(place, s) == pc' = place /\ snap' = s
Return == Goto("idle", NoSnap)

\* The answer to a Backend request is lost, and tick drops the exception; the
\* transaction has committed all the same.
GotoOrLose(place, s) ==
    \/ Goto(place, s) /\ NoFault
    \/ Return /\ Fault

\* _attach_continuation_observer and _require_session_runtime_authority: the
\* registered session, or the original runtime after a restart of the Gateway.
Attach == session' = TRUE /\ rested' = (rested /\ session)

\* hold_v3_continuation
Holdable(j) == hold \in {None, j}

UnresolvedRows == {i \in DOMAIN ledger : Unresolved(ledger[i])}
FirstUnresolved ==
    {ledger[i] : i \in {m \in UnresolvedRows : \A k \in UnresolvedRows : m <= k}}

\* peek_default_continuation_v3: the first unresolved row, else a candidate,
\* else the first terminal row.  A candidate that reserve refuses (the task is
\* over, the permission revoked) ends the search with nothing to do.
Peeked ==
    IF UnresolvedRows # {} THEN {Intent(j) : j \in FirstUnresolved}
    ELSE IF \E j \in Jobs : Reservable(j)
           THEN {[NoSnap EXCEPT !.job = j] : j \in {k \in Jobs : Reservable(k)}}
    ELSE IF ledger # <<>> /\ taskActive /\ \A j \in ready : entry[j] # "none"
           THEN {Intent(ledger[1])}
    ELSE {}

Peek ==
    /\ pc = "idle" /\ marker = None
    /\ \E s \in Peeked : Goto(IF s.status = "none" THEN "claim" ELSE "intent", s)
    /\ UNCHANGED <<backend, adapter, session, hold, cancelling, marker, rested,
                   handler, target, history>>

\* A poll of a conversation with nothing to continue.
PeekNothing ==
    /\ pc = "idle" /\ marker = None
    /\ Peeked = {}
    /\ session /\ ~rested
    /\ rested' = TRUE
    /\ UNCHANGED <<backend, adapter, session, hold, cancelling, marker, pc, snap,
                   handler, target, history>>

\* claim_default_continuation_v3, first transaction.
Reserve ==
    /\ pc = "claim"
    /\ IF runtime /\ Reservable(snap.job)
         THEN /\ ledger' = Append(ledger, snap.job)
              /\ entry' = [entry EXCEPT ![snap.job] = "reserved"]
              /\ Attach
              /\ GotoOrLose("reserved", snap)
         ELSE Return /\ NoFault /\ UNCHANGED <<ledger, entry, session, rested>>
    /\ UNCHANGED <<ready, attempts, bound, cancelAt, revoked, taskActive, roots, adapter,
                   hold, cancelling, marker, handler, target, post, runs, live, lost>>

\* Second transaction: the row as it is by now.
ReadClaim ==
    /\ pc = "reserved"
    /\ IF Unresolved(snap.job) THEN Goto("intent", Intent(snap.job)) ELSE Return
    /\ UNCHANGED <<backend, adapter, session, hold, cancelling, marker, rested,
                   handler, target, history>>

\* _consume_v3_task_continuation up to the adapter's receipt: the session is
\* held for this reservation and no other.  A stop found in the ledger first
\* becomes a marker that closes the session for dispatch
\* (_ensure_v3_cancel_marker).
HoldSession ==
    /\ pc = "intent"
    /\ LET j == snap.job
           stopped == snap.cancel /\ marker \in {None, j}
           refused == snap.cancel /\ (~stopped \/ (session /\ ~Holdable(j)))
           holds == ~refused /\ Holdable(j) /\ runtime
       IN  /\ marker' = IF stopped THEN j ELSE marker
           /\ IF holds \/ (stopped /\ session /\ Holdable(j))
                THEN hold' = j /\ cancelling' = (cancelling \/ stopped)
                ELSE UNCHANGED <<hold, cancelling>>
           /\ IF holds
                THEN Attach /\ Goto("receipt", snap)
                ELSE Return /\ rested' = session /\ UNCHANGED session
    /\ UNCHANGED <<backend, adapter, handler, target, history>>

\* finish_continuation
Finish(j) ==
    IF hold = j THEN hold' = None /\ cancelling' = FALSE
    ELSE UNCHANGED <<hold, cancelling>>

\* The adapter's missing-record shape, for the receipt and for the prompt.
NoRuntimeTrace(j) == Receipt(j) = "missing" /\ (runtime => j \notin prompted)

\* may_dispatch of the intent, and v3_cancel_blocks_dispatch.
DispatchBlocked(j) == ~snap.may \/ snap.cancel \/ (hold = j /\ cancelling)

\* A terminal row whose hold may go although the adapter has no receipt: a
\* never dispatched one, or (finish_v3_settled_missing_runtime) a settled one
\* that nobody asked to stop.
Retired(j) ==
    /\ NoRuntimeTrace(j) /\ marker = None
    /\ \/ snap.status = "cancelled" /\ attempts[j] = 0
       \/ snap.status = "settled" /\ runtime /\ ~cancelling /\ j \notin cancelAt

\* The adapter's receipt decides what is left to do.
ReadReceipt ==
    /\ pc = "receipt"
    /\ rested' = TRUE
    /\ LET j == snap.job
           r == Receipt(j)
           known == r \in {"accepted", "settled"} \/ (r = "missing" /\ ~NoRuntimeTrace(j))
           unfenced == r = "unknown" /\ snap.status = "reserved" /\ entry[j] = "reserved"
       IN  /\ IF Retired(j) THEN Finish(j) ELSE UNCHANGED <<hold, cancelling>>
           /\ \/ NoRuntimeTrace(j) /\ runtime /\ ~DispatchBlocked(j) /\ Goto("dispatch", snap)
              \/ NoRuntimeTrace(j) /\ (~runtime \/ DispatchBlocked(j)) /\ Return
              \/ known /\ snap.status \in {"outcome_unknown", "accepted"} /\ Goto("accept", snap)
              \/ r = "settled" /\ snap.status = "settled" /\ Goto("finish", snap)
              \/ (r = "unknown" \/ (known /\ snap.status \notin {"outcome_unknown", "accepted"}
                                    /\ ~(r = "settled" /\ snap.status = "settled"))) /\ Return
           /\ entry' = IF unfenced THEN [entry EXCEPT ![j] = "outcome_unknown"] ELSE entry
           /\ attempts' = IF unfenced THEN [attempts EXCEPT ![j] = 1] ELSE attempts
           /\ Remember({j})
    /\ UNCHANGED <<ready, ledger, bound, cancelAt, revoked, taskActive, roots,
                   runtime, prompted, current, running, ended, exited, acked, gaps, shelved,
                   session, marker, handler, target, history>>

\* Mutant: the fence is written with the acceptance, after the boundary.
DispatchUnfenced ==
    /\ pc = "dispatch"
    /\ MayDispatch(snap.job)
    /\ GotoOrLose("post", snap)
    /\ UNCHANGED <<backend, adapter, session, hold, cancelling, marker, rested,
                   handler, target, post, runs, live, lost>>

\* claim_continuation_dispatch: the uncertainty is durable before the Gateway
\* crosses the process boundary.
Dispatch ==
    /\ pc = "dispatch"
    /\ IF MayDispatch(snap.job)
         THEN /\ entry' = [entry EXCEPT ![snap.job] = "outcome_unknown"]
              /\ attempts' = [attempts EXCEPT ![snap.job] = 1]
              /\ UNCHANGED cancelAt
              /\ GotoOrLose("post", snap)
         ELSE /\ IF revoked THEN FenceRows(Jobs) ELSE UNCHANGED <<entry, cancelAt>>
              /\ UNCHANGED attempts
              /\ Return /\ NoFault
    /\ UNCHANGED <<ready, ledger, bound, revoked, taskActive, roots, adapter, session, hold,
                   cancelling, marker, rested, handler, target, post, runs, live, lost>>

PostPrompt ==
    /\ pc = "post"
    /\ post' = [post EXCEPT ![snap.job] = "sent"]
    /\ Goto("await", snap)
    /\ UNCHANGED <<backend, adapter, session, hold, cancelling, marker, rested,
                   handler, target, runs, live, lost, faults>>

\* The answer, or the timeout: "Never retry or clear the exact Gateway lease".
\* The request itself may still arrive after the timeout.
AwaitPrompt ==
    /\ pc = "await"
    /\ \/ post[snap.job] = "accepted" /\ Goto("accept", snap) /\ NoFault
       \/ post[snap.job] = "none" /\ Return /\ NoFault
       \/ Return /\ Fault
    /\ UNCHANGED <<backend, adapter, session, hold, cancelling, marker, rested,
                   handler, target, post, runs, live, lost>>

\* record_continuation_receipt(accepted)
MayAccept(j) == entry[j] \in {"outcome_unknown", "accepted"}

RecordAccepted ==
    /\ pc = "accept"
    /\ LET j == snap.job IN
       IF MayAccept(j)
         THEN /\ entry' = [entry EXCEPT ![j] = "accepted"]
              /\ bound' = bound \cup {j}
              /\ GotoOrLose(IF ~snap.may /\ j \in cached THEN "settle" ELSE "idle", snap)
         ELSE Return /\ NoFault /\ UNCHANGED <<entry, bound>>
    /\ UNCHANGED <<ready, ledger, attempts, cancelAt, revoked, taskActive, roots, adapter,
                   session, hold, cancelling, marker, rested, handler, target,
                   post, runs, live, lost>>

\* record_continuation_receipt(settled)
RecordSettled ==
    /\ pc = "settle"
    /\ IF MaySettle(snap.job)
         THEN /\ entry' = [entry EXCEPT ![snap.job] = "settled"]
              /\ GotoOrLose("finish", snap)
         ELSE Return /\ NoFault /\ UNCHANGED entry
    /\ UNCHANGED <<ready, ledger, attempts, bound, cancelAt, revoked, taskActive, roots,
                   adapter, session, hold, cancelling, marker, rested, handler, target,
                   post, runs, live, lost>>

\* The hold goes with the settlement, unless a stop is pending.
ReleaseHold ==
    /\ pc = "finish"
    /\ IF snap.cancel \/ marker = snap.job THEN UNCHANGED <<hold, cancelling>>
       ELSE Finish(snap.job)
    /\ Return
    /\ UNCHANGED <<backend, adapter, session, marker, rested, handler, target, history>>

----------------------------------------------------------------------------
(* Gateway: the poller's part of a cancellation, _retry_v3_continuation_cancel *)

\* The marker of an unresolved stop takes the tick; nothing is consumed.
CancelTick ==
    /\ pc = "idle" /\ marker # None
    /\ IF (session \/ runtime) /\ Holdable(marker)
         THEN /\ IF runtime THEN Attach ELSE UNCHANGED <<session, rested>>
              /\ hold' = marker /\ cancelling' = TRUE
              /\ Goto("fence", [NoSnap EXCEPT !.job = marker])
         ELSE /\ UNCHANGED <<session, hold, cancelling, rested>>
              /\ IF session \/ runtime THEN Return
                 ELSE Goto("fence", [NoSnap EXCEPT !.job = marker])
    /\ UNCHANGED <<backend, adapter, marker, handler, target, history>>

\* cancel_default_continuation_v3
FenceTick ==
    /\ pc = "fence"
    /\ FenceRows({snap.job})
    /\ GotoOrLose("target", snap)
    /\ UNCHANGED <<ready, ledger, attempts, bound, revoked, taskActive, roots, adapter,
                   session, hold, cancelling, marker, rested, handler, target,
                   post, runs, live, lost>>

\* Mutant: a stop counts as done once the fence is in the ledger.
QuietFenced(j) == j \in cancelAt

\* What ends a cancellation: the row was never dispatched and the Runtime
\* knows nothing of it, or Backend and Runtime agree on its settlement.
Quiet(j) ==
    \/ entry[j] = "cancelled" /\ attempts[j] = 0 /\ NoRuntimeTrace(j)
    \/ entry[j] = "settled" /\ Receipt(j) = "settled" /\ root[j] = "closed"

\* _v3_cancel_target, and what follows from it.
CancelTarget ==
    /\ pc = "target"
    /\ LET j == snap.job IN
       \/ /\ Quiet(j)
          /\ Finish(j) /\ Goto("clear", snap)
          /\ UNCHANGED <<adapter, root, live>>
       \/ /\ ~Quiet(j) /\ StopRoot(j)
          /\ Return
          /\ UNCHANGED <<root, hold, cancelling>>
       \/ /\ ~Quiet(j) /\ (CloseRoot(j) \/ AckTerminal(j))
          /\ UNCHANGED <<hold, cancelling, pc, snap>>
       \/ /\ ~Quiet(j) /\ Receipt(j) = "settled" /\ root[j] = "closed"
          /\ Goto("receipt", Intent(j))
          /\ UNCHANGED <<adapter, root, live, hold, cancelling>>
       \/ /\ ~Quiet(j) /\ Receipt(j) # "settled" /\ ~Stoppable(j)
          /\ ~Closable(j) /\ (Ackable(j) => "open" \in gaps)
          /\ Return
          /\ UNCHANGED <<adapter, root, live, hold, cancelling>>
    /\ UNCHANGED <<ready, ledger, entry, attempts, bound, cancelAt, revoked, taskActive,
                   liable, session, marker, rested, handler, target, post, runs, lost, faults>>

\* clear_cancel
ClearMarker ==
    /\ pc = "clear"
    /\ marker' = IF marker = snap.job THEN None ELSE marker
    /\ Return
    /\ UNCHANGED <<backend, adapter, session, hold, cancelling, rested, handler, target,
                   history>>

----------------------------------------------------------------------------
(* Gateway: cancel_product_session, in a thread of its own *)

\* The stop is set in memory and written to the marker (or the write fails)
\* before any boundary is crossed.
UserCancel(j) ==
    /\ handler = "idle" /\ session
    /\ hold = j \/ (hold = None /\ marker = j)
    /\ marker \in {None, j}
    /\ hold' = j /\ cancelling' = TRUE
    /\ \/ marker' = j /\ NoFault
       \/ marker' = marker /\ Fault
    /\ handler' = "target" /\ target' = j
    /\ UNCHANGED <<backend, adapter, session, rested, pc, snap, post, runs, live, lost>>

\* _v3_cancel_target: whether there is a root to stop is read before the fence
\* is written.
UserTarget ==
    /\ handler = "target"
    /\ handler' = IF Stoppable(target) THEN "fencestop" ELSE "fence"
    /\ UNCHANGED <<backend, adapter, session, hold, cancelling, marker, rested, pc, snap,
                   target, history>>

\* cancel_default_continuation_v3; a fence that fails is only logged.
UserFence ==
    /\ handler \in {"fence", "fencestop"}
    /\ \/ FenceRows({target}) /\ NoFault
       \/ UNCHANGED <<entry, cancelAt>> /\ Fault
    /\ IF handler = "fencestop"
         THEN handler' = "stop" /\ UNCHANGED target
         ELSE handler' = "idle" /\ target' = None
    /\ UNCHANGED <<ready, ledger, attempts, bound, revoked, taskActive, roots, adapter,
                   session, hold, cancelling, marker, rested, pc, snap,
                   post, runs, live, lost>>

\* _request_v3_runtime_cancel of the root that was read, which may be over.
UserStop ==
    /\ handler = "stop"
    /\ \/ StopRoot(target) /\ NoFault
       \/ ~Stoppable(target) /\ NoFault /\ UNCHANGED <<adapter, live>>
       \/ Stoppable(target) /\ Fault /\ UNCHANGED <<adapter, live>>
    /\ handler' = "idle" /\ target' = None
    /\ UNCHANGED <<backend, session, hold, cancelling, marker, rested, pc, snap,
                   post, runs, lost>>

----------------------------------------------------------------------------
(* Sessions and faults *)

\* Mutant: the idle timer does not look at the continuation lease.
IdleHeld == session /\ rested

\* claim_idle_release.  The timer (30 s) outlasts the poll that takes the hold.
Idle == session /\ rested /\ hold = None

ForgetRuntime ==
    /\ prompted' = {} /\ current' = None /\ gaps' = {} /\ cached' = {} /\ shelved' = {}
    /\ running' = FALSE /\ ended' = FALSE /\ exited' = TRUE /\ acked' = TRUE

\* The idle release closes the adapter's session, which refuses while a run is
\* active or its terminal event is not acknowledged.
IdleRelease ==
    /\ Idle
    /\ runtime /\ ~running /\ (ended => acked)
    /\ session' = FALSE /\ rested' = FALSE
    /\ runtime' = FALSE /\ ForgetRuntime
    /\ UNCHANGED <<backend, hold, cancelling, marker, pc, snap, handler, target, history>>

\* _restore_product_session: the user comes back to the conversation.  A poll
\* that still has the old session fails its check of the boot identity, so the
\* new one is taken to appear between two polls.
RestoreSession ==
    /\ taskActive /\ (~session \/ ~runtime)
    /\ pc = "idle" /\ handler = "idle"
    /\ session' = TRUE /\ runtime' = TRUE /\ rested' = FALSE
    /\ hold' = None /\ cancelling' = FALSE
    /\ UNCHANGED <<prompted, current, running, ended, exited, acked, gaps, receipts,
                   backend, marker, pc, snap, handler, target, history>>

\* The Gateway dies.  Its marker, and a prompt that is on its way, survive.
GatewayCrash ==
    /\ Fault
    /\ session' = FALSE /\ hold' = None /\ cancelling' = FALSE /\ rested' = FALSE
    /\ Return
    /\ handler' = "idle" /\ target' = None
    /\ UNCHANGED <<backend, adapter, marker, post, runs, live, lost>>

\* The adapter dies with everything it knew.  A process of its may survive it.
AdapterCrash ==
    /\ Fault /\ runtime
    /\ runtime' = FALSE /\ ForgetRuntime
    /\ live' \in SUBSET live
    /\ post' = [j \in Jobs |-> IF post[j] = "sent" THEN "none" ELSE post[j]]
    /\ lost' = TRUE
    /\ UNCHANGED <<backend, gateway, runs>>

----------------------------------------------------------------------------

PollerStep ==
    \/ Peek \/ PeekNothing \/ Reserve \/ ReadClaim \/ HoldSession \/ ReadReceipt
    \/ Dispatch \/ PostPrompt \/ AwaitPrompt \/ RecordAccepted \/ RecordSettled
    \/ ReleaseHold \/ CancelTick \/ FenceTick \/ CancelTarget \/ ClearMarker

Next ==
    \/ PollerStep
    \/ \E j \in Jobs : SignalReady(j) \/ SubmitPrompt(j) \/ PromptLost(j)
                       \/ DomainCall(j) \/ CallAccounted(j) \/ DeliverTerminal(j)
                       \/ UserCancel(j)
    \/ RevokePermission \/ TaskEnds
    \/ OrdinaryTurn \/ CloseGap \/ ProofLost \/ RunEnds
    \/ UserTarget \/ UserFence \/ UserStop
    \/ IdleRelease \/ RestoreSession
    \/ GatewayCrash \/ AdapterCrash

Spec == Init /\ [][Next]_vars

\* The poller and the trace delivery loop for ever, the adapter answers what it
\* receives, a run ends (the watchdog sees to it), a request handler returns.
\* Nothing makes Backend account for a call, or the adapter close what is open:
\* while it is open, its process may refuse to go and the acknowledgement fail.
Fairness ==
    /\ WF_vars(PollerStep)
    /\ \A j \in Jobs : /\ WF_vars(SubmitPrompt(j))
                       /\ WF_vars(DeliverTerminal(j) /\ (acked' => acked \/ "open" \notin gaps))
    /\ WF_vars(RunEnds)
    /\ WF_vars(UserTarget \/ UserFence \/ UserStop)

FairSpec == Spec /\ Fairness

----------------------------------------------------------------------------
(* Properties *)

\* However often the Gateway or the adapter restarts, and whichever answers are
\* lost, one ready signal starts the model at most once.
AtMostOneRun == \A j \in Jobs : runs[j] <= 1

\* A reservation that the ledger calls cancelled never reaches the Runtime: no
\* run of it exists and no prompt for it is on its way.
CancelledNeverRuns ==
    \A j \in Jobs : entry[j] = "cancelled" =>
        runs[j] = 0 /\ attempts[j] = 0 /\ post[j] = "none"

\* The adapter cannot prove how the run ended, or could not when it replaced it.
Unproven(j) == j \in shelved \/ (current = j /\ "unproven" \in gaps)

\* The ledger settles a continuation only when its process is gone, its root is
\* closed and every call of it accounted for, and never one that the adapter
\* cannot prove, although its root may have been replaced since (ADR-0105
\* section 5).
SettledIsOver ==
    \A j \in Jobs : entry[j] = "settled" =>
        /\ j \notin live /\ root[j] = "closed"
        /\ j \notin liable /\ ~Unproven(j)

\* A cancel marker is removed only when its continuation neither runs nor can
\* run any more.
ClearedIsQuiet ==
    [][\A j \in Jobs : marker = j /\ marker' # j =>
          entry'[j] \in Settled /\ j \notin live' /\ post'[j] # "sent"]_vars

\* What the ledger's status commits to.
Commitment(j) == IF entry[j] \in {"outcome_unknown", "accepted"} THEN "dispatched" ELSE entry[j]

\* The three processes together keep the promise of ContinuationPromise: whether
\* a signal may still run is decided once, in the ledger, before the boundary is
\* crossed, and nothing is taken back.
Promise == INSTANCE ContinuationPromise WITH stage <- [j \in Jobs |-> Commitment(j)]
PromiseSpec == Promise!Spec

\* What a continuation may be waiting for: nothing bounds the time until its
\* calls are accounted for and what it left open is closed.
Unreconciled(j) == j \in liable \/ (current = j /\ "open" \in gaps)

\* An accepted continuation is settled unless the adapter forgets it, its run
\* cannot be proven, or something of it stays unreconciled for ever: no idle
\* release, ordinary turn, cancellation or restart of the Gateway loses its
\* receipt.
AcceptedSettles ==
    \A j \in Jobs :
        \/ <>[]Unreconciled(j)
        \/ entry[j] = "accepted" ~> entry[j] = "settled" \/ lost \/ Unproven(j)
=============================================================================
