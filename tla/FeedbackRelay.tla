--------------------------- MODULE FeedbackRelay ---------------------------
(***************************************************************************)
(* The owner's side of a feedback: product_feedback.py with its outbox, and *)
(* the feedback-hub-relay worker that carries the outbox to the Hub and     *)
(* the Hub's status back, composed with the Hub (FeedbackHub).              *)
(*                                                                         *)
(* A Backend operation is one transaction.  All relays use one configured   *)
(* worker_id, so the fence alone tells their deliveries apart; as in the    *)
(* Hub, attempt and lease_fence are one variable.  Drafts and their         *)
(* revisions, previews, command replay and rate limits are left out.        *)
(***************************************************************************)
EXTENDS FeedbackHub

CONSTANTS
    Relays,         \* relay processes at one time
    MaxDelivery     \* MAX_HUB_DELIVERY_ATTEMPTS

ASSUME RelayBounds == MaxDelivery \in Nat \ {0}

VARIABLES
    feedback,       \* product_feedback.status
    box,            \* product_feedback_hub_outbox.state, "none" before submit
    sent,           \* its attempt and lease_fence
    relay,          \* [Relays -> RelayState]
    lateIntake      \* an intake request outlived the relay's wait

relayVars == <<feedback, box, sent, relay, lateIntake>>
vars == <<hubVars, relayVars>>

Projected == Status \ {"none"}
BoxState == Projected \cup {"none", "queued", "delivering", "retry_wait", "cancelled",
                            "failed_terminal"}
RelayState ==
    [at : {"idle", "deliver", "complete", "retry", "status"},
     fence : 0..MaxDelivery, seen : Status, fatal : BOOLEAN]
Asleep == [at |-> "idle", fence |-> 0, seen |-> "none", fatal |-> FALSE]

TypeOK ==
    /\ HubTypeOK
    /\ feedback \in {"draft", "submitted", "withdrawn"}
    /\ box \in BoxState
    /\ sent \in 0..MaxDelivery
    /\ lateIntake \in BOOLEAN
    /\ relay \in [Relays -> RelayState]

Init ==
    /\ HubInit
    /\ feedback = "draft" /\ box = "none" /\ sent = 0
    /\ relay = [r \in Relays |-> Asleep]
    /\ lateIntake = FALSE

----------------------------------------------------------------------------
(* The owner *)

\* submit: the decision and the outbox row commit together.
Submit ==
    /\ feedback = "draft"
    /\ feedback' = "submitted"
    /\ box' = "queued"
    /\ UNCHANGED <<sent, relay, lateIntake, hubVars>>

\* Mutant: a delivery that failed does not count as started.
WithdrawableBetween == box \in {"queued", "retry_wait"}

\* _owner_transition(withdraw)
Withdrawable == box = "queued" /\ sent = 0

Withdraw ==
    /\ feedback = "submitted" /\ Withdrawable
    /\ feedback' = "withdrawn" /\ box' = "cancelled"
    /\ UNCHANGED <<sent, relay, lateIntake, hubVars>>

----------------------------------------------------------------------------
(* _deliver *)

Go(r, place) == relay' = [relay EXCEPT ![r].at = place]
Sleep(r) == relay' = [relay EXCEPT ![r] = Asleep]
Retrying(r, fatal) == relay' = [relay EXCEPT ![r].at = "retry", ![r].fatal = fatal]

\* Mutant: a delivery whose relay died is never taken up again.
ClaimableQueued == feedback = "submitted" /\ box \in {"queued", "retry_wait"}

\* The row is due, or its lease has run out, at any time: nothing but this test
\* looks at either.
Claimable == feedback = "submitted" /\ box \in {"queued", "retry_wait", "delivering"}

Spent == sent >= MaxDelivery

\* claim_hub_deliveries; its answer may be lost.
ClaimDelivery(r) ==
    /\ relay[r].at = "idle" /\ Claimable
    /\ IF Spent
         THEN /\ box' = "failed_terminal"
              /\ UNCHANGED <<sent, relay, faults>>
         ELSE /\ box' = "delivering" /\ sent' = sent + 1
              /\ \/ relay' = [relay EXCEPT ![r].at = "deliver", ![r].fence = sent + 1] /\ NoFault
                 \/ UNCHANGED relay /\ Fault
    /\ UNCHANGED <<feedback, lateIntake, status, mod, row, dispatcher, msgs, pub,
                   github, dropped>>

\* The intake request: answered, executed without an answer, late or never
\* arrived, rejected by validation, or (rate_limited, unavailable) refused.
Deliver(r) ==
    /\ relay[r].at = "deliver"
    /\ \/ Intake /\ Go(r, "complete") /\ UNCHANGED lateIntake
       \/ Intake /\ Retrying(r, FALSE) /\ UNCHANGED lateIntake
       \/ /\ UNCHANGED <<status, mod, row, dispatcher, msgs, pub, github, dropped>>
          /\ \/ lateIntake' \in {lateIntake, TRUE} /\ Retrying(r, FALSE)
             \/ status = "none" /\ Retrying(r, TRUE) /\ UNCHANGED lateIntake
    /\ UNCHANGED <<feedback, box, sent, faults>>

LateIntake ==
    /\ lateIntake /\ lateIntake' = FALSE
    /\ Intake
    /\ UNCHANGED <<feedback, box, sent, relay, faults>>

\* _hub_leased_row
Holding(r) == box = "delivering" /\ sent = relay[r].fence

\* complete_hub_delivery: a conflict, or an answer that does not come, makes
\* the relay report a failure instead.
CompleteDelivery(r) ==
    /\ relay[r].at = "complete"
    /\ \/ Holding(r) /\ box' = "received" /\ Sleep(r)
       \/ Holding(r) /\ box' = "received" /\ Retrying(r, FALSE)
       \/ Retrying(r, ~Holding(r)) /\ UNCHANGED box
    /\ UNCHANGED <<feedback, sent, lateIntake, hubVars>>

\* retry_hub_delivery; a stale fence changes nothing.
RetryDelivery(r) ==
    /\ relay[r].at = "retry"
    /\ IF Holding(r)
         THEN box' = IF relay[r].fatal \/ Spent THEN "failed_terminal" ELSE "retry_wait"
         ELSE UNCHANGED box
    /\ Sleep(r)
    /\ UNCHANGED <<feedback, sent, lateIntake, hubVars>>

----------------------------------------------------------------------------
(* _refresh_statuses *)

\* claim_hub_status_checks and publicStatus: the status as the Hub shows it (an
\* unchanged one would change nothing).
ReadStatus(r) ==
    /\ relay[r].at = "idle"
    /\ box \in {"received", "triaged", "accepted", "publishing"}
    /\ box # status
    /\ relay' = [relay EXCEPT ![r].at = "status", ![r].seen = status]
    /\ UNCHANGED <<feedback, box, sent, lateIntake, hubVars>>

\* The transitions of update_hub_status.
Allowed(from, to) ==
    \/ from = to
    \/ from = "received" /\ to \in Projected
    \/ from = "triaged" /\ to \in Projected \ {"received"}
    \/ from \in {"accepted", "publishing"} /\ to \in {"accepted", "publishing", "published"}

UpdateStatus(r) ==
    /\ relay[r].at = "status"
    /\ box' = IF Allowed(box, relay[r].seen) THEN relay[r].seen ELSE box
    /\ Sleep(r)
    /\ UNCHANGED <<feedback, sent, lateIntake, hubVars>>

RelayDies(r) ==
    /\ relay[r].at # "idle" /\ Fault
    /\ Sleep(r)
    /\ UNCHANGED <<feedback, box, sent, lateIntake,
                   status, mod, row, dispatcher, msgs, pub, github, dropped>>

----------------------------------------------------------------------------

RelayStep(r) ==
    \/ ClaimDelivery(r) \/ Deliver(r) \/ CompleteDelivery(r) \/ RetryDelivery(r)
    \/ ReadStatus(r) \/ UpdateStatus(r)

Next ==
    \/ Submit \/ Withdraw
    \/ \E r \in Relays : RelayStep(r) \/ RelayDies(r)
    \/ LateIntake
    \/ HubNext /\ UNCHANGED relayVars

Spec == Init /\ [][Next]_vars

\* Administrators who decide one after the other: no decision is read before the
\* one under way is written.
OneAtATime == \A m, n \in Moderators : mod'[m] # "idle" /\ mod'[n] # "idle" => m = n

ModeratedSpec == Init /\ [][Next /\ OneAtATime]_vars

\* The relay polls for ever.
Fairness ==
    /\ \A r \in Relays : WF_vars(RelayStep(r))
    /\ HubFairness

FairSpec == Spec /\ Fairness

----------------------------------------------------------------------------
(* Properties *)

\* A withdrawn feedback never leaves the installation: the Hub has no row of it
\* and no request for one is under way.
WithdrawnNeverSent ==
    feedback = "withdrawn" =>
        status = "none" /\ ~lateIntake /\ \A r \in Relays : relay[r].at = "idle"

\* The owner is told of a published issue only when there is one.
PublishedIsReal == box = "published" => issues = 1

\* An owner who is told of a rejection, late as the news may be, can rely on it:
\* the Hub still says so and no issue exists or is being created.
RejectionIsFinal == box \in {"rejected", "duplicate"} => status = box /\ issues + late = 0

\* A submitted feedback is received by the Hub, or its delivery is declared
\* failed, although relays die and answers are lost.
DeliveryEnds ==
    feedback = "submitted" ~> box \notin {"queued", "delivering", "retry_wait"}
=============================================================================
