---------------------------- MODULE FeedbackHub ----------------------------
(***************************************************************************)
(* The central feedback Hub (feedback-hub-cloudflare), the Publisher       *)
(* Worker that turns an accepted feedback into a GitHub issue, and the     *)
(* Cloudflare queue between them.  One feedback is modelled: rows of       *)
(* different feedbacks share only the hourly rate limit, which a caller    *)
(* cannot tell from an unavailable Hub.                                    *)
(*                                                                         *)
(* A D1 statement, or batch, is one step; a Durable Object may serve       *)
(* another request wherever it awaits D1, so an operation that reads and   *)
(* then writes is two steps.  attempt and lease_fence only ever change     *)
(* together and are one variable; the fence makes lease_owner redundant.   *)
(***************************************************************************)
EXTENDS Naturals, FiniteSets

CONSTANTS
    Publishers,     \* invocations of the Publisher Worker at one time
    Moderators,     \* administrators' requests at one time
    MaxPublish,     \* MAX_PUBLISH_ATTEMPTS
    MaxMessages,    \* copies of the queue message told apart
    MaxFaults       \* lost answers, crashes and duplicate deliveries

ASSUME HubBounds == MaxPublish \in Nat \ {0} /\ MaxMessages \in Nat \ {0} /\ MaxFaults \in Nat

VARIABLES
    status,         \* central_feedback.status, "none" without a row
    mod,            \* [Moderators -> the action read for, or "idle"]
    out,            \* central_feedback_outbox.state, "none" without a row
    fence,          \* its attempt and lease_fence
    lease,          \* its lease_expires_at is in the future
    started,        \* its create_started
    dispatcher,     \* dispatchDue: "idle", "send", "sent" or "failed"
    msgs,           \* copies of the message in the queue
    pub,            \* [Publishers -> PublisherState]
    issues,         \* GitHub issues with the event's marker
    late,           \* create requests that outlived their publisher's wait
    dropped,        \* the queue gave up a message (dead_letter_queue)
    faults

hubVars == <<status, mod, out, fence, lease, started, dispatcher, msgs, pub,
             issues, late, dropped, faults>>

Status == {"none", "received", "triaged", "accepted", "rejected", "duplicate",
           "publishing", "published"}
OutboxState == {"none", "queued", "dispatching", "enqueued", "publishing", "retry_wait",
                "published", "failed_terminal"}
Actions == {"triage", "accept", "reject", "duplicate"}
Source == [a \in Actions |-> IF a = "triage" THEN "received" ELSE "triaged"]
Target == [triage |-> "triaged", accept |-> "accepted",
           reject |-> "rejected", duplicate |-> "duplicate"]

\* at: the next step; fence: of its claim; fatal: it met a terminal error.
PublisherState ==
    [at : {"idle", "claim", "exhaust", "mark", "scan", "permit", "create",
           "complete", "completing", "report", "reporting"},
     fence : 0..MaxPublish, fatal : BOOLEAN]
Resting == [at |-> "idle", fence |-> 0, fatal |-> FALSE]

HubTypeOK ==
    /\ status \in Status
    /\ mod \in [Moderators -> Actions \cup {"idle"}]
    /\ out \in OutboxState
    /\ fence \in 0..MaxPublish
    /\ {lease, started, dropped} \subseteq BOOLEAN
    /\ dispatcher \in {"idle", "send", "sent", "failed"}
    /\ msgs \in 0..MaxMessages
    /\ pub \in [Publishers -> PublisherState]
    /\ issues \in Nat /\ late \in Nat
    /\ faults \in 0..MaxFaults

HubInit ==
    /\ status = "none" /\ mod = [m \in Moderators |-> "idle"]
    /\ out = "none" /\ fence = 0 /\ lease = FALSE /\ started = FALSE
    /\ dispatcher = "idle" /\ msgs = 0
    /\ pub = [p \in Publishers |-> Resting]
    /\ issues = 0 /\ late = 0 /\ dropped = FALSE /\ faults = 0

Fault == faults < MaxFaults /\ faults' = faults + 1
NoFault == UNCHANGED faults

row == <<out, fence, lease, started>>
github == <<issues, late>>

----------------------------------------------------------------------------
(* Intake and moderation *)

\* InstallationGate.fetch: the same event finds its row, whatever became of it.
Intake ==
    /\ status' = IF status = "none" THEN "received" ELSE status
    /\ UNCHANGED <<mod, row, dispatcher, msgs, pub, github, dropped>>

\* FeedbackGate.moderate up to the await: the SELECT and the test of the state.
ModerateRead(m, a) ==
    /\ mod[m] = "idle"
    /\ status = Source[a]
    /\ mod' = [mod EXCEPT ![m] = a]
    /\ UNCHANGED <<status, row, dispatcher, msgs, pub, github, dropped, faults>>

\* The batch: the status moves only from its source, the outbox row is inserted
\* in any case; receipt_id is UNIQUE there, so a second accept rolls back.
ModerateBatch(m) ==
    /\ mod[m] # "idle"
    /\ LET a == mod[m] IN
       IF a = "accept" /\ out # "none"
         THEN UNCHANGED <<status, row>>
         ELSE /\ status' = IF status = Source[a] THEN Target[a] ELSE status
              /\ out' = IF a = "accept" THEN "queued" ELSE out
              /\ UNCHANGED <<fence, lease, started>>
    /\ mod' = [mod EXCEPT ![m] = "idle"]
    /\ UNCHANGED <<dispatcher, msgs, pub, github, dropped, faults>>

----------------------------------------------------------------------------
(* dispatchDue, the cron of the Hub *)

\* Copies beyond MaxMessages are not told apart.
OneMore == IF msgs < MaxMessages THEN msgs + 1 ELSE msgs

\* The row is due: at once, after a back-off that nothing else depends on, or
\* (enqueued) after fifteen minutes, by when a delivery has ended unless the
\* queue or the publisher is too slow, which counts as a fault.
Delivering == msgs > 0 \/ \E p \in Publishers : pub[p].at # "idle"

DispatchMark ==
    /\ dispatcher = "idle"
    /\ \/ out \in {"queued", "retry_wait", "dispatching"} /\ NoFault
       \/ out = "enqueued" /\ IF Delivering THEN Fault ELSE NoFault
    /\ out' = "dispatching"
    /\ dispatcher' = "send"
    /\ UNCHANGED <<status, mod, fence, lease, started, msgs, pub, github, dropped>>

DispatchSend ==
    /\ dispatcher = "send"
    /\ \/ msgs' = OneMore /\ dispatcher' = "sent" /\ NoFault
       \/ UNCHANGED msgs /\ dispatcher' = "failed" /\ Fault
    /\ UNCHANGED <<status, mod, row, pub, github, dropped>>

DispatchDone ==
    /\ dispatcher \in {"sent", "failed"}
    /\ out' = IF out # "dispatching" THEN out
              ELSE IF dispatcher = "sent" THEN "enqueued" ELSE "retry_wait"
    /\ dispatcher' = "idle"
    /\ UNCHANGED <<status, mod, fence, lease, started, msgs, pub, github, dropped, faults>>

DispatcherDies ==
    /\ dispatcher # "idle" /\ Fault
    /\ dispatcher' = "idle"
    /\ UNCHANGED <<status, mod, row, msgs, pub, github, dropped>>

----------------------------------------------------------------------------
(* processMessage of the Publisher Worker, with the Hub's side of each call *)

At(p, place) == pub' = [pub EXCEPT ![p].at = place]
Report(p, fatal) == pub' = [pub EXCEPT ![p].at = "report", ![p].fatal = fatal]
Rest(p) == pub' = [pub EXCEPT ![p] = Resting]

\* message.ack, and message.retry: the queue keeps the message, or this was the
\* last of its max_retries.
Ack(p) == Rest(p) /\ UNCHANGED <<msgs, dropped>>
RetryMessage(p) ==
    /\ Rest(p)
    /\ \/ msgs' = OneMore /\ UNCHANGED dropped
       \/ dropped' = TRUE /\ UNCHANGED msgs

\* Queues deliver at least once.
Receive(p) ==
    /\ pub[p].at = "idle" /\ msgs > 0
    /\ At(p, "claim")
    /\ \/ msgs' = msgs - 1 /\ NoFault
       \/ UNCHANGED msgs /\ Fault
    /\ UNCHANGED <<status, mod, row, dispatcher, github, dropped>>

\* Mutant: a publication whose publisher died is never taken over.
EligibleFresh == out = "enqueued"

Eligible == out = "enqueued" \/ (out = "publishing" /\ ~lease)

\* FeedbackGate.claim.  The claiming UPDATE compares state and fence with what
\* the SELECT read, so the two are one step.
Claim(p) ==
    /\ pub[p].at = "claim"
    /\ \/ /\ out \in {"published", "failed_terminal"}
          /\ Ack(p) /\ UNCHANGED row
       \/ /\ out \notin {"published", "failed_terminal"} /\ fence >= MaxPublish
          /\ At(p, "exhaust") /\ UNCHANGED <<msgs, dropped, row>>
       \/ /\ fence < MaxPublish /\ Eligible
          /\ out' = "publishing" /\ fence' = fence + 1 /\ lease' = TRUE
          /\ pub' = [pub EXCEPT ![p].at = "mark", ![p].fence = fence + 1]
          /\ UNCHANGED <<started, msgs, dropped>>
       \/ /\ out \notin {"published", "failed_terminal"} /\ fence < MaxPublish /\ ~Eligible
          /\ RetryMessage(p) /\ UNCHANGED row
    /\ UNCHANGED <<status, mod, dispatcher, github, faults>>

\* The budget is spent: the UPDATE names the row and nothing else.
Exhaust(p) ==
    /\ pub[p].at = "exhaust"
    /\ out' = "failed_terminal"
    /\ Ack(p)
    /\ UNCHANGED <<status, mod, fence, lease, started, dispatcher, github, faults>>

\* A statement of its own marks the feedback; the answer may be lost.
ClaimMark(p) ==
    /\ pub[p].at = "mark"
    /\ status' = "publishing"
    /\ \/ At(p, "scan") /\ NoFault /\ UNCHANGED <<msgs, dropped>>
       \/ RetryMessage(p) /\ Fault
    /\ UNCHANGED <<mod, row, dispatcher, github>>

\* reconcileOrCreate: the exact marker is looked for; every error, two issues
\* with the marker among them, is reported.
Scan(p) ==
    /\ pub[p].at = "scan"
    /\ \/ issues = 1 /\ At(p, "complete")
       \/ issues = 0 /\ At(p, "permit")
       \/ \E fatal \in BOOLEAN : Report(p, fatal)
    /\ UNCHANGED <<status, mod, row, dispatcher, msgs, github, dropped, faults>>

Leased(p) == out = "publishing" /\ fence = pub[p].fence

\* Mutant: every live lease is permitted to create.
MayCreateLeased(p) == Leased(p) /\ lease

\* FeedbackGate.beginCreate
MayCreate(p) == Leased(p) /\ lease /\ ~started

Permit(p) ==
    /\ pub[p].at = "permit"
    /\ IF MayCreate(p)
         THEN /\ started' = TRUE
              /\ \/ At(p, "create") /\ NoFault
                 \/ Report(p, FALSE) /\ Fault
         ELSE Report(p, FALSE) /\ NoFault /\ UNCHANGED started
    /\ UNCHANGED <<status, mod, out, fence, lease, dispatcher, msgs, github, dropped>>

\* Mutant: a create without an answer counts as done.
CreateAssumed(p) ==
    /\ pub[p].at = "create"
    /\ At(p, "complete")
    /\ \/ issues' = issues + 1 /\ UNCHANGED late
       \/ late' = late + 1 /\ UNCHANGED issues
    /\ UNCHANGED <<status, mod, row, dispatcher, msgs, dropped, faults>>

\* The one POST: answered, executed without an answer, refused, or still under
\* way when the publisher stops waiting.
Create(p) ==
    /\ pub[p].at = "create"
    /\ \/ issues' = issues + 1 /\ UNCHANGED late /\ At(p, "complete")
       \/ issues' = issues + 1 /\ UNCHANGED late /\ Report(p, FALSE)
       \/ UNCHANGED github /\ \E fatal \in BOOLEAN : Report(p, fatal)
       \/ late' = late + 1 /\ UNCHANGED issues /\ Report(p, FALSE)
    /\ UNCHANGED <<status, mod, row, dispatcher, msgs, dropped, faults>>

LateCreate ==
    /\ late > 0
    /\ late' = late - 1 /\ issues' = issues + 1
    /\ UNCHANGED <<status, mod, row, dispatcher, msgs, pub, dropped, faults>>

\* FeedbackGate.complete: the test, then a batch whose second UPDATE is not
\* fenced.
CompleteRead(p) ==
    /\ pub[p].at = "complete"
    /\ IF Leased(p) THEN At(p, "completing") ELSE Report(p, FALSE)
    /\ UNCHANGED <<status, mod, row, dispatcher, msgs, github, dropped, faults>>

CompleteBatch(p) ==
    /\ pub[p].at = "completing"
    /\ status' = "published"
    /\ IF Leased(p)
         THEN /\ out' = "published" /\ lease' = FALSE
              /\ \/ Ack(p) /\ NoFault
                 \/ Report(p, FALSE) /\ Fault /\ UNCHANGED <<msgs, dropped>>
         ELSE Report(p, FALSE) /\ NoFault /\ UNCHANGED <<out, lease, msgs, dropped>>
    /\ UNCHANGED <<mod, fence, started, dispatcher, github>>

\* FeedbackGate.retry, in the same two halves.
ReportRead(p) ==
    /\ pub[p].at = "report"
    /\ IF Leased(p) THEN At(p, "reporting") /\ UNCHANGED <<msgs, dropped>> ELSE RetryMessage(p)
    /\ UNCHANGED <<status, mod, row, dispatcher, github, faults>>

ReportBatch(p) ==
    /\ pub[p].at = "reporting"
    /\ status' = "accepted"
    /\ IF Leased(p)
         THEN /\ out' = IF pub[p].fatal \/ fence >= MaxPublish
                        THEN "failed_terminal" ELSE "retry_wait"
              /\ lease' = FALSE
              /\ \/ Ack(p) /\ NoFault
                 \/ RetryMessage(p) /\ Fault
         ELSE RetryMessage(p) /\ NoFault /\ UNCHANGED <<out, lease>>
    /\ UNCHANGED <<mod, fence, started, dispatcher, github>>

\* The invocation is evicted; the queue delivers its message again, or not.
PublisherDies(p) ==
    /\ pub[p].at # "idle" /\ Fault
    /\ RetryMessage(p)
    /\ UNCHANGED <<status, mod, row, dispatcher, github>>

----------------------------------------------------------------------------

LeaseExpires ==
    /\ lease /\ lease' = FALSE
    /\ UNCHANGED <<status, mod, out, fence, started, dispatcher, msgs, pub, github, dropped,
                   faults>>

DispatcherStep == DispatchMark \/ DispatchSend \/ DispatchDone

PublisherStep(p) ==
    \/ Receive(p) \/ Claim(p) \/ Exhaust(p) \/ ClaimMark(p)
    \/ Scan(p) \/ Permit(p) \/ Create(p)
    \/ CompleteRead(p) \/ CompleteBatch(p) \/ ReportRead(p) \/ ReportBatch(p)

\* Everything the Hub, the queue, the publishers and GitHub do by themselves.
HubNext ==
    \/ \E m \in Moderators : ModerateBatch(m) \/ \E a \in Actions : ModerateRead(m, a)
    \/ DispatcherStep \/ DispatcherDies
    \/ \E p \in Publishers : PublisherStep(p) \/ PublisherDies(p)
    \/ LateCreate \/ LeaseExpires

\* The cron and the queue go on, time passes, an invocation ends.
HubFairness ==
    /\ WF_hubVars(DispatcherStep)
    /\ \A p \in Publishers : WF_hubVars(PublisherStep(p))
    /\ WF_hubVars(LeaseExpires)

----------------------------------------------------------------------------
(* Properties *)

\* However often leases run out, messages are repeated or answers are lost, a
\* feedback becomes at most one GitHub issue.
AtMostOneIssue == issues + late <= 1

\* An outbox row exists only for a feedback that was accepted: "only accept
\* creates the outbox" says the contract.
OnlyAcceptedIsPublished == status \in {"rejected", "duplicate"} => out = "none"

\* A publication ends, published or failed, unless the queue gave up a message
\* of it: no lease, dispatch state or fence keeps it for ever.
PublicationEnds == out # "none" ~> out \in {"published", "failed_terminal"} \/ dropped
=============================================================================
