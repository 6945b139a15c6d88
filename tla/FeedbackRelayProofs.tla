------------------------ MODULE FeedbackRelayProofs ------------------------
(***************************************************************************)
(* Proofs about FeedbackRelay, the owner's side of a feedback composed with *)
(* the Hub, for every number of relays, publishers and moderators and every *)
(* budget of attempts, messages and faults.                                 *)
(***************************************************************************)
EXTENDS FeedbackRelay, TLAPS

----------------------------------------------------------------------------
(* The inductive invariant *)

\* Only the first permit reaches GitHub: before it there is no issue, and the
\* publisher that holds it is alone and comes before any issue.
OnePermit ==
    /\ ~started => issues = 0 /\ late = 0
    /\ \A p \in Publishers : pub[p].at = "create" =>
          /\ started /\ issues = 0 /\ late = 0
          /\ \A q \in Publishers : pub[q].at = "create" => p = q

\* Whoever says "published" has seen the issue: a publisher that is about to
\* report it, the Hub, a relay that carries the status, the owner's row.
PublishedSeen ==
    /\ \A p \in Publishers : pub[p].at \in {"complete", "completing"} => issues = 1
    /\ status = "published" => issues = 1
    /\ \A r \in Relays : relay[r].at = "status" /\ relay[r].seen = "published" => issues = 1
    /\ PublishedIsReal

\* A Hub without a row of the feedback does nothing for it.
HubAtRest ==
    status = "none" =>
        /\ \A m \in Moderators : mod[m] = "idle"
        /\ out = "none" /\ dispatcher = "idle" /\ msgs = 0
        /\ \A p \in Publishers : pub[p].at = "idle"

\* A feedback whose delivery was never claimed has not left the installation.
Unsent ==
    /\ sent = 0 =>
          /\ box \in {"none", "queued", "cancelled"}
          /\ status = "none" /\ ~lateIntake
          /\ \A r \in Relays : relay[r].at = "idle"
    /\ feedback = "draft" => box = "none" /\ sent = 0
    /\ feedback = "withdrawn" => sent = 0

IInv ==
    /\ TypeOK
    /\ AtMostOneIssue
    /\ OnePermit
    /\ PublishedSeen
    /\ HubAtRest
    /\ Unsent

----------------------------------------------------------------------------
(* Types *)

\* The initial rows, queue, publishers and relays have their types.
LEMMA InitTypeOK == Init => TypeOK
<1> SUFFICES ASSUME Init PROVE TypeOK
  OBVIOUS
<1> USE HubBounds, RelayBounds DEF Init, HubInit
<1>1. pub \in [Publishers -> PublisherState]
  BY DEF PublisherState, Resting
<1>2. relay \in [Relays -> RelayState]
  BY DEF RelayState, Asleep, Status
<1>3. /\ status \in Status /\ out \in OutboxState /\ box \in BoxState
      /\ mod \in [Moderators -> Actions \cup {"idle"}]
  BY DEF Status, OutboxState, BoxState
<1>4. /\ fence \in 0..MaxPublish /\ msgs \in 0..MaxMessages /\ faults \in 0..MaxFaults
      /\ sent \in 0..MaxDelivery /\ issues \in Nat /\ late \in Nat
  OBVIOUS
<1>5. {lease, started, dropped} \subseteq BOOLEAN /\ lateIntake \in BOOLEAN
  OBVIOUS
<1> QED BY <1>1, <1>2, <1>3, <1>4, <1>5 DEF TypeOK, HubTypeOK

\* A message given back to the queue leaves the publisher, the queue and the
\* dead-letter flag in their types.
LEMMA RetryTypes ==
    ASSUME HubTypeOK, NEW p \in Publishers, RetryMessage(p)
    PROVE  /\ pub' \in [Publishers -> PublisherState]
           /\ msgs' \in 0..MaxMessages /\ dropped' \in BOOLEAN
<1>1. pub' \in [Publishers -> PublisherState]
  BY HubBounds DEF HubTypeOK, RetryMessage, Rest, Resting, PublisherState
<1>2. dropped \in BOOLEAN /\ dropped' \in {dropped, TRUE}
  BY DEF HubTypeOK, RetryMessage
<1>3. msgs' \in 0..MaxMessages
  BY HubBounds DEF HubTypeOK, RetryMessage, OneMore
<1> QED BY <1>1, <1>2, <1>3

\* Faults are counted up to their bound.
LEMMA FaultTypes ==
    ASSUME HubTypeOK, Fault \/ NoFault
    PROVE  faults' \in 0..MaxFaults
  BY HubBounds DEF HubTypeOK, Fault, NoFault

\* Moderation, dispatch and publication keep the Hub's types: claim never
\* counts past MAX_PUBLISH_ATTEMPTS.
LEMMA HubNextTypeOK == HubTypeOK /\ HubNext => HubTypeOK'
<1> SUFFICES ASSUME HubTypeOK, HubNext PROVE HubTypeOK'
  OBVIOUS
<1> USE HubBounds DEF HubTypeOK, Status, OutboxState, PublisherState, Resting, row, github,
        At, Report, Rest, Ack, OneMore
<1>1. ASSUME NEW m \in Moderators, NEW a \in Actions, ModerateRead(m, a) PROVE HubTypeOK'
  BY <1>1 DEF ModerateRead
<1>2. ASSUME NEW m \in Moderators, ModerateBatch(m) PROVE HubTypeOK'
  BY <1>2 DEF ModerateBatch, Actions, Target
<1>3. CASE DispatchMark
  BY <1>3, FaultTypes DEF DispatchMark
<1>4. CASE DispatchSend
  BY <1>4, FaultTypes DEF DispatchSend
<1>5. CASE DispatchDone
  BY <1>5 DEF DispatchDone
<1>6. CASE DispatcherDies
  BY <1>6, FaultTypes DEF DispatcherDies
<1>7. ASSUME NEW p \in Publishers, Receive(p) PROVE HubTypeOK'
  BY <1>7, FaultTypes DEF Receive
<1>8. ASSUME NEW p \in Publishers, Claim(p) PROVE HubTypeOK'
  <2>1. CASE RetryMessage(p) /\ UNCHANGED row
    BY <1>8, <2>1, RetryTypes DEF Claim
  <2>2. CASE Ack(p) /\ UNCHANGED row
    BY <1>8, <2>2 DEF Claim
  <2>3. CASE At(p, "exhaust") /\ UNCHANGED <<msgs, dropped, row>>
    BY <1>8, <2>3 DEF Claim
  <2>4. CASE /\ fence < MaxPublish
             /\ out' = "publishing" /\ fence' = fence + 1 /\ lease' = TRUE
             /\ pub' = [pub EXCEPT ![p].at = "mark", ![p].fence = fence + 1]
             /\ UNCHANGED <<started, msgs, dropped>>
    BY <1>8, <2>4 DEF Claim
  <2> QED BY <1>8, <2>1, <2>2, <2>3, <2>4 DEF Claim
<1>9. ASSUME NEW p \in Publishers, Exhaust(p) PROVE HubTypeOK'
  BY <1>9 DEF Exhaust
<1>10. ASSUME NEW p \in Publishers, ClaimMark(p) PROVE HubTypeOK'
  <2>1. CASE RetryMessage(p)
    BY <1>10, <2>1, RetryTypes, FaultTypes DEF ClaimMark
  <2>2. CASE At(p, "scan") /\ UNCHANGED <<msgs, dropped>>
    BY <1>10, <2>2, FaultTypes DEF ClaimMark
  <2> QED BY <1>10, <2>1, <2>2 DEF ClaimMark
<1>11. ASSUME NEW p \in Publishers, Scan(p) PROVE HubTypeOK'
  BY <1>11 DEF Scan
<1>12. ASSUME NEW p \in Publishers, Permit(p) PROVE HubTypeOK'
  <2>1. pub' \in [Publishers -> PublisherState]
    <3>1. CASE At(p, "create")
      BY <3>1
    <3>2. CASE Report(p, FALSE)
      BY <3>2, ZenonT(30)
    <3> QED BY <1>12, <3>1, <3>2 DEF Permit
  <2>2. faults' \in 0..MaxFaults
    BY <1>12, FaultTypes DEF Permit
  <2>3. started' \in {started, TRUE}
    BY <1>12 DEF Permit
  <2> QED BY <1>12, <2>1, <2>2, <2>3 DEF Permit
<1>13. ASSUME NEW p \in Publishers, Create(p) PROVE HubTypeOK'
  BY <1>13 DEF Create
<1>14. ASSUME NEW p \in Publishers, CompleteRead(p) PROVE HubTypeOK'
  BY <1>14 DEF CompleteRead
<1>15. ASSUME NEW p \in Publishers, CompleteBatch(p) PROVE HubTypeOK'
  <2>1. /\ pub' \in [Publishers -> PublisherState] /\ UNCHANGED <<msgs, dropped>>
    <3>1. CASE Ack(p)
      BY <3>1
    <3>2. CASE Report(p, FALSE) /\ UNCHANGED <<msgs, dropped>>
      BY <3>2, ZenonT(30)
    <3> QED BY <1>15, <3>1, <3>2 DEF CompleteBatch
  <2>2. lease' \in {lease, FALSE} /\ out' \in OutboxState
    BY <1>15 DEF CompleteBatch
  <2>3. faults' \in 0..MaxFaults
    BY <1>15, FaultTypes DEF CompleteBatch
  <2> QED BY <1>15, <2>1, <2>2, <2>3 DEF CompleteBatch
<1>16. ASSUME NEW p \in Publishers, ReportRead(p) PROVE HubTypeOK'
  <2>1. CASE RetryMessage(p)
    BY <1>16, <2>1, RetryTypes DEF ReportRead
  <2>2. CASE At(p, "reporting") /\ UNCHANGED <<msgs, dropped>>
    BY <1>16, <2>2 DEF ReportRead
  <2> QED BY <1>16, <2>1, <2>2 DEF ReportRead
<1>17. ASSUME NEW p \in Publishers, ReportBatch(p) PROVE HubTypeOK'
  <2>1. /\ pub' \in [Publishers -> PublisherState]
        /\ msgs' \in 0..MaxMessages /\ dropped' \in BOOLEAN
    <3>1. CASE RetryMessage(p)
      BY <3>1, RetryTypes
    <3>2. CASE Ack(p)
      BY <3>2
    <3> QED BY <1>17, <3>1, <3>2 DEF ReportBatch
  <2>2. lease' \in {lease, FALSE} /\ out' \in OutboxState
    BY <1>17 DEF ReportBatch
  <2>3. faults' \in 0..MaxFaults
    BY <1>17, FaultTypes DEF ReportBatch
  <2> QED BY <1>17, <2>1, <2>2, <2>3 DEF ReportBatch
<1>18. ASSUME NEW p \in Publishers, PublisherDies(p) PROVE HubTypeOK'
  BY <1>18, RetryTypes, FaultTypes DEF PublisherDies
<1>19. CASE LateCreate
  BY <1>19 DEF LateCreate
<1>20. CASE LeaseExpires
  BY <1>20 DEF LeaseExpires
<1> QED
  BY <1>1, <1>2, <1>3, <1>4, <1>5, <1>6, <1>7, <1>8, <1>9, <1>10, <1>11, <1>12, <1>13,
     <1>14, <1>15, <1>16, <1>17, <1>18, <1>19, <1>20
  DEF HubNext, DispatcherStep, PublisherStep

\* The owner's decisions, the relay's steps and the Hub's keep every type: a
\* claim of a delivery never counts past MAX_HUB_DELIVERY_ATTEMPTS.
LEMMA NextTypeOK == TypeOK /\ [Next]_vars => TypeOK'
<1> SUFFICES ASSUME TypeOK, [Next]_vars PROVE TypeOK'
  OBVIOUS
<1> USE HubBounds, RelayBounds DEF TypeOK
<1>1. CASE Submit \/ Withdraw
  BY <1>1 DEF Submit, Withdraw, hubVars, HubTypeOK, BoxState
<1>2. ASSUME NEW r \in Relays, ClaimDelivery(r) PROVE TypeOK'
  <2>1. faults' \in 0..MaxFaults
    BY <1>2, FaultTypes DEF ClaimDelivery, NoFault
  <2>2. HubTypeOK'
    BY <1>2, <2>1 DEF ClaimDelivery, HubTypeOK, row, github
  <2>3. sent' \in 0..MaxDelivery /\ box' \in BoxState
    BY <1>2 DEF ClaimDelivery, Spent, BoxState
  <2>4. relay' \in [Relays -> RelayState]
    BY <1>2 DEF ClaimDelivery, Spent, RelayState
  <2> QED BY <1>2, <2>2, <2>3, <2>4 DEF ClaimDelivery
<1>3. ASSUME NEW r \in Relays, Deliver(r) PROVE TypeOK'
  <2>1. HubTypeOK'
    BY <1>3 DEF Deliver, Intake, HubTypeOK, row, github, Status
  <2>2. relay' \in [Relays -> RelayState]
    <3>1. CASE Go(r, "complete")
      BY <3>1 DEF Go, RelayState
    <3>2. CASE Retrying(r, FALSE)
      BY <3>2 DEF Retrying, RelayState
    <3>3. CASE Retrying(r, TRUE)
      BY <3>3 DEF Retrying, RelayState
    <3> QED BY <1>3, <3>1, <3>2, <3>3 DEF Deliver
  <2>3. lateIntake' \in {lateIntake, TRUE}
    BY <1>3 DEF Deliver
  <2> QED BY <1>3, <2>1, <2>2, <2>3 DEF Deliver
<1>4. CASE LateIntake
  BY <1>4 DEF LateIntake, Intake, HubTypeOK, row, github, Status
<1>5. ASSUME NEW r \in Relays, CompleteDelivery(r) PROVE TypeOK'
  <2>1. relay' \in [Relays -> RelayState]
    <3>1. CASE Sleep(r)
      BY <3>1 DEF Sleep, Asleep, RelayState, Status
    <3>2. ASSUME NEW fatal \in BOOLEAN, Retrying(r, fatal)
          PROVE relay' \in [Relays -> RelayState]
      BY <3>2 DEF Retrying, RelayState
    <3>3. (~Holding(r)) \in BOOLEAN /\ FALSE \in BOOLEAN
      OBVIOUS
    <3> QED BY <1>5, <3>1, <3>2, <3>3 DEF CompleteDelivery
  <2>2. box' \in BoxState
    BY <1>5 DEF CompleteDelivery, BoxState, Projected, Status
  <2>3. UNCHANGED <<feedback, sent, lateIntake, hubVars>>
    BY <1>5 DEF CompleteDelivery
  <2> QED BY <2>1, <2>2, <2>3 DEF hubVars, HubTypeOK
<1>6. ASSUME NEW r \in Relays, RetryDelivery(r) PROVE TypeOK'
  BY <1>6 DEF RetryDelivery, Sleep, Asleep, RelayState, hubVars, HubTypeOK, BoxState, Status
<1>7. ASSUME NEW r \in Relays, ReadStatus(r) PROVE TypeOK'
  BY <1>7, ZenonT(30) DEF ReadStatus, RelayState, hubVars, HubTypeOK
<1>8. ASSUME NEW r \in Relays, UpdateStatus(r) PROVE TypeOK'
  BY <1>8 DEF UpdateStatus, Sleep, Asleep, RelayState, hubVars, HubTypeOK, BoxState,
     Allowed, Projected, Status
<1>9. ASSUME NEW r \in Relays, RelayDies(r) PROVE TypeOK'
  BY <1>9, FaultTypes DEF RelayDies, Sleep, Asleep, RelayState, HubTypeOK, Status, row, github
<1>10. CASE HubNext /\ UNCHANGED relayVars
  BY <1>10, HubNextTypeOK DEF relayVars
<1>11. CASE UNCHANGED vars
  BY <1>11 DEF vars, hubVars, relayVars, HubTypeOK
<1> QED
  BY <1>1, <1>2, <1>3, <1>4, <1>5, <1>6, <1>7, <1>8, <1>9, <1>10, <1>11
  DEF Next, RelayStep

\* The feedback's rows, the queue, the publishers and the relays keep their
\* types in every reachable state of every instance.
THEOREM TypeCorrect == Spec => []TypeOK
  BY InitTypeOK, NextTypeOK, PTL DEF Spec

----------------------------------------------------------------------------
(* One issue *)

\* The relay never touches the outbox of the Hub, its publishers or GitHub.
LEMMA RelayLeavesHub ==
    ASSUME Submit \/ Withdraw \/ LateIntake \/ \E r \in Relays : RelayStep(r) \/ RelayDies(r)
    PROVE  UNCHANGED <<mod, row, dispatcher, msgs, pub, github>>
<1> USE DEF hubVars, row, github, Intake
<1>1. ASSUME NEW r \in Relays, RelayStep(r)
      PROVE UNCHANGED <<mod, row, dispatcher, msgs, pub, github>>
  BY <1>1 DEF RelayStep, ClaimDelivery, Deliver, CompleteDelivery, RetryDelivery,
     ReadStatus, UpdateStatus
<1>2. ASSUME NEW r \in Relays, RelayDies(r)
      PROVE UNCHANGED <<mod, row, dispatcher, msgs, pub, github>>
  BY <1>2 DEF RelayDies
<1>3. CASE Submit \/ Withdraw \/ LateIntake
  BY <1>3 DEF Submit, Withdraw, LateIntake
<1> QED BY <1>1, <1>2, <1>3

\* Only a permitted create makes or starts an issue, and only LateCreate ends
\* one under way: every other step leaves GitHub alone.
LEMMA HubLeavesGithub ==
    ASSUME HubNext, ~LateCreate, \A p \in Publishers : ~Create(p)
    PROVE  UNCHANGED github
<1>1. ASSUME NEW m \in Moderators, ModerateBatch(m) \/ \E a \in Actions : ModerateRead(m, a)
      PROVE UNCHANGED github
  BY <1>1 DEF ModerateBatch, ModerateRead
<1>2. CASE DispatcherStep \/ DispatcherDies \/ LeaseExpires
  BY <1>2 DEF DispatcherStep, DispatchMark, DispatchSend, DispatchDone, DispatcherDies, LeaseExpires
<1>3. ASSUME NEW p \in Publishers, PublisherStep(p) \/ PublisherDies(p)
      PROVE UNCHANGED github
  BY <1>3 DEF PublisherStep, PublisherDies, Receive, Claim, Exhaust, ClaimMark, Scan, Permit,
     CompleteRead, CompleteBatch, ReportRead, ReportBatch
<1> QED BY <1>1, <1>2, <1>3 DEF HubNext

\* A create under way or done is the only one: begin-create gives one permit.
LEMMA NextAtMostOneIssue == TypeOK /\ OnePermit /\ AtMostOneIssue /\ Next => AtMostOneIssue'
<1> SUFFICES ASSUME TypeOK, OnePermit, AtMostOneIssue, Next PROVE AtMostOneIssue'
  OBVIOUS
<1> USE DEF TypeOK, HubTypeOK, AtMostOneIssue, github
<1>1. ASSUME NEW p \in Publishers, Create(p) PROVE AtMostOneIssue'
  <2>1. issues = 0 /\ late = 0
    BY <1>1 DEF Create, OnePermit
  <2>2. \/ issues' = issues + 1 /\ late' = late
        \/ issues' = issues /\ late' = late
        \/ issues' = issues /\ late' = late + 1
    BY <1>1 DEF Create
  <2> QED BY <2>1, <2>2
<1>2. CASE LateCreate
  BY <1>2 DEF LateCreate
<1>3. CASE HubNext /\ ~LateCreate /\ \A p \in Publishers : ~Create(p)
  BY <1>3, HubLeavesGithub
<1>4. CASE ~HubNext
  BY <1>4, RelayLeavesHub DEF Next
<1> QED BY <1>1, <1>2, <1>3, <1>4

\* The permit is given once: the row it is given from is not started yet, so no
\* other publisher holds it and nothing was created.
LEMMA NextOnePermit == TypeOK /\ OnePermit /\ AtMostOneIssue /\ Next => OnePermit'
<1> SUFFICES ASSUME TypeOK, OnePermit, AtMostOneIssue, Next PROVE OnePermit'
  OBVIOUS
<1> USE DEF TypeOK, HubTypeOK, OnePermit, github, row
<1>1. ASSUME NEW m \in Moderators, ModerateBatch(m) \/ \E a \in Actions : ModerateRead(m, a)
      PROVE OnePermit'
  BY <1>1 DEF ModerateBatch, ModerateRead
<1>2. CASE DispatcherStep \/ DispatcherDies \/ LeaseExpires
  BY <1>2 DEF DispatcherStep, DispatchMark, DispatchSend, DispatchDone, DispatcherDies, LeaseExpires
<1>3. ASSUME NEW p \in Publishers,
             UNCHANGED <<started, github>>, pub'[p].at # "create",
             \A q \in Publishers \ {p} : pub'[q] = pub[q]
      PROVE OnePermit'
  BY <1>3
<1>4. ASSUME NEW p \in Publishers,
             \/ Receive(p) \/ Claim(p) \/ Exhaust(p) \/ ClaimMark(p)
             \/ Scan(p) \/ CompleteRead(p) \/ CompleteBatch(p) \/ ReportRead(p)
             \/ ReportBatch(p) \/ PublisherDies(p)
      PROVE OnePermit'
  <2> USE DEF PublisherState, Resting, Ack, Rest, RetryMessage, At, Report
  <2>1. CASE Receive(p) \/ Exhaust(p) \/ ClaimMark(p) \/ PublisherDies(p)
    BY <1>3, <2>1 DEF Receive, Exhaust, ClaimMark, PublisherDies
  <2>2. CASE Claim(p)
    BY <1>3, <2>2 DEF Claim
  <2>3. CASE Scan(p) \/ CompleteRead(p) \/ ReportRead(p)
    BY <1>3, <2>3 DEF Scan, CompleteRead, ReportRead
  <2>4. CASE CompleteBatch(p) \/ ReportBatch(p)
    BY <1>3, <2>4 DEF CompleteBatch, ReportBatch
  <2> QED BY <1>4, <2>1, <2>2, <2>3, <2>4
<1>5. ASSUME NEW p \in Publishers, Permit(p) PROVE OnePermit'
  BY <1>5 DEF Permit, MayCreate, At, Report, PublisherState
<1>6. ASSUME NEW p \in Publishers, Create(p) PROVE OnePermit'
  BY <1>6 DEF Create, At, Report, PublisherState
<1>7. CASE LateCreate
  BY <1>7 DEF LateCreate
<1>8. CASE ~HubNext
  BY <1>8, RelayLeavesHub DEF Next
<1> QED BY <1>1, <1>2, <1>4, <1>5, <1>6, <1>7, <1>8 DEF HubNext, PublisherStep

----------------------------------------------------------------------------
(* What is called published *)

\* Whoever says "published" has seen the issue, and an issue is never lost or
\* doubled once it is there.
LEMMA NextPublishedSeen ==
    TypeOK /\ OnePermit /\ AtMostOneIssue /\ PublishedSeen /\ Next => PublishedSeen'
<1> SUFFICES ASSUME TypeOK, OnePermit, AtMostOneIssue, PublishedSeen, Next
             PROVE PublishedSeen'
  OBVIOUS
<1> USE DEF TypeOK, HubTypeOK, PublishedSeen, PublishedIsReal, github, row
<1>1. CASE Submit \/ Withdraw
  BY <1>1 DEF Submit, Withdraw, hubVars
<1>2. ASSUME NEW r \in Relays, ClaimDelivery(r) PROVE PublishedSeen'
  BY <1>2 DEF ClaimDelivery, RelayState
<1>3. ASSUME NEW r \in Relays, Deliver(r) PROVE PublishedSeen'
  BY <1>3 DEF Deliver, Intake, Go, Retrying, RelayState
<1>4. CASE LateIntake
  BY <1>4 DEF LateIntake, Intake
<1>5. ASSUME NEW r \in Relays, CompleteDelivery(r) \/ RetryDelivery(r) PROVE PublishedSeen'
  BY <1>5 DEF CompleteDelivery, RetryDelivery, Sleep, Asleep, Retrying, RelayState, hubVars
<1>6. ASSUME NEW r \in Relays, ReadStatus(r) PROVE PublishedSeen'
  BY <1>6 DEF ReadStatus, RelayState, hubVars
<1>7. ASSUME NEW r \in Relays, UpdateStatus(r) PROVE PublishedSeen'
  BY <1>7 DEF UpdateStatus, Sleep, Asleep, RelayState, hubVars
<1>8. ASSUME NEW r \in Relays, RelayDies(r) PROVE PublishedSeen'
  BY <1>8 DEF RelayDies, Sleep, Asleep, RelayState, hubVars
<1>9. CASE HubNext /\ UNCHANGED relayVars
  <2> USE <1>9 DEF relayVars
  <2>1. ASSUME NEW m \in Moderators, ModerateBatch(m) \/ \E a \in Actions : ModerateRead(m, a)
        PROVE PublishedSeen'
    BY <2>1 DEF ModerateBatch, ModerateRead, Actions, Target
  <2>2. CASE DispatcherStep \/ DispatcherDies \/ LeaseExpires
    BY <2>2 DEF DispatcherStep, DispatchMark, DispatchSend, DispatchDone, DispatcherDies,
       LeaseExpires
  <2>3. ASSUME NEW p \in Publishers, UNCHANGED github,
               pub'[p].at \in {"complete", "completing"} => issues = 1,
               status' \in {status, "accepted", "publishing"} \/ issues = 1,
               \A q \in Publishers \ {p} : pub'[q] = pub[q]
        PROVE PublishedSeen'
    BY <2>3
  <2>4. ASSUME NEW p \in Publishers,
               \/ Receive(p) \/ Claim(p) \/ Exhaust(p) \/ ClaimMark(p)
               \/ Scan(p) \/ Permit(p) \/ CompleteRead(p) \/ CompleteBatch(p) \/ ReportRead(p)
               \/ ReportBatch(p) \/ PublisherDies(p)
        PROVE PublishedSeen'
    <3> USE DEF PublisherState, Resting, Ack, Rest, RetryMessage, At, Report
    <3>1. CASE Receive(p) \/ Exhaust(p) \/ ClaimMark(p) \/ PublisherDies(p)
      BY <2>3, <3>1 DEF Receive, Exhaust, ClaimMark, PublisherDies
    <3>2. CASE Claim(p)
      BY <2>3, <3>2 DEF Claim
    <3>3. CASE Scan(p) \/ CompleteRead(p) \/ ReportRead(p)
      BY <2>3, <3>3 DEF Scan, CompleteRead, ReportRead
    <3>4. CASE Permit(p)
      BY <2>3, <3>4 DEF Permit
    <3>5. CASE CompleteBatch(p) \/ ReportBatch(p)
      BY <2>3, <3>5 DEF CompleteBatch, ReportBatch
    <3> QED BY <2>4, <3>1, <3>2, <3>3, <3>4, <3>5
  <2>5. ASSUME NEW p \in Publishers, Create(p) PROVE PublishedSeen'
    BY <2>5 DEF Create, OnePermit, At, Report, PublisherState
  <2>6. CASE LateCreate
    <3>1. issues = 0
      BY <2>6 DEF LateCreate, AtMostOneIssue
    <3> QED BY <2>6, <3>1 DEF LateCreate
  <2> QED BY <2>1, <2>2, <2>4, <2>5, <2>6 DEF HubNext, PublisherStep
<1> QED BY <1>1, <1>2, <1>3, <1>4, <1>5, <1>6, <1>7, <1>8, <1>9 DEF Next, RelayStep

----------------------------------------------------------------------------
(* What never left the installation *)

\* At rest, the Hub does nothing for the feedback but let a lease run out.
LEMMA RestingHub ==
    ASSUME TypeOK, HubAtRest, status = "none", HubNext
    PROVE  LateCreate \/ LeaseExpires
<1> USE DEF HubAtRest
<1>1. ASSUME NEW m \in Moderators, ModerateBatch(m) \/ \E a \in Actions : ModerateRead(m, a)
      PROVE FALSE
  BY <1>1 DEF ModerateBatch, ModerateRead, Source
<1>2. CASE DispatcherStep \/ DispatcherDies
  BY <1>2 DEF DispatcherStep, DispatchMark, DispatchSend, DispatchDone, DispatcherDies
<1>3. ASSUME NEW p \in Publishers, PublisherStep(p) \/ PublisherDies(p)
      PROVE FALSE
  <2>1. pub[p].at = "idle" /\ ~(msgs > 0)
    OBVIOUS
  <2> QED
    BY <1>3, <2>1 DEF PublisherStep, PublisherDies, Receive, Claim, Exhaust, ClaimMark, Scan,
       Permit, Create, CompleteRead, CompleteBatch, ReportRead, ReportBatch
<1> QED BY <1>1, <1>2, <1>3 DEF HubNext

\* The Hub's row, once there, is never deleted.
LEMMA RowStays ==
    ASSUME TypeOK, Next, status # "none"
    PROVE  status' # "none"
<1>1. CASE HubNext
  <2>1. ASSUME NEW m \in Moderators, ModerateBatch(m) \/ \E a \in Actions : ModerateRead(m, a)
        PROVE status' # "none"
    BY <2>1 DEF ModerateBatch, ModerateRead, Actions, Target, TypeOK, HubTypeOK
  <2>2. CASE DispatcherStep \/ DispatcherDies \/ LeaseExpires \/ LateCreate
    BY <2>2 DEF DispatcherStep, DispatchMark, DispatchSend, DispatchDone, DispatcherDies,
       LeaseExpires, LateCreate
  <2>3. ASSUME NEW p \in Publishers, PublisherStep(p) \/ PublisherDies(p)
        PROVE status' # "none"
    BY <2>3 DEF PublisherStep, PublisherDies, Receive, Claim, Exhaust, ClaimMark, Scan, Permit,
       Create, CompleteRead, CompleteBatch, ReportRead, ReportBatch
  <2> QED BY <1>1, <2>1, <2>2, <2>3 DEF HubNext
<1>2. CASE ~HubNext
  BY <1>2 DEF Next, Submit, Withdraw, LateIntake, RelayStep, RelayDies, ClaimDelivery, Deliver,
     CompleteDelivery, RetryDelivery, ReadStatus, UpdateStatus, Intake, hubVars
<1> QED BY <1>1, <1>2

\* A Hub without a row of the feedback stays at rest until an intake.
LEMMA NextHubAtRest == TypeOK /\ HubAtRest /\ Next => HubAtRest'
<1> SUFFICES ASSUME TypeOK, HubAtRest, Next, status' = "none" PROVE HubAtRest'
  BY DEF HubAtRest
<1>1. status = "none"
  BY RowStays
<1>2. CASE HubNext
  BY <1>1, <1>2, RestingHub DEF HubAtRest, LateCreate, LeaseExpires, row
<1>3. CASE ~HubNext
  BY <1>1, <1>3, RelayLeavesHub DEF Next, HubAtRest, row
<1> QED BY <1>2, <1>3

\* Before the first claim of a delivery nothing has left the installation, and
\* after it the feedback can no longer be withdrawn.
LEMMA NextUnsent == TypeOK /\ HubAtRest /\ Unsent /\ Next => Unsent'
<1> SUFFICES ASSUME TypeOK, HubAtRest, Unsent, Next PROVE Unsent'
  OBVIOUS
<1> USE RelayBounds DEF TypeOK, Unsent
<1>1. CASE Submit \/ Withdraw
  BY <1>1 DEF Submit, Withdraw, Withdrawable, hubVars
<1>2. ASSUME NEW r \in Relays, ClaimDelivery(r) PROVE Unsent'
  <2>1. sent' # 0
    BY <1>2 DEF ClaimDelivery, Spent
  <2> QED BY <1>2, <2>1 DEF ClaimDelivery, Claimable
<1>3. ASSUME NEW r \in Relays, Deliver(r) \/ CompleteDelivery(r) \/ RetryDelivery(r)
                               \/ UpdateStatus(r) \/ RelayDies(r)
      PROVE Unsent'
  BY <1>3 DEF Deliver, CompleteDelivery, RetryDelivery, UpdateStatus, RelayDies
<1>4. ASSUME NEW r \in Relays, ReadStatus(r) PROVE Unsent'
  BY <1>4 DEF ReadStatus
<1>5. CASE LateIntake
  BY <1>5 DEF LateIntake
<1>6. CASE HubNext /\ UNCHANGED relayVars
  BY <1>6, RestingHub DEF relayVars, LateCreate, LeaseExpires
<1> QED BY <1>1, <1>2, <1>3, <1>4, <1>5, <1>6 DEF Next, RelayStep

----------------------------------------------------------------------------
(* The theorems *)

\* The inductive invariant holds initially and is kept by every step.
LEMMA Invariance == Spec => []IInv
<1>1. Init => IInv
  <2> SUFFICES ASSUME Init PROVE IInv
    OBVIOUS
  <2>1. TypeOK
    BY InitTypeOK
  <2>2. AtMostOneIssue /\ OnePermit /\ PublishedSeen /\ HubAtRest /\ Unsent
    BY DEF Init, HubInit, AtMostOneIssue, OnePermit, PublishedSeen, PublishedIsReal, HubAtRest,
       Unsent, Resting, Asleep
  <2> QED BY <2>1, <2>2 DEF IInv
<1>2. IInv /\ [Next]_vars => IInv'
  <2> SUFFICES ASSUME IInv, [Next]_vars PROVE IInv'
    OBVIOUS
  <2>1. CASE Next
    BY <2>1, NextTypeOK, NextAtMostOneIssue, NextOnePermit, NextPublishedSeen, NextHubAtRest,
       NextUnsent DEF IInv
  <2>2. CASE UNCHANGED vars
    <3>1. TypeOK'
      BY NextTypeOK DEF IInv
    <3>2. (AtMostOneIssue /\ OnePermit /\ PublishedSeen /\ HubAtRest /\ Unsent)'
      BY <2>2 DEF IInv, vars, hubVars, relayVars, AtMostOneIssue, OnePermit, PublishedSeen,
         PublishedIsReal, HubAtRest, Unsent
    <3> QED BY <3>1, <3>2 DEF IInv
  <2> QED BY <2>1, <2>2
<1> QED BY <1>1, <1>2, PTL DEF Spec

\* However often leases run out, messages are repeated or answers are lost, and
\* however many publishers run at once, a feedback becomes at most one issue.
THEOREM OneIssue == Spec => []AtMostOneIssue
<1>1. IInv => AtMostOneIssue
  BY DEF IInv
<1> QED BY Invariance, <1>1, PTL

\* A feedback its owner withdrew never left the installation: no row of it is at
\* the Hub and no relay carries it.
THEOREM WithdrawnStaysHome == Spec => []WithdrawnNeverSent
<1>1. IInv => WithdrawnNeverSent
  BY DEF IInv, Unsent, WithdrawnNeverSent
<1> QED BY Invariance, <1>1, PTL

\* The owner is told of a published issue only when there is exactly one,
\* although the Hub's status reaches the owner late, twice or out of order.
THEOREM PublicationIsReal == Spec => []PublishedIsReal
<1>1. IInv => PublishedIsReal
  BY DEF IInv, PublishedSeen
<1> QED BY Invariance, <1>1, PTL

----------------------------------------------------------------------------
(* Moderation, one decision after the other *)

\* A decision under way is about the status it has read.
DecisionHolds ==
    /\ \A m, n \in Moderators : mod[m] # "idle" /\ mod[n] # "idle" => m = n
    /\ \A m \in Moderators : mod[m] # "idle" => status = Source[mod[m]]

Undecided == {"none", "received", "triaged", "rejected", "duplicate"}

\* What is not accepted has no row in the outbox, and without one nothing is
\* published.
OutboxFollows ==
    /\ status \in Undecided => out = "none"
    /\ out = "none" => /\ ~started /\ dispatcher = "idle" /\ msgs = 0
                       /\ \A p \in Publishers : pub[p].at = "idle"

\* A rejection on its way to the owner, and one that has arrived, is the Hub's.
RejectionSeen ==
    /\ \A r \in Relays : relay[r].at = "status" /\ relay[r].seen \in {"rejected", "duplicate"} =>
          status = relay[r].seen
    /\ box \in {"rejected", "duplicate"} => status = box

Moderated == DecisionHolds /\ OutboxFollows /\ RejectionSeen

\* With a row in the outbox, only the dispatcher and the publishers move the
\* feedback, and never back to a state before its acceptance.
LEMMA PublishingHub ==
    ASSUME TypeOK, Moderated, out # "none",
           \/ DispatcherStep \/ DispatcherDies \/ LateCreate \/ LeaseExpires
           \/ \E p \in Publishers : PublisherStep(p) \/ PublisherDies(p)
    PROVE  out' # "none" /\ status' \notin Undecided /\ UNCHANGED mod
<1> USE DEF row
<1>1. status \notin Undecided
  BY DEF Moderated, OutboxFollows
<1>2. CASE DispatcherStep \/ DispatcherDies \/ LeaseExpires \/ LateCreate
  BY <1>1, <1>2 DEF DispatcherStep, DispatchMark, DispatchSend, DispatchDone, DispatcherDies,
     LeaseExpires, LateCreate
<1>3. ASSUME NEW p \in Publishers, PublisherStep(p) \/ PublisherDies(p)
      PROVE  out' # "none" /\ status' \notin Undecided /\ UNCHANGED mod
  <2>1. CASE PublisherDies(p) \/ Receive(p) \/ Claim(p) \/ Exhaust(p) \/ Scan(p) \/ Permit(p)
             \/ Create(p) \/ CompleteRead(p) \/ ReportRead(p)
    BY <1>1, <2>1 DEF PublisherDies, Receive, Claim, Exhaust, Scan, Permit, Create,
       CompleteRead, ReportRead
  <2>2. CASE ClaimMark(p) \/ CompleteBatch(p) \/ ReportBatch(p)
    BY <2>2 DEF ClaimMark, CompleteBatch, ReportBatch, Undecided
  <2> QED BY <1>3, <2>1, <2>2 DEF PublisherStep
<1> QED BY <1>2, <1>3

\* Without one, nothing of the Hub moves but moderation.
LEMMA QuietHub ==
    ASSUME TypeOK, Moderated, out = "none",
           \/ DispatcherStep \/ DispatcherDies \/ LateCreate \/ LeaseExpires
           \/ \E p \in Publishers : PublisherStep(p) \/ PublisherDies(p)
    PROVE  UNCHANGED <<status, mod, out, started, dispatcher, msgs, pub>>
<1> USE DEF Moderated, OutboxFollows
<1>1. CASE DispatcherStep \/ DispatcherDies
  BY <1>1 DEF DispatcherStep, DispatchMark, DispatchSend, DispatchDone, DispatcherDies
<1>2. CASE LeaseExpires \/ LateCreate
  BY <1>2 DEF LeaseExpires, LateCreate, row
<1>3. ASSUME NEW p \in Publishers, PublisherStep(p) \/ PublisherDies(p)
      PROVE FALSE
  <2>1. pub[p].at = "idle" /\ ~(msgs > 0)
    OBVIOUS
  <2> QED
    BY <1>3, <2>1 DEF PublisherStep, PublisherDies, Receive, Claim, Exhaust, ClaimMark, Scan,
       Permit, Create, CompleteRead, CompleteBatch, ReportRead, ReportBatch
<1> QED BY <1>1, <1>2, <1>3

\* Every step keeps a moderation in turn consistent.
LEMMA NextModerated == TypeOK /\ Moderated /\ Next /\ OneAtATime => Moderated'
<1> SUFFICES ASSUME TypeOK, Moderated, Next, OneAtATime PROVE Moderated'
  OBVIOUS
<1>1. \A m, n \in Moderators : mod'[m] # "idle" /\ mod'[n] # "idle" => m = n
  BY DEF OneAtATime
<1>2. ASSUME NEW m \in Moderators, ModerateBatch(m), UNCHANGED relayVars PROVE Moderated'
  <2>1. mod[m] \in Actions /\ status = Source[mod[m]]
    BY <1>2 DEF ModerateBatch, TypeOK, HubTypeOK, Moderated, DecisionHolds
  <2>2. status \in {"received", "triaged"} /\ out = "none"
    BY <2>1 DEF Source, Actions, Moderated, OutboxFollows, Undecided
  <2>3. \A n \in Moderators : mod'[n] = "idle"
    BY <1>2 DEF ModerateBatch, TypeOK, HubTypeOK, Moderated, DecisionHolds
  <2>4. /\ status' = Target[mod[m]]
        /\ out' = IF mod[m] = "accept" THEN "queued" ELSE "none"
        /\ UNCHANGED <<started, dispatcher, msgs, pub>>
    BY <1>2, <2>1, <2>2 DEF ModerateBatch
  <2>5. OutboxFollows'
    BY <2>1, <2>2, <2>4 DEF Moderated, OutboxFollows, Undecided, Target, Actions
  <2>6. RejectionSeen'
    BY <1>2, <2>2 DEF Moderated, RejectionSeen, relayVars
  <2> QED BY <2>3, <2>5, <2>6 DEF Moderated, DecisionHolds
<1>3. ASSUME NEW m \in Moderators, NEW a \in Actions, ModerateRead(m, a), UNCHANGED relayVars
      PROVE Moderated'
  <2>1. \A n \in Moderators : mod'[n] # "idle" => status = Source[mod'[n]]
    BY <1>3 DEF ModerateRead, TypeOK, HubTypeOK, Moderated, DecisionHolds
  <2> QED
    BY <1>1, <1>3, <2>1 DEF ModerateRead, Moderated, DecisionHolds, OutboxFollows, RejectionSeen,
       relayVars, row
<1>4. CASE /\ \/ DispatcherStep \/ DispatcherDies \/ LateCreate \/ LeaseExpires
              \/ \E p \in Publishers : PublisherStep(p) \/ PublisherDies(p)
           /\ UNCHANGED relayVars
  <2>1. CASE out = "none"
    BY <1>4, <2>1, QuietHub DEF Moderated, DecisionHolds, OutboxFollows, RejectionSeen, relayVars
  <2>2. CASE out # "none"
    <3>1. out' # "none" /\ status' \notin Undecided /\ UNCHANGED mod
      BY <1>4, <2>2, PublishingHub
    <3>2. status \notin Undecided
      BY <2>2 DEF Moderated, OutboxFollows
    <3>3. \A m \in Moderators : mod[m] = "idle"
      BY <3>2 DEF Moderated, DecisionHolds, Source, Undecided, TypeOK, HubTypeOK, Actions
    <3>4. RejectionSeen'
      BY <1>4, <3>2 DEF Moderated, RejectionSeen, relayVars, Undecided
    <3> QED BY <3>1, <3>3, <3>4 DEF Moderated, DecisionHolds, OutboxFollows
  <2> QED BY <2>1, <2>2
<1>5. CASE Submit \/ Withdraw \/ LateIntake \/ \E r \in Relays : RelayStep(r) \/ RelayDies(r)
  <2>1. UNCHANGED <<mod, out, started, dispatcher, msgs, pub>>
    BY <1>5, RelayLeavesHub DEF row
  <2>2. status' = status \/ (status = "none" /\ status' = "received")
    BY <1>5 DEF Submit, Withdraw, LateIntake, RelayStep, RelayDies, ClaimDelivery, Deliver,
       CompleteDelivery, RetryDelivery, ReadStatus, UpdateStatus, Intake, hubVars
  <2>3. DecisionHolds' /\ OutboxFollows'
    BY <2>1, <2>2 DEF Moderated, DecisionHolds, OutboxFollows, Source, Undecided, TypeOK,
       HubTypeOK, Actions
  <2>4. RejectionSeen'
    <3> USE DEF Moderated, RejectionSeen, TypeOK
    <3>1. CASE Submit \/ Withdraw \/ LateIntake
      BY <2>2, <3>1 DEF Submit, Withdraw, LateIntake
    <3>2. ASSUME NEW r \in Relays,
                 ClaimDelivery(r) \/ Deliver(r) \/ CompleteDelivery(r) \/ RetryDelivery(r)
                 \/ RelayDies(r)
          PROVE RejectionSeen'
      <4>1. /\ \A q \in Relays : relay'[q].at = "status" => relay'[q] = relay[q]
            /\ box' \in {"rejected", "duplicate"} => box' = box
        <5>1. CASE ClaimDelivery(r)
          BY <5>1 DEF ClaimDelivery, RelayState
        <5>2. CASE Deliver(r)
          BY <5>2 DEF Deliver, Go, Retrying, RelayState
        <5>3. CASE CompleteDelivery(r)
          BY <5>3 DEF CompleteDelivery, Sleep, Retrying, Asleep, RelayState
        <5>4. CASE RetryDelivery(r) \/ RelayDies(r)
          BY <5>4 DEF RetryDelivery, RelayDies, Sleep, Asleep
        <5> QED BY <3>2, <5>1, <5>2, <5>3, <5>4
      <4> QED BY <2>2, <4>1
    <3>3. ASSUME NEW r \in Relays, ReadStatus(r) PROVE RejectionSeen'
      BY <2>2, <3>3 DEF ReadStatus, hubVars
    <3>4. ASSUME NEW r \in Relays, UpdateStatus(r) PROVE RejectionSeen'
      BY <2>2, <3>4 DEF UpdateStatus, Sleep, Asleep, hubVars
    <3> QED BY <1>5, <3>1, <3>2, <3>3, <3>4 DEF RelayStep
  <2> QED BY <2>3, <2>4 DEF Moderated
<1> QED BY <1>2, <1>3, <1>4, <1>5 DEF Next, HubNext

\* The invariant of the moderated behaviours.
LEMMA ModeratedInvariance == ModeratedSpec => [](TypeOK /\ OnePermit /\ Moderated)
<1>1. ModeratedSpec => []IInv
  BY Invariance, PTL DEF ModeratedSpec, Spec
<1>2. Init => Moderated
  BY DEF Init, HubInit, Moderated, DecisionHolds, OutboxFollows, RejectionSeen, Resting, Asleep
<1>3. IInv /\ Moderated /\ [Next /\ OneAtATime]_vars => Moderated'
  <2>1. CASE UNCHANGED vars
    BY <2>1 DEF vars, hubVars, relayVars, Moderated, DecisionHolds, OutboxFollows, RejectionSeen
  <2> QED BY <2>1, NextModerated DEF IInv
<1>4. IInv /\ Moderated => TypeOK /\ OnePermit /\ Moderated
  BY DEF IInv
<1> QED BY <1>1, <1>2, <1>3, <1>4, PTL DEF ModeratedSpec

\* Administrators who decide one after the other get what the contract says: an
\* outbox row, and so a publication, only of what was accepted.
THEOREM AcceptanceComesFirst == ModeratedSpec => []OnlyAcceptedIsPublished
<1>1. Moderated => OnlyAcceptedIsPublished
  BY DEF Moderated, OutboxFollows, Undecided, OnlyAcceptedIsPublished
<1> QED BY ModeratedInvariance, <1>1, PTL

\* And a rejection that has reached the owner is final: the Hub still has it,
\* and there is no issue of the feedback, nor one on its way.
THEOREM RejectionsAreFinal == ModeratedSpec => []RejectionIsFinal
<1>1. TypeOK /\ OnePermit /\ Moderated => RejectionIsFinal
  <2> SUFFICES ASSUME TypeOK, OnePermit, Moderated, box \in {"rejected", "duplicate"}
               PROVE  status = box /\ issues + late = 0
    BY DEF RejectionIsFinal
  <2>1. status = box /\ ~started
    BY DEF Moderated, RejectionSeen, OutboxFollows, Undecided
  <2> QED BY <2>1 DEF OnePermit
<1> QED BY ModeratedInvariance, <1>1, PTL
=============================================================================
