\* One relay, two publishers, one moderator; the code's budgets of eight and
\* six attempts are two; one fault, a lost answer, crash, duplicate or delay.
CONSTANTS
    Relays = {r1}
    Publishers = {p1, p2}
    Moderators = {m1}
    MaxDelivery = 2
    MaxPublish = 2
    MaxMessages = 2
    MaxFaults = 1
SPECIFICATION FairSpec
CHECK_DEADLOCK FALSE
INVARIANTS AtMostOneIssue WithdrawnNeverSent PublishedIsReal
PROPERTIES PublicationEnds DeliveryEnds
