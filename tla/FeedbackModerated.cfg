\* Two moderators who decide one after the other, and one fault.
CONSTANTS
    Relays = {r1, r2}
    Publishers = {p1}
    Moderators = {m1, m2}
    MaxDelivery = 2
    MaxPublish = 1
    MaxMessages = 1
    MaxFaults = 1
SPECIFICATION ModeratedSpec
CHECK_DEADLOCK FALSE
INVARIANTS OnlyAcceptedIsPublished RejectionIsFinal
