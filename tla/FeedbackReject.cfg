\* Two moderators decide at the same time; no fault is needed.
CONSTANTS
    Relays = {r1}
    Publishers = {p1}
    Moderators = {m1, m2}
    MaxDelivery = 1
    MaxPublish = 1
    MaxMessages = 1
    MaxFaults = 0
SPECIFICATION Spec
CHECK_DEADLOCK FALSE
INVARIANTS OnlyAcceptedIsPublished
