\* The constants of PaperTrading.cfg, for callers whose dates never go backwards.
CONSTANTS
    Symbols = {s1, s2}
    Pools = {p1}
    Callers = {c1}
    LotAmounts = {20000, 20000000}
    InitialCash = 20010000
    Limits = {10000000}
    MaxLots = 1
    MaxDate = 2
    MaxOrders = 3
    MaxVersion = 5
    MaxChanges = 1
SPECIFICATION ForwardSpec
CHECK_DEADLOCK FALSE
INVARIANTS TPlusOne
