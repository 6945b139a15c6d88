\* One symbol, two dates, one lot per order.
CONSTANTS
    Symbols = {s1}
    Pools = {p1}
    Callers = {c1}
    LotAmounts = {10000000}
    InitialCash = 30000000
    Limits = {}
    MaxLots = 1
    MaxDate = 2
    MaxOrders = 2
    MaxVersion = 5
    MaxChanges = 0
SPECIFICATION Spec
CHECK_DEADLOCK FALSE
INVARIANT TPlusOne
