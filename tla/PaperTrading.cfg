\* Two symbols in one pool that changes once; two lot prices, two dates, three fills.
CONSTANTS
    Symbols = {s1, s2}
    Pools = {p1}
    Callers = {c1}
    LotAmounts = {20000, 20000000}
    InitialCash = 20010000
    Limits = {10000000}
    MaxLots = 1
    MaxDate = 2
    MaxOrders = 3
    MaxVersion = 5
    MaxChanges = 1
SPECIFICATION Spec
CHECK_DEADLOCK FALSE
INVARIANTS BooksReconcile FrozenUniverse VersionIdentifiesAccount DailyResultsAddUp
           SoldWasSettled DebtWithinFees
PROPERTIES SettledDaysAreFinal
