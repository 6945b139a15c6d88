\* One row that two workers take from each other.
CONSTANTS
    Backtests = {b1}
    Workers = {w1, w2}
    Database = db
    MaxAttempts = 3
SPECIFICATION BacktestSpec
CHECK_DEADLOCK FALSE
INVARIANT CompletedHasResult
PROPERTY BacktestLifecycle
