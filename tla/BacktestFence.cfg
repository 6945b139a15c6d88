\* One row, two workers, two attempts.
CONSTANTS
    Backtests = {b1}
    Workers = {w1, w2}
    Database = db
    MaxAttempts = 2
SPECIFICATION BacktestSpec
CHECK_DEADLOCK FALSE
INVARIANT OneWorkerPerAttempt
