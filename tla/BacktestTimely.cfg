\* One row that two workers take from each other, each reading its fence in time.
CONSTANTS
    Backtests = {b1}
    Workers = {w1, w2}
    Database = db
    MaxAttempts = 3
SPECIFICATION TimelySpec
CHECK_DEADLOCK FALSE
INVARIANT OneWorkerPerAttempt
