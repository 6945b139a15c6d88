\* Two candidates, one comparison; every process may crash at every step.
CONSTANTS
    Backtests = {b1, b2}
    Workers = {w1}
    Database = db
    MaxAttempts = 2
    Optimizations = {o1}
    Comparers = {c1}
    OptMaxAttempts = 2
SPECIFICATION FairSpec
CHECK_DEADLOCK FALSE
INVARIANTS CitedSourcesKept ComparisonIffCompleted
PROPERTIES LifecycleSpec EveryJobSettles
