\* One job for two symbols, two workers, three attempts.
CONSTANTS
    Jobs = {j1}
    Symbols = {s1, s2}
    Workers = {w1, w2}
    MaxAttempts = 3
SPECIFICATION FairSpec
CHECK_DEADLOCK FALSE
INVARIANTS ImportedAtMostOnce ReportedIsStored
PROPERTIES CheckpointsFinal LifecycleSpec EveryJobSettles
