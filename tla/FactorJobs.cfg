\* Two rows, one of them inherited, two workers that may crash at every step,
\* two attempts.  No symmetry: the run checks a liveness property.
CONSTANTS
    Jobs = {j1, j2}
    Workers = {w1, w2}
    Database = db
    MaxAttempts = 2
    Inherited = {j2}
SPECIFICATION FairSpec
CHECK_DEADLOCK FALSE
INVARIANTS RowLockProtectsAttempt AttemptFence PublishedIffCompleted AuditedAtMostOnce
PROPERTIES LiveAttemptKept LifecycleSpec EveryJobSettles
