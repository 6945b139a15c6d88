\* Two training runs and a prediction of one study, two workers, two attempts,
\* one takeover of a preparation; a worker may crash at every step.  An attempt
\* publishes in one transaction here, four in the code.
CONSTANTS
    Trainings = {t1, t2}
    Predictions = {p1}
    Workers = {w1, w2}
    MaxAttempts = 2
    MaxRecoveries = 1
    LastStage = 1
SPECIFICATION FairSpec
CHECK_DEADLOCK FALSE
INVARIANTS StudyAtRest OneActiveRun
PROPERTIES LifecycleSpec EveryRunSettles
