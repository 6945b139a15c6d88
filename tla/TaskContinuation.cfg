\* Two ready signals of one task; one fault: a crash, a lost answer, a call
\* left open or a run that cannot be proved.
CONSTANTS
    Jobs = {j1, j2}
    MaxFaults = 1
SPECIFICATION FairSpec
CHECK_DEADLOCK FALSE
INVARIANTS AtMostOneRun CancelledNeverRuns SettledIsOver
PROPERTIES ClearedIsQuiet PromiseSpec AcceptedSettles
