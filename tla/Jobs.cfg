SPECIFICATION Spec
CONSTANTS
    Cells <- TwoCells
    Large <- FirstIsLarge
    MaxAttempts = 2
    Interrupted <- FirstAttempt
    Faults <- AllFaults
INVARIANT ReturnedRunIsCleanedUp
INVARIANT WatchedJobIsOwn
PROPERTY AttemptEnds
PROPERTY ImplementsExecutor
