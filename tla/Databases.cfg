\* Two coroutines of a run and one of a retry, on either database.
SPECIFICATION Spec
CONSTANTS
    run = run
    retry = retry
    a = a
    b = b
    x = x
    c = c
    Cells = {c}
    Procs <- TwoProcs
    Writers <- ThreeWriters
    ProcOf <- RunAndRetry
    Ops <- SomeOps
    PoolSize = 1
    MaxCalls = 3
    MaxOpens = 3
INVARIANTS AnsweredIsDurable
PROPERTIES OnlyRacesReplaceSuccess CallsEnd
CHECK_DEADLOCK FALSE
