\* Two cells on one permit, a workspace and a secondary sink; Ctrl-C and every failure that ends the run, a failing cleanup among them.
CONSTANTS
    fast = fast
    slow = slow
    gpu = gpu
    none = none
    sink = sink
    None = none
    Cells <- Two
    Variants <- BothVariants
    VariantOf <- TwoVariantOf
    Pool <- NoOption
    PoolCap <- NoPools
    MaxConcurrency = 1
    PerVariantCap = none
    VariantCap <- NoOption
    CostLimit = none
    MaxCost = 0
    Reported <- BothVariants
    Enriched = {}
    HasWorkspace = TRUE
    Secondaries = {sink}
    Faults <- HardFaults
SPECIFICATION Spec
INVARIANTS
    PermitsConserved
    SummaryNamesLossySinks
PROPERTIES
    UncancelledCellRemovesWorkspace
    RunEnds
    ImplementsContract
