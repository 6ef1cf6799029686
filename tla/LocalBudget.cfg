\* Soft failures only, over three cells against a cost limit: one variant capped at one, the
\* other, which is enriched, on a pool of one; no workspace, one secondary sink.
CONSTANTS
    fast = fast
    slow = slow
    gpu = gpu
    none = none
    sink = sink
    None = none
    Cells <- Three
    Variants <- BothVariants
    VariantOf <- ThreeVariantOf
    Pool <- SlowOnPool
    PoolCap <- OneGpu
    MaxConcurrency = 2
    PerVariantCap = none
    VariantCap <- FastOne
    CostLimit = 1
    MaxCost = 1
    Reported <- BothVariants
    Enriched = {slow}
    HasWorkspace = FALSE
    Secondaries = {sink}
    Faults = {"adapter", "sink"}
SPECIFICATION Spec
INVARIANTS
    OvershootBounded
    SummaryAgreesWithSink
PROPERTIES
    RunPublishes
