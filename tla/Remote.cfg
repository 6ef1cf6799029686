SPECIFICATION Spec
CONSTANTS
    Cells <- ThreeCells
    None = None
    Kinds <- RayAndCelery
    Threads = 2
    Slots = 2
    Faults <- AllFaults
INVARIANT RayIsLeftAsFound
PROPERTY RunEnds
PROPERTY ImplementsExecutor
