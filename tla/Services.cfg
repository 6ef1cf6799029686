SPECIFICATION Spec
CONSTANTS
    N = 2
    Kinds <- Both
    Ports = {p1, p2, p3}
    Free = free
    Stranger = stranger
    NoPort = noPort
    Faults <- Every
INVARIANTS NothingLeft
PROPERTIES NoProcessLosesItsTree OpensOnItsContainer RunCloses
