\* Two cells on a tracked and an ignored path; every workspace type, fixture and failure.
CONSTANTS
    c1 = c1
    c2 = c2
    code = code
    cache = cache
    NoTree = NoTree
    Cells = {c1, c2}
    Files = {code, cache}
    Ignored = {cache}
    Kinds = {"tempdir", "git", "docker"}
    Sources <- FixtureOrNone
    Heads <- SomeHeads
    InitGit = TRUE
    HasStorage = TRUE
    Stubborn = {c2}
    SharedVolume = FALSE
    Faults = {"docker", "disk", "git", "store", "storage"}
SPECIFICATION Spec
INVARIANTS
    DiffIsOwnWork
    NothingIsLeft
PROPERTIES
    CellsEnd
