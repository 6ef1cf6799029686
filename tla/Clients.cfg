SPECIFICATION ClientsSpec
CONSTANTS
    Runs = 2
    E = 2
    Vendors <- Every
    Attempts = 2
    Rows <- SomeRows
    ClientFaults <- AllFaults
INVARIANTS RegistryServesHolders NoEnrichmentDies SpansArrive
PROPERTIES RunsEnd
