SPECIFICATION FairSpec
CONSTANTS
    NTests = 3
    BufferSize = 2
    InitialCap = 2
    MaxAsserts = 3
    Faults = {"collect", "malloc", "realloc"}
INVARIANTS
    MessagesInBounds
    FailedTestsExact
    MessagesKept
    FailFastStops
    ReportComplete
PROPERTIES
    ImplementsRunner
    Termination
