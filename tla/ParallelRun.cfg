SPECIFICATION Spec
CONSTANTS
    Jobs = 3
    MaxThreads = 4
    NTests = 5
    BufferSize = 1
    FailFast = FALSE
    Outcomes <- MCOutcomes
    Faults = {"barrier", "rwlock", "spawn", "collect", "records", "init"}
INVARIANTS
    TypeOK
    RaceFree
    LogAccessInBounds
    EachThreadCountedOnce
    TestsBracketed
    NoTestTwice
    NothingSkipped
    PrintingExclusive
    ReportComplete
    VerdictCorrect
CHECK_DEADLOCK
    FALSE
