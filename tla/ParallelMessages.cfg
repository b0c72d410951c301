SPECIFICATION Spec
CONSTANTS
    Jobs = 2
    MaxThreads = 4
    NTests = 2
    BufferSize = 1
    FailFast = FALSE
    Outcomes <- MCPassFail
    Faults = {}
INVARIANTS
    SummaryReadsLive
