SPECIFICATION Spec
CONSTANTS
    Jobs = 4
    MaxThreads = 4
    NTests = 1
    BufferSize = 1
    FailFast = FALSE
    Outcomes <- MCPassFail
    Faults = {}
INVARIANTS
    LogAccessInBounds
