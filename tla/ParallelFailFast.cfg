SPECIFICATION FairSpec
CONSTANTS
    Jobs = 3
    MaxThreads = 4
    NTests = 5
    BufferSize = 2
    FailFast = TRUE
    Outcomes <- MCPassFail
    Faults = {}
INVARIANTS
    FailFastPrompt
PROPERTIES
    ImplementsRunner
    Termination
