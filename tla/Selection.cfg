SPECIFICATION Spec
CONSTANTS
    MaxFailures = 1
    ArgPool <- MCArgPool
    Number <- MCNumber
    MaxParams = 4
    MaxThreads = 4
    StateDelta = 8
    EdgeDelta = 6
    Images <- MCImages
    Low <- MCLow
INVARIANTS
    DfaExact
    PositionalsExact
    SelectionExact
    JudgedIfDisjoint
