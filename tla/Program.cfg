SPECIFICATION Spec
CONSTANTS
    MaxFailures = 1
    ArgPool <- MCArgPool
    Number <- MCNumber
    MaxParams = 3
    MaxThreads = 4
    StateDelta = 8
    EdgeDelta = 6
    Images <- MCImages
    Low <- MCLow
    MaxPieces = 1
    MaxOthers = 1
INVARIANTS
    StatusHonest
    TempFilesRemoved
    NoClosedStream
    CapturedShown
PROPERTY
    Exits
