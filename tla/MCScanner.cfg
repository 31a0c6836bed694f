SPECIFICATION Spec
CONSTANTS
    None = None
    CounterLimit = 8
    Streams <- MCStreams
    Report <- MCReport
    MaxPending = 11
INVARIANTS
    TypeOK
    CutObjectsCount
    LongObjectCostsNext
    NothingLeftOver
    
    PendingBounded
CHECK_DEADLOCK FALSE
