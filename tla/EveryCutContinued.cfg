SPECIFICATION Spec
CONSTANTS
    None = None
    CounterLimit = 8
    Streams <- MCStreams
    Report <- MCReport
    MaxPending = 11
INVARIANT EveryCutContinued
CHECK_DEADLOCK FALSE
