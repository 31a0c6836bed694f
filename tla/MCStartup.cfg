SPECIFICATION Spec
CONSTANTS
    None = None
    CounterLimit = 8
    NotText = NotText
    NotAString = NotAString
    Fresh = Fresh
    MaxIdLen = 2
    Starts <- MCStarts
    Pems <- MCPemFiles
    Missing = Missing
    Garbage = Garbage
INVARIANTS
    TypeOK
    CaughtAtLoad
    ServesValid
    VerifiesUnlessTold
    ServesOnePair

    
CHECK_DEADLOCK FALSE
