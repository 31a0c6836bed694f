SPECIFICATION Spec
CONSTANTS
    None = None
    CounterLimit = 8
    NotText = NotText
    NotAString = NotAString
    Fresh = Fresh
    MaxIdLen = 2
    Configs <- MCConfigs
    Requests <- MCRequests
    Answers <- MCAnswers
    Frames <- MCFrames
    BodySizes = {2}
    MaxStream = 3
INVARIANTS
    TypeOK
    CompleteMeansDelivered
    AbortedHasCause
    BodyInv
    UsageIsMostComplete
PROPERTIES
    PromiseKept
    GoneIsSettled
CHECK_DEADLOCK FALSE
