SPECIFICATION Spec
CONSTANTS
    None = None
    CounterLimit = 8
    NotText = NotText
    NotAString = NotAString
    Fresh = Fresh
    MaxIdLen = 2
    Configs <- MCConfigs
    Requests <- MCRequests
    Answers <- MCAnswers
    Frames <- MCFrames
    BodySizes = {2}
    MaxStream = 3
INVARIANT AbortedLoggedAtWarn
CHECK_DEADLOCK FALSE
