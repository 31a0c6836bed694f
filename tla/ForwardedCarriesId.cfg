SPECIFICATION Spec
CONSTANTS
    None = None
    CounterLimit = 8
    NotText = NotText
    NotAString = NotAString
    Fresh = Fresh
    MaxIdLen = 2
    Configs <- MCConfigs
    Requests <- MCRequests
    Answers <- MCAnswers
    Frames <- MCFrames
    BodySizes = {1, 3}
    MaxStream = 1
INVARIANT ForwardedCarriesId
CHECK_DEADLOCK FALSE
