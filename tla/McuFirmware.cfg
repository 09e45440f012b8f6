SPECIFICATION MCSpec
CONSTANTS
    N = 4
    ProcessBuf = 31
    MaxData = 1024
    Garbage = {0}
    ProductInfo <- Product
    WeatherOptions <- Options
INVARIANT NothingLost
PROPERTIES InOrder DpAnswered AnswersReach FramesHandled
