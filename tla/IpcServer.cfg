SPECIFICATION ReadingSpec
CONSTANTS
    Producers <- SmallProducers
    Consumers <- SmallConsumers
    Message <- NoMessages
    None = None
    Capacity = 1
    DpMap <- SmallDpMap
    NoPayload = NoPayload
    MaxLine = 4
    Requests <- SmallRequests
    Texts <- SmallTexts
    SockBuf = 1
    MaxTexts = 2
    MaxClients = 2
INVARIANTS TypeOK AnswersMatch CommandsArrive
PROPERTIES LinesAnswered
CHECK_DEADLOCK FALSE
