SPECIFICATION FairSpec
CONSTANTS
    Producers <- SmallProducers
    Consumers <- SmallConsumers
    Message <- SmallMessage
    None = None
    Capacity = 1
    HeartbeatTicks = 2
    TestTicks = 1
    MaxCalls = 2
PROPERTIES StatusConverges CallersReturn
INVARIANTS NeverSilent LatestStatus
