\* Two producers and two consumers on two slots, with every kind of timeout.
CONSTANTS
    Producers = {p1, p2}
    Consumers = {c1, c2}
    Capacity = 2
    Payloads = {a, b}
    Timeouts = {"poll", "forever", "timed"}
    Null = Null
    None = None
SPECIFICATION FairSpec
INVARIANTS OneOwner NoLostNotFull NoLostNotEmpty
PROPERTIES ImplementsFifo QueuedIsFreed
