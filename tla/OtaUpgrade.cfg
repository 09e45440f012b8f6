SPECIFICATION MCSpec
CONSTANTS
    empty = empty
    small = small
    above = above
    medium = medium
    other = other
    huge = huge
    NoFile = NoFile
    FileSize <- Size
    MaxFwSize = 2097152
    Files = {empty, small, above, medium, other, huge}
    PackageSizes = {256, 512, 1024}
    MaxPayload = 256
    Senders = {"code", "wide"}
    Faults = TRUE
    McuRejects = TRUE
    PromptCaller = FALSE
INVARIANTS StopAndWait PacketFromImage NoGap
PROPERTIES DoneMeansDelivered OtaTerminates
CHECK_DEADLOCK FALSE
