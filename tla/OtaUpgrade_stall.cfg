SPECIFICATION MCSpec
CONSTANTS
    empty = empty
    small = small
    above = above
    medium = medium
    other = other
    huge = huge
    NoFile = NoFile
    FileSize <- Size
    MaxFwSize = 2097152
    Files = {empty, small, medium}
    PackageSizes = {256, 512}
    MaxPayload = 256
    Senders = {"code"}
    Faults = FALSE
    McuRejects = FALSE
    PromptCaller = TRUE
INVARIANTS SendingHasPacket
