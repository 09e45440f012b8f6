SPECIFICATION FairSpec
CONSTANTS
    Environments <- AllEnvironments
    Retries = 2
    PcmFrames = 2
    SynthFrames = 1
    Chunks = 2
    Pipe = 1
INVARIANTS
    StreamClosed
    AllHeard
    NoOrphans
    FileOpenWhenWritten
PROPERTY Finishes
CHECK_DEADLOCK FALSE
