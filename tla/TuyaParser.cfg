SPECIFICATION FairSpec
CONSTANTS
    MaxData = 4
    MaxFaults = 2
    Frames <- SmallFrames
    Noise <- SmallNoise
INVARIANTS TypeOK NoOverrun
PROPERTIES OnlyIntactFrames CleanLineDelivers Resynchronises
