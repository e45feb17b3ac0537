SPECIFICATION FRSpec
CONSTANTS
    Producers = {"venc"}
    Slots = 2
    MaxObjects = 2
    MaxFrames = 3
    BadFrames = {2}
    MaxCrashes = 1
PROPERTIES ImplementsFifo FramesConsumed OrphanAbandoned
CHECK_DEADLOCK FALSE
