SPECIFICATION Spec
CONSTANTS
    Devices = {"net"}
    Chains <- BlockChains
    Sizes <- QueueSizes
    Parts <- QueueParts
    MaxSize <- QueueSize
    Modulus = 4
    NumSectors = 2
    ReadOnly = FALSE
    Frames = 2
    Big <- BigFrames
    Room = 1
    Resets = {}
    MaxMasks <- NoMasks
INVARIANT TxFramed

CHECK_DEADLOCK FALSE
