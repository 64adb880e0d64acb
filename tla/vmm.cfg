SPECIFICATION Spec
CONSTANTS
    Devices = {"block", "net"}
    Chains <- BlockChains
    Sizes <- QueueSizes
    Parts <- QueueParts
    MaxSize <- QueueSize
    Modulus = 4
    NumSectors = 2
    ReadOnly = FALSE
    Frames = 2
    Big <- BigFrames
    Room = 1
    Resets = {"block"}
    MaxMasks <- Masks
INVARIANTS Faithful RingsMatch NoLostWakeup

CHECK_DEADLOCK FALSE
