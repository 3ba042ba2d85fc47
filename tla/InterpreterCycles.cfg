SPECIFICATION Spec
CONSTANTS
    Fd = {0, 1, 2, 3, 4, 5}
    networkBuffer = networkBuffer
    arenaBuffer = arenaBuffer
    network = network
    Inferences = {i1, i2}
    Dev = Dev
    NoObj = NoObj
    FdMax = 16
    MaxInput = 1
INVARIANT CyclesOnlyIfWanted
