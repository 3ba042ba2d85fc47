SPECIFICATION FairSpec
CONSTANTS
    Fd = {0, 1, 2, 3, 4}
    networkBuffer = networkBuffer
    arenaBuffer = arenaBuffer
    network = network
    Inferences = {i1}
    Dev = Dev
    NoObj = NoObj
    FdMax = 16
    MaxInput = 1
    TopSize = 2
    Threshold = 59
    NaN = NaN
    Outputs <- MCOutputs
    LabelCounts = {1, 4}
INVARIANTS
    TypeOK
    ReportsOwnOutput
    TopRanked
    CountersAreOwn
PROPERTIES
    InterpreterClient
    Terminates
