SPECIFICATION Spec
CONSTANTS
    Size = 2
    Digit = 3
    Header = 1
    Base = 2
    DeviceTrees <- MCDeviceTrees
    MaxWrites = 10
INVARIANTS
    TypeOK
    PrintBounded
    NeverStale
    QuietPrintIsExact
    ReaderNotAhead
    MapsDeclaredQueue
