SPECIFICATION FairSpec
CONSTANT N = 3
INVARIANTS
    TypeOK
    OutputIsItsOwn
    ResultNotLost
    CancelOnlyOnTimeout
PROPERTIES
    BatchSafe
    Terminates
