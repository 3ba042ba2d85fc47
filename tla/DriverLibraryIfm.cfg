SPECIFICATION Spec
CONSTANTS
    Fd = {0, 1, 2, 3, 4, 5}
    b1 = b1
    b2 = b2
    b3 = b3
    n1 = n1
    i1 = i1
    i2 = i2
    Buffers = {b1, b2, b3}
    Networks = {n1}
    Inferences = {i1, i2}
    Dev = Dev
    NoObj = NoObj
    FdMax = 1
SYMMETRY MCSymmetry
INVARIANT IfmFdsFit
