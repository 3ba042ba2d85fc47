SPECIFICATION Spec
CONSTANT N = 2
INVARIANT IfmPopulated
