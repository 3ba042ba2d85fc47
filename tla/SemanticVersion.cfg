SPECIFICATION Spec
CONSTANT Numbers = {0, 1, 2}
INVARIANT LessMeansOlder
