SPECIFICATION Spec
CONSTANT
    MaxWeights = 4
INVARIANTS MinimalIfMonotone WarnsOnlyReordered
PROPERTY TriesEachOnce
