SPECIFICATION Spec
CONSTANTS
    MaxClauses = 6
    MaxIfFlaky = 5
INVARIANTS OneMinimal SavedCrash WarnsOnlyUnreduced
PROPERTY Terminates
