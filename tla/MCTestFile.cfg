SPECIFICATION Spec
CONSTANTS
    NumVars = {1}
    MinRefs = 3
    MaxNodes = 2
    Percents = {6}
    ClauseLens = {2}
    Taut = FALSE
    Multilit = FALSE
    Layouts <- MCLayouts
    Ratios = {100}
    MinLen = 2
    MaxLen = 3
    Weightings = {"zerocomps", "messy", "full"}
    NoLine = NoLine
INVARIANTS ClausesProper AllNumbered ModelsAreEvaluations OwnFileAccepted LinesFit
PROPERTY GeneratorEnds
