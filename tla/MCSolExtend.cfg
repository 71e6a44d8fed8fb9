SPECIFICATION Spec
CONSTANTS
    MaxNumFiles = 6
    Formulas <- MCFormulas
    Outputs <- MCOutputs
INVARIANTS VerdictIsRight OnlySlowArjunLeaks
