SPECIFICATION Spec
CONSTANTS
    Seconds = {10}
    MinimizerTimeout = 1
    MaxElapsed = 2
    Intermediates = {"-1"}
INVARIANTS
    TenMinutes
