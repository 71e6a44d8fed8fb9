SPECIFICATION Spec
CONSTANTS
    Seconds = {10, 20, 120}
    MinimizerTimeout = 1
    MaxElapsed = 1
    Intermediates = {"-1"}
INVARIANTS
    FinalHolds
    FromOriginal
    RejectedRemoved
