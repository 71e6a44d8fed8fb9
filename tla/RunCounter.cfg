SPECIFICATION Spec
CONSTANTS
    MaxTime = 8
    MaxTimeDiff = 2
    MaxElapsed = 10
    MaxSignals = 2
    MaxLines = 3
    Values = {0, 1, 2}
    NoCount = NoCount
INVARIANTS CountIsEarned FailureIsOwn CountIsStated NoOrphan
PROPERTIES RunEnds SignalTerminates
