SPECIFICATION Spec
CONSTANTS
    NoMode = NoMode
    NoCount = NoCount
    FlagSets = {{}}
    Modes = {NoMode}
    OptionSet <- Options
    Counts = {200, 600}
    WeightedCounts = {200}
    Truths = {200}
    Epsilons = {8}
    Deltas = {20}
    NumReruns = 2
    MaxFailed = 2
    FloatSlack = 10
INVARIANT RerunCrashReported
