SPECIFICATION Spec
CONSTANTS
    NoMode = NoMode
    NoCount = NoCount
    FlagSets = {{"unweighted"}}
    Modes = {NoMode}
    OptionSet <- Options
    Counts = {200}
    WeightedCounts = {200}
    Truths = {200}
    Epsilons = {8}
    Deltas = {20}
    NumReruns = 2
    MaxFailed = 1
    FloatSlack = 10
INVARIANT UnweightedOnly
