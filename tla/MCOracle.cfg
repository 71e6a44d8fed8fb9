SPECIFICATION Spec
CONSTANTS
    NoMode = NoMode
    NoCount = NoCount
    FlagSets = {{"buddy"}, {"weighted", "unweighted", "projected", "unprojected"}}
    Modes = {NoMode, 0, 1, 2, 4, 6, 7}
    OptionSet <- Options
    Counts = {0, 200, 201, 600}
    WeightedCounts = {0, 5, 200, 201, 600}
    Truths = {0, 5, 200, 201, 600}
    Epsilons = {8}
    Deltas = {40}
    NumReruns = 4
    MaxFailed = 2
    FloatSlack = 10
INVARIANTS NoFalseAlarm PassMeansAgreement ModesFitFile ChecksHold
PROPERTY Concludes
