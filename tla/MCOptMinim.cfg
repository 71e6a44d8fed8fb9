SPECIFICATION OptSpec
CONSTANTS
    CmdOptions <- MCOptions
    MaxOptions = 3
    Stray = {"-s"}
INVARIANTS CurrentPreserves NoOptionTooMany OptionsInPlace
