CONSTANTS
    Editable <- AllFiles
    Claims <- PlainClaims
    MaxEdits = 2
    MaxStages = 2
    MaxRuns = 2
SPECIFICATION Spec
INVARIANTS VerdictsAgree CommitsValidate OutputsTrue
PROPERTIES ForeignKept
CHECK_DEADLOCK FALSE
