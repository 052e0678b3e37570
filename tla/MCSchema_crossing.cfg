CONSTANTS
    c1 = c1
    c2 = c2
    Claims <- TwoClaims
    Dependent <- OneDependent
    MaxComments = 2
    MaxFaults = 0
    MaxLapses = 0
    MaxKills = 0
    MaxTampers = 0
    None = None
SPECIFICATION Spec
INVARIANT ThreadsAlwaysRecorded
CHECK_DEADLOCK FALSE
