CONSTANTS
    c1 = c1
    c2 = c2
    Claims <- TwoClaims
    Dependent <- OneDependent
    MaxComments = 2
    MaxFaults = 1
    MaxLapses = 1
    MaxKills = 1
    MaxTampers = 1
    None = None
SPECIFICATION Spec
INVARIANTS NotAccused NothingLaundered
PROPERTIES StoresRespected
CHECK_DEADLOCK FALSE
