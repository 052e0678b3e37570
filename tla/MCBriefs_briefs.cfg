SPECIFICATION Spec
CONSTANTS
    Briefs = {b1}
    Claims = {k1}
    Contents = {v1, v2}
    Procs = {p1, p2}
    ThreadIds = {t1}
    ReplyIds = {}
    MaxEdits = 2
    MaxFaults = 1
    MaxTampers = 1
    None = None
    Dead = Dead
INVARIANTS CleanMeansRead HonestAudit NeverLaundered DryRunTells
PROPERTIES NoOpenThreadSigned
CHECK_DEADLOCK FALSE
