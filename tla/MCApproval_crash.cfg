CONSTANTS
  p1 = p1
  p2 = p2
  a = a
  b = b
  None = None
  Stale = Stale
  Procs = {p1, p2}
  Commands = {"lock", "unlock", "flag", "reaudit", "comment", "check"}
  Claims = {a}
  RestsOn <- Flat
  Batches <- EachAlone
  Bodies = {"x", "y"}
  Texts = {"t"}
  Threads = {"t1"}
  MaxExtra = 1
  MaxEdits = 1
  MaxCrashes = 1
  MaxFaults = 1
  MaxTampers = 1
SPECIFICATION Spec
CONSTRAINT TamperAlone
SYMMETRY Symmetry
INVARIANTS Honest NoUnapproved AdviceAgrees
PROPERTIES ReleaseFollowsDraft UnlockRecovers CheckReconciles NoApprovalOverThreads
