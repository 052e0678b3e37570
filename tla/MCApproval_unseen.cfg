CONSTANTS
  p1 = p1
  p2 = p2
  a = a
  b = b
  None = None
  Stale = Stale
  Procs = {p1, p2}
  Commands = {"lock"}
  Claims = {a}
  RestsOn <- Flat
  Batches <- EachAlone
  Bodies = {"x"}
  Texts = {"t"}
  Threads = {}
  MaxExtra = 1
  MaxEdits = 1
  MaxCrashes = 0
  MaxFaults = 0
  MaxTampers = 0
SPECIFICATION Spec
INVARIANT SignsReviewed
