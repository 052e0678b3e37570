CONSTANTS
  p1 = p1
  p2 = p2
  a = a
  b = b
  None = None
  Stale = Stale
  Procs = {p1, p2}
  Commands = {"lock", "unlock", "flag", "reaudit", "check"}
  Claims = {a, b}
  RestsOn <- ARestsOnB
  Batches <- EachAlone
  Bodies = {"x", "y"}
  Texts = {"t"}
  Threads = {}
  MaxExtra = 1
  MaxEdits = 1
  MaxCrashes = 0
  MaxFaults = 0
  MaxTampers = 0
SPECIFICATION Spec
SYMMETRY Symmetry
INVARIANT Honest
PROPERTY ReauditSettles
