CONSTANTS
  p1 = p1
  p2 = p2
  a = a
  b = b
  None = None
  Stale = Stale
  Procs = {p1, p2}
  Commands = {"lock", "check", "roof"}
  Claims = {a, b}
  RestsOn <- ARestsOnB
  Batches <- AllTogether
  Bodies = {"x"}
  Texts = {"t", "u"}
  Threads = {}
  MaxExtra = 1
  MaxEdits = 1
  MaxCrashes = 1
  MaxFaults = 2
  MaxTampers = 0
SPECIFICATION FairSpec
PROPERTIES BatchAtomic RecordsNeverLost NoLostUpdate CommandsEnd
