CONSTANTS
  c1 = c1
  c2 = c2
  None = None
  Other = Other
  Clients = {c1}
  Busy = {"digest"}
  MaxWrites = 2
  MaxActs = 1
SPECIFICATION FairSpec
INVARIANTS FreshResponse
PROPERTIES PagesNeverRegress ChangesReachTabs ShutdownPrompt
CHECK_DEADLOCK FALSE
