SPECIFICATION FairSpec
CONSTANTS
  Procs = {p1, p2}
  Handlers = {h1}
  Operations = {"code", "disconnect"}
  MaxSessions = 2
  MaxDevices = 1
  MaxRequests = 1
  MaxBoots = 2
  MaxEvents = 1
INVARIANT InstalledHoldsLock
PROPERTIES CancelledEnds HandoffCompletes
CHECK_DEADLOCK FALSE
