SPECIFICATION Spec
CONSTANTS
  Procs = {p1}
  Handlers = {h1, h2}
  Operations = {"connect", "code", "reset", "disconnect", "delete"}
  MaxSessions = 2
  MaxDevices = 2
  MaxRequests = 2
  MaxBoots = 1
  MaxEvents = 2
INVARIANTS TypeOK LockNeverLeaks InstalledHoldsLock 
CHECK_DEADLOCK FALSE
