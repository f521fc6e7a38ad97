SPECIFICATION Spec
CONSTANTS
  Parents = {10, 20}
  Slices = {1, 2, 3}
  ParentOf <- TwoBroadcasts
  Earlier = {1, 3}
  Splittable = {10}
  Repairers = {w1, w2}
  Extractors = {"e1"}
  Batch = 2
  MaxCrashes = 1
  MaxFaults = 1
  MaxRequests = 1
SYMMETRY AnyRepairer
CHECK_DEADLOCK FALSE
INVARIANTS TypeOK SupersededOnlyWhenSliced OneRepairer
PROPERTIES KeepsLedger
