SPECIFICATION FairSpec
CONSTANTS
  Parents = {10, 20}
  Slices = {1, 2, 3}
  ParentOf <- TwoBroadcasts
  Earlier = {1, 2, 3}
  Splittable = {10, 20}
  Repairers = {"w1"}
  Extractors = {"e1"}
  Batch = 1
  MaxCrashes = 0
  MaxFaults = 0
  MaxRequests = 0
CHECK_DEADLOCK FALSE
PROPERTY RepairHappens
