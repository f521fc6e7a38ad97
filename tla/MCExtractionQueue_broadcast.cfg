SPECIFICATION Spec
CONSTANTS
  Rows <- ThreeRows
  Workers = {"w1"}
  Triggers = {"t1"}
  Conns = {"A"}
  Groups = {"g"}
  Tenants = {"t"}
  Lanes = {"backlog"}
  Tables = {"sale"}
  StubTable = "sale"
  ConnOf <- ConnA
  GroupOf <- GroupG
  LaneOf <- Backlog
  TenantOf <- TenantT
  ChildrenOf <- Broadcast
  OwnPosts <- NoPairs
  Excluded <- NoPairs
  SameAuthorCopy <- NoPairs
  SameText <- NoPairs
  MaxRetries = 1
  BatchSize = 3
  ReenableLimit = 1
  MaxCrashes = 0
  MaxFaults = 2
  MaxOps = 2
CHECK_DEADLOCK FALSE
INVARIANTS ConsumedOnlyWhenResolved SplitIsComplete
PROPERTY ImplementsLedger
