SPECIFICATION FairSpec
CONSTANTS
  Rows <- TwoRows
  Workers = {"w1"}
  Triggers = {}
  Conns = {"A", "B"}
  Groups = {"g"}
  Tenants = {"t"}
  Lanes = {"backlog"}
  Tables = {"sale"}
  StubTable = "sale"
  ConnOf <- TwoPhones
  GroupOf <- GroupG
  LaneOf <- Backlog
  TenantOf <- TenantT
  ChildrenOf <- NoChildren
  OwnPosts <- NoPairs
  Excluded <- NoPairs
  SameAuthorCopy <- NoPairs
  SameText <- NoPairs
  MaxRetries = 1
  BatchSize = 1
  ReenableLimit = 1
  MaxCrashes = 0
  MaxFaults = 0
  MaxOps = 2
CHECK_DEADLOCK FALSE
PROPERTY QueueDrains
