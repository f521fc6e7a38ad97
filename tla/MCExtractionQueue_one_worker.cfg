SPECIFICATION FairSpec
CONSTANTS
  Rows <- TwoRows
  Workers = {"w1"}
  Triggers = {}
  Conns = {"A"}
  Groups = {"g"}
  Tenants = {"t"}
  Lanes = {"backlog"}
  Tables = {"sale", "rent"}
  StubTable = "sale"
  ConnOf <- ConnA
  GroupOf <- GroupG
  LaneOf <- Backlog
  TenantOf <- TenantT
  ChildrenOf <- NoChildren
  OwnPosts <- NoPairs
  Excluded <- SecondRow
  SameAuthorCopy <- Copies
  SameText <- Copies
  MaxRetries = 2
  BatchSize = 1
  ReenableLimit = 1
  MaxCrashes = 1
  MaxFaults = 1
  MaxOps = 3
CHECK_DEADLOCK FALSE
INVARIANTS TypeOK ConsentFence OutrunIsBounded HistoryStaysEvidence DeadLetterIsEarned SuccessIsBacked SucceededIsVisible
PROPERTIES QueueDrains DeadLetterIsFinal
