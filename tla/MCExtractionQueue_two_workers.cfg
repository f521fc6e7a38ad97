SPECIFICATION Spec
CONSTANTS
  Rows <- OneRow
  Workers = {"w1", "w2"}
  Triggers = {}
  Conns = {"A"}
  Groups = {"g"}
  Tenants = {"t"}
  Lanes = {"backlog"}
  Tables = {"sale", "rent"}
  StubTable = "sale"
  ConnOf <- ConnA
  GroupOf <- GroupG
  LaneOf <- Backlog
  TenantOf <- TenantT
  ChildrenOf <- NoChildren
  OwnPosts <- NoPairs
  Excluded <- NoPairs
  SameAuthorCopy <- NoPairs
  SameText <- NoPairs
  MaxRetries = 1
  BatchSize = 1
  ReenableLimit = 1
  MaxCrashes = 0
  MaxFaults = 1
  MaxOps = 3
CHECK_DEADLOCK FALSE
INVARIANTS ConsumedOnlyWhenResolved AttemptHasOneOwner DeadLetterIsEarned
PROPERTIES ClosedAttemptsStay DeadLetterFence ImplementsAttempts
