SPECIFICATION Spec
CONSTANTS
  MaxRows = 2
  Buildings = {"x"}
  Providers = {"crawl4ai"}
  Preferred = "crawl4ai"
  Web = "crawl4ai"
  Unassigned = "unassigned"
  Workers = {"a", "b"}
  Slots = {"a1", "a2", "b1"}
  home <- TwoPools
  Unconfigured = {"b"}
  BatchSize = 2
  MaxAttempts = 2
  MaxSearches = 1
  Askers = {"api"}
  MaxAsks = 2
  MaxFaults = 1
INVARIANTS TypeOK WorkerHoldsOnce CompletedIsRecorded
