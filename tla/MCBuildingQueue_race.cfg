SPECIFICATION FairSpec
CONSTANTS
  MaxRows = 1
  Buildings = {"x"}
  Providers = {"crawl4ai"}
  Preferred = "crawl4ai"
  Web = "crawl4ai"
  Unassigned = "unassigned"
  Workers = {"a", "b"}
  Slots = {"a1", "b1"}
  home <- TwoPools
  Unconfigured = {}
  BatchSize = 2
  MaxAttempts = 2
  MaxSearches = 1
  Askers = {"api"}
  MaxAsks = 2
  MaxFaults = 1
INVARIANTS OvershootBounded
 
