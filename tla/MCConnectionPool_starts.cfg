SPECIFICATION FairSpec
CONSTANTS
  Phones = {p1, p2, p3}
  MaxOpen = 3
  MaxBoots = 1
  MaxRequests = 2
  MaxEvents = 1
INVARIANTS TypeOK RoomForMessages StartupHasRoom
PROPERTIES StartupCompletes EventsAreHandled AttemptEnds
CHECK_DEADLOCK FALSE
