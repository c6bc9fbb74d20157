CONSTANTS
  Clients = {c1, c2}
  Editors = {c1}
  MaxConfigs = 2
  MaxSinks = 2
  MaxEvents = 1
  MaxEdits = 1
  MaxSnapshot = 4
SPECIFICATION FairSpec
CHECK_DEADLOCK FALSE
INVARIANTS TypeOK NoUseAfterRelease ReleasedOnce CacheCoherent
PROPERTIES CallsReturn
