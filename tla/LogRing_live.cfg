CONSTANTS
  Clients = {c1, c2}
  Consumer = consumer
  Slots = 2
  MaxEvents = 2
  Shutdown = TRUE
SPECIFICATION FairSpec
CHECK_DEADLOCK FALSE
PROPERTIES EventuallyEmitted FlushReturns
