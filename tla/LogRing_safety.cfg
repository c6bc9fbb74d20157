CONSTANTS
  Clients = {c1, c2}
  Consumer = consumer
  Slots = 2
  MaxEvents = 4
  Shutdown = TRUE
SPECIFICATION Spec
CHECK_DEADLOCK FALSE
INVARIANTS TypeOK InOrderUnlessLapped PrefixUnlessOvertaken NoLostWakeup
PROPERTIES ExitDrainsPrefix
