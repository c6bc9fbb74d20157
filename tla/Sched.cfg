CONSTANTS
  BatchSize = 2
  Kinds <- BothKinds
  Dues = {1, 2}
  MaxImmediate = 3
  MaxDelayed = 2
  MaxTime = 2
  Quota <- Shares
  WordBits = 64
  RunQueues = {q1, q2}
  Level <- OneLevel
  TaskKinds = {"quit", "nest"}
  Posters = {p1, p2}
  FastBatch = 2
  GeneralMax = 2
  MaxPosts = 2
  MaxDue = 1
  MaxDepth = 2
  DelayQueues = {"q1", "q2"}
  DelayPosters = {"c1", "c2"}
  MaxRunTime = 3
  MaxDelayPosts = 2
  Pool = {w1, w2}
  Cap = 2
  Work = 1
  MaxNotify = 1
  MaxStarts = 3
  MaxFires = 4
  Waiters = {"a", "b"}
  Signallers = {"s", "t"}
  MaxWaits = 2
  MaxSignals = 1
  EvWaiters = {"a", "b"}
  MaxEvWaits = 2
  MaxChanges = 4
SPECIFICATION SchedSpec
SYMMETRY Interchangeable
CHECK_DEADLOCK FALSE
INVARIANTS TypesOK QueueOrder NoLostWakeups EndsAsAsked
PROPERTIES ImplementsEvent
