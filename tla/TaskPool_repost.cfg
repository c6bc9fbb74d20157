CONSTANTS
  Workers = {w1, w2}
  Posters = {p1}
  Manager = manager
  Queues = {seq}
  Dedicated = {}
  Shards = 1
  BatchSize = 2
  None = None
  MaxTasks = 3
  MaxFences = 0
  Repost = TRUE
  Reclaim = FALSE
  ShardOf <- OneShard
SPECIFICATION Spec
SYMMETRY WorkerSymmetry
CHECK_DEADLOCK FALSE
INVARIANTS OneWorker
