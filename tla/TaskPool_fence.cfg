CONSTANTS
  Workers = {w1, w2}
  Posters = {p1}
  Manager = manager
  Queues = {seq, ded}
  Dedicated = {ded}
  Shards = 1
  BatchSize = 1
  None = None
  MaxTasks = 2
  MaxFences = 2
  Repost = TRUE
  Reclaim = TRUE
  ShardOf <- OneShard
SPECIFICATION Spec
SYMMETRY WorkerSymmetry
CHECK_DEADLOCK FALSE
INVARIANTS FenceWakes
