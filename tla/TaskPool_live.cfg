CONSTANTS
  Workers = {w1, w2}
  Posters = {p1}
  Manager = manager
  Queues = {seq, ded}
  Dedicated = {ded}
  Shards = 2
  BatchSize = 2
  None = None
  MaxTasks = 2
  MaxFences = 0
  Repost = TRUE
  Reclaim = FALSE
  ShardOf <- TwoShards
SPECIFICATION FairSpec
CHECK_DEADLOCK FALSE
PROPERTIES TasksStart
