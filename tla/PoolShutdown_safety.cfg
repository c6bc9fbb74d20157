CONSTANTS
  Workers = {w1, w2}
  SharedThread = shared
  Queues = {seq, sh}
  SharedQueues = {sh}
  Kinds = {"block", "skip"}
  BatchSize = 2
  None = None
  MaxTasks = 2
SPECIFICATION FairSpec
CHECK_DEADLOCK FALSE
INVARIANTS TypeOK OneConsumerUnlessReposted QuietAfter
PROPERTIES ReturnsUnlessUndercounted
