CONSTANT Parts = {
  "tcp_client",
  "tcp_client_win",
  "tcp_server",
  "tcp_server_win",
  "udp",
  "udp_win",
  "resolver",
  "child",
  "pump",
  "pipe",
  "pipe_win",
  "file",
  "file_win",
  "file_stream",
  "lines",
  "transfer",
  "watcher",
  "watcher_win"}
SPECIFICATION Spec
CHECK_DEADLOCK FALSE
INVARIANTS TypesOK RequestsAnswered HandlesOutliveCalls ContentInOrder
