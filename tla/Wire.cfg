CONSTANT Parts = {
  "channel",
  "rpc",
  "client",
  "session",
  "tls",
  "server",
  "engine",
  "websocket",
  "redirects",
  "routes",
  "pool"}
SPECIFICATION Spec
CHECK_DEADLOCK FALSE
INVARIANTS TypesOK CallsAnsweredOnce StreamsFlow  ReachesItsOwn
