CONSTANT Parts = {
  "pressure",
  "record",
  "sink",
  "trace",
  "flake",
  "command_object",
  "command_print",
  "command_current",
  "path",
  "url",
  "xdr",
  "shared_memory",
  "allocator",
  "callbacks",
  "slots",
  "runner",
  "checker",
  "at_exit",
  "thread"}
SPECIFICATION Spec
CHECK_DEADLOCK FALSE
INVARIANTS TypesOK WrittenIsRead OwnedOnce RunsAtHome
