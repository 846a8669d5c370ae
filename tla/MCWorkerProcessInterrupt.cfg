SPECIFICATION MCPastGateSpec
CONSTANTS
  Leader = leader
  Descendant = {d1, d2}
  d1 = d1
  d2 = d2
  Platforms = {"posix"}
  InterruptAt = {"grace"}
INVARIANT
  NothingLeftRunning
CHECK_DEADLOCK FALSE
