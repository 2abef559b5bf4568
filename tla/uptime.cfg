\* One monitor, two jobs at a time, one crash, edit or lost counter.
SPECIFICATION ServeSpec
CONSTANTS
  Monitors = {1}
  Interval <- MCInterval
  Kinds = {"get", "heartbeat"}
  Thresholds = {1, 2}
  Slots = {1, 2}
  MaxQueue = 1
  Budget = 1
  Outcomes = {"ok", "refused"}
  MaxFailovers = 2
INVARIANTS NoticesMatchState NoStaleConnection
PROPERTIES StateSettles LifespanAnswered
CHECK_DEADLOCK FALSE
