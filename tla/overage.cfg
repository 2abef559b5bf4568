\* Two concurrent checks of two cycles of at most two events each, or of one
\* of three; a crash or a cap change, refused sends and sends that time out.
\* The lock expires only after its holder crashed.
SPECIFICATION MCSpec
CONSTANTS
  Workers = {w1, w2}
  Plan = 1
  Caps = {1, 2}
  LockMayExpire = FALSE
  SendMayTimeOut = TRUE
  MaxCycles = 2
  MaxUsage = 3
  MaxCapChanges = 1
  MaxCrashes = 1
  MaxDisturbances = 1
INVARIANTS OverchargeNeedsARace NothingStranded
PROPERTY ThrottleConverges
