\* Two issues, an assignment of all; the handler edits one, the task one at a time.
SPECIFICATION FairBulk
CONSTANTS
  Ops = {"assign"}
  Filters = {"all"}
  BulkEvents = {b1, b2}
  NoRow = NoRow
  Existing = 2
  Stored = {b1, b2}
  Limit = 1
  ChunkSize = 1
  EventChunk = 1
  MaxBulkIssues = 2
  MaxUserEdits = 1
PROPERTY AssignTaskEnds
CHECK_DEADLOCK FALSE
