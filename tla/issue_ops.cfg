\* Deletion: two generations of an issue, two events in two workers, an API
\* deletion and maintenance, three of: a comment, an unmerge, an issue that ages,
\* a request, a filter whose result changes, a task that dies (which counts twice).  Bulk edit: three issues and
\* one created meanwhile; the handler edits two, the task one at a time.
SPECIFICATION OpsSpec
CONSTANTS
  Workers = {w1, w2}
  Deleters = {d1}
  Events = {e1, e2}
  Hashes = {h1}
  None = None
  MaxIssues = 2
  MaxRequests = 1
  MaxComments = 1
  MaxUnmerges = 1
  MaxAges = 1
  MaxChanges = 1
  MaxCrashes = 1
  MaxDisturbances = 3
  Ops = {"status", "assign", "merge"}
  Filters = {"all", "unresolved"}
  BulkEvents = {b1, b2, b3, b4}
  NoRow = NoRow
  Existing = 3
  Stored = {b1, b2, b3}
  Limit = 2
  ChunkSize = 1
  EventChunk = 1
  MaxBulkIssues = 4
  MaxUserEdits = 1
INVARIANTS DeletionsLeaveNoDebris EditsTheFrozenSet
PROPERTIES DeletionCompletes StatusTaskEnds
CHECK_DEADLOCK FALSE
