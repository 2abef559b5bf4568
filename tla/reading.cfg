\* Two workers race on two keys through a lagging replica; maintenance deletes a
\* group.  One user, two organizations, three events on three days.
SPECIFICATION ReadingSpec
CONSTANTS
  Workers = {w1, w2}
  Keys = {k1, k2}
  NumBuckets = 2
  ReadReplica = TRUE
  MaxEvents = 2
  MaxGroups = 4
  MaxBatch = 2
  MaxAged = 1
  MaxFailures = 1
  Users = {u1}
  Orgs = {1, 2}
  Projects = {"a", "b"}
  ReadIssues = {1, 2, 3}
  OrgOf <- MCOrgOf
  ProjectOf <- MCProjectOf
  MaxReadEvents = 3
  MaxDay = 3
  ScanDays = 1
INVARIANTS TransactionsCountedOnce ReadsStayHome EventsStayReadable
PROPERTY PercentilesExact
SYMMETRY StatsSymmetry
