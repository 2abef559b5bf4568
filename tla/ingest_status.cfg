\* One issue, resolved in releases, reopened and bulk-edited while two workers
\* ingest its events; two ingest batches, two API requests and the cleanup on
\* the releases of three projects.
SPECIFICATION StatusSpec
CONSTANTS
  Workers = {w1, w2}
  Clients = {c1}
  Hashes = {h1}
  Releases = {r1, r2}
  NoRelease = NoRelease
  LegacyHashes = {}
  ReadReplica = FALSE
  MaxEvents = 2
  MaxIssues = 2
  MaxBatch = 2
  MaxStatusCalls = 2
  MaxFailures = 0
  NULL = NULL
  o1 = o1
  o2 = o2
  p1 = p1
  p2 = p2
  p3 = p3
  SDKProjects = {p1, p2, p3}
  OrgOf <- MCOrgOf
  Versions = {"v"}
  EnvNames = {"prod"}
  ReleaseKeys = {1, 2}
  Bundles = {f1}
  Requests = {1, 2}
  Scenarios <- MCScenarios
INVARIANTS StatusKeepsUp ReleasesHold
PROPERTY ArrivingEventsStored
