\* Filing: three events over three hashes, one of them of an issue older than the
\* leaf table; two workers, a lagging replica, one task that dies.  Door: two
\* requests, two keys, one event id.
SPECIFICATION PathSpec
CONSTANTS
  Workers = {w1, w2}
  Clients = {}
  Hashes = {h1, h2, h3}
  Releases = {}
  NoRelease = NoRelease
  LegacyHashes = {h1}
  ReadReplica = TRUE
  MaxEvents = 3
  MaxIssues = 4
  MaxBatch = 2
  MaxStatusCalls = 0
  MaxFailures = 1
  Requests = {q1, q2}
  DsnKeys = {1, 2}
  SdkIds = {1}
  Bodies <- MCBodies
  RejectionWait = 1
  DedupeWait = 1
  MaxTicks = 2
  MaxChanges = 1
  KeyTokens <- MCTokens
  Inside <- MCInside
  KEY_TOKENS = {"auth", "token"}
  WHOLE_KEYS = {"apikey"}
  Norm <- MCNorm
  MaxScrubDepth = 2
  ScrubConfigs <- MCConfigs
  NoConfig = NoConfig
  EventPayloads <- MCPayloads
INVARIANTS
  EventsFiledByHash
  ShortIdsDistinct
  CountsHold
  QueuedExactlyOnce
  GoodKeyGetsIn
  SecretsNeverQueued
PROPERTY ImplementsFiling
SYMMETRY IngestSymmetry
