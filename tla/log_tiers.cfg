SPECIFICATION ArchiveSpec
CONSTANTS
  Projects = {p1, p2}
  OrgOf <- MCOrgOf
  PaidOrgs = {1}
  HotDays = 1
  ColdDays = 2
  Drift = 1
  BatchTime = 0
  LeadDays = 2
  Backends = {"s3", "disk", "none"}
  MaxLogs = 2
  MaxNow = 5
  MaxCrashes <- MCMaxCrashes
  MaxDeletions = 1
SYMMETRY ProjectSymmetry
INVARIANTS LogsKeptAsPromised LogReadsComplete
CHECK_DEADLOCK FALSE
