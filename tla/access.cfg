CONSTANTS
  None = None
  u1 = u1
  u2 = u2
  o1 = o1
  o2 = o2
  x1 = x1
  x2 = x2
  x3 = x3
  x4 = x4
  t1 = t1
  t2 = t2
  p1 = p1
  p2 = p2
  k1 = k1
  k2 = k2
  Users = {u1, u2}
  Orgs = {o1, o2}
  Seats = {x1, x2, x3, x4}
  Teams = {t1, t2}
  Projects = {p1, p2}
  Keys = {k1, k2}
  Home = o1
  OperatorTeam = t1
  Operator = u1
  GovernedProject = p1
  GovernedKey = k2
  InviteLimit = 1
  Openings <- MCOpenings
  MaxRequests = 3
  Addresses = {a1, a2}
  Hashes = {h1}
  MaxSeeds = 3
  MaxGrants = 1
  MaxPairs = 3
  MaxTokens = 2
  Slots = {1, 2}
  Jobs <- MCJobs
  Plans <- MCPlans
  Uploaded <- MCUploaded
  Stores = {"disk", "s3"}
  Grace = 1
  Retain = 1
  MaxClock = 2
  Lists <- MCLists
  CustomTags <- MCTags
  Payloads <- MCRecipients
  MaxIssues = 2
  Editors = {1, 2}
  RowIds = {1, 2, 3, 4}
  SortKeys = {1, 2, 3}
  Limits = {1, 2, 5}
  MaxPageSize = 3
  MaxEdits = 1
SPECIFICATION AccessSpec
INVARIANTS LinksStayHome CredentialsHold UploadsHold AlertsAsConfigured PagesCoverList
CHECK_DEADLOCK FALSE
