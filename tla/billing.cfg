CONSTANTS
  s1 = s1
  s2 = s2
  s3 = s3
  License = license
  Subs = {s1, s2, s3}
  Annual = {s3}
  Free = {s2}
  Quota <- MCQuota
  Scenes <- MCScenes
  YearLength = 2
  MaxBusy = 1
  MonthLengths <- MCMonths
  YearMonths = 3
  MaxMonth = 7
  MaxAgo = 3
  RetentionDays = 60
  Schedules <- MCSchedules
  Budgets <- MCBudgets
  LivePrices <- MCLivePrices
  Loads <- MCLoads
  TestSchedule <- Graduated
SPECIFICATION BillingSpec
INVARIANTS  SpendCapHolds
PROPERTY StripeConverges
CHECK_DEADLOCK FALSE
