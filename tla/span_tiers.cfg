\* Two hours, two failures of any kind (one when the spans are of two hours), both
\* schedules running.
CONSTANTS
  s1 = s1
  s2 = s2
  Promoters = {p1}
  Spans = {s1, s2}
  LastHour = 2
  BatchLimit = 2
  MaxMishaps = 2
  MaxChunks = 5
  NameOf <- MCNameOf
  OpOf <- MCOpOf
  TraceOf <- MCTraceOf
  Threshold = 1
  MishapsQueried = 1
SPECIFICATION MCSpec
INVARIANTS SpansReadOnce TrendsMatchRaw
PROPERTY Collapses
