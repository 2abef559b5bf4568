\* Two issues that may share a notification, two of: a regression, an alert or send
\* task that fails; or a slide of the time window.
SPECIFICATION MCSpec
CONSTANTS
  i1 = i1
  Ingesters = {w1}
  Alerters = {t1}
  Issues = {i1, i2}
  Alerts = {a1}
  Quantity = 1
  Valkey = TRUE
  MaxArrivals = 2
  MaxNotifs = 4
  MaxResolves = 1
  MaxSlides = 1
  MaxCrashes = 1
  MaxDisturbances = 2
INVARIANT ToldOncePerRegression
PROPERTY AlertsGetThrough
