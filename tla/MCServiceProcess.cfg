SPECIFICATION FairSpec
CONSTANTS
  r1 = r1
  r2 = r2
  t1 = t1
  t2 = t2
  Requests = {r1, r2}
  Threads = {t1, t2}
  Owner <- MCOwner
  Skew = 2
  Lifetime = 4
  Authenticated = TRUE
  IdleLimit = 3
  WatchdogSleep = 2
  Grace = 1
INVARIANTS
  HitOutlivesSkew
PROPERTIES
  IdleProcessStops
CHECK_DEADLOCK FALSE
