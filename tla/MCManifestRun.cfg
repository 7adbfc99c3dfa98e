SPECIFICATION Spec
CONSTANTS
  p1 = p1  p2 = p2  l1 = l1  l2 = l2  o1 = o1  o2 = o2
  Parties = {p1, p2}
  Lanes = {l1, l2}
  Obligations = {o1, o2}
  Manifests <- MCManifests
  Worlds <- MCWorlds
  MaxChanges = 1
  MaxDays = 1
INVARIANTS
  ReportCoversManifest
  ChasedIsOwed
  ChasedInScope
  CountedOnce
CHECK_DEADLOCK FALSE
