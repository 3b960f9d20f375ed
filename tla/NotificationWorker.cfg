SPECIFICATION Spec
CONSTANTS
  Keys = {k1, k2}
  Deliveries = {d1, d2}
  Tabs = {t1, t2}
  MaxEvents = 1
  Retention = 2
  MaxAge = 1
  Skew = 0
  MaxGeneration = 2
  MaxTime = 3
SYMMETRY WorkerSymmetry
INVARIANTS ShownOnce LapsedIsStale NoShowAcrossDisable ClaimAccounted
PROPERTIES EvictsOnlyWhenFull DisableRetiresEnable
