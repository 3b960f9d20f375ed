SPECIFICATION Spec
CONSTANTS
  Events = {e1}
  Tests = {t1}
  Subs = {s1}
  Workers = {w1, w2}
  NoItem = NoItem
  MaxSubscriptions = 1
  MaxPending = 2
  MaxDedupe = 1
  MaxTests = 1
  MaxEpochs = 1
  MaxStops = 1
  MaxAdmits = 2
  MaxRegs = 1
SYMMETRY WorkerSymmetry
INVARIANTS RetiredCancelled AdmittedOnce SendBound
CHECK_DEADLOCK FALSE
