SPECIFICATION LiveSpec
CONSTANTS
  Events = {e1}
  Tests = {}
  Subs = {s1}
  Workers = {w1}
  NoItem = NoItem
  MaxSubscriptions = 1
  MaxPending = 2
  MaxDedupe = 0
  MaxTests = 1
  MaxEpochs = 2
  MaxStops = 1
  MaxAdmits = 2
  MaxRegs = 2
INVARIANTS QueueAllowed AnswersOwnRegistration SavedStateLoads
PROPERTY QueueDrains
CHECK_DEADLOCK FALSE
