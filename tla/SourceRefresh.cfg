SPECIFICATION Spec
CONSTANTS
  Callbacks = {c1}
  MaxLosses = 1
  MaxRefusals = 0
  MaxPolls = 0
  MaxUpsets = 1
  Appliers = {"poll"}
  Kinds = {}
INVARIANT RefreshRuns
CHECK_DEADLOCK FALSE
