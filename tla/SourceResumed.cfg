SPECIFICATION Spec
CONSTANTS
  Callbacks = {c1}
  MaxRefusals = 0
  MaxLosses = 0
  MaxPolls = 1
  MaxUpsets = 1
  Appliers = {"poll"}
  Kinds = {"device"}
INVARIANT MQTTResumed
CHECK_DEADLOCK FALSE
