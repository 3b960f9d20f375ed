SPECIFICATION Spec
CONSTANTS
  Writers = {w1}
  Conns = {c1}
  Runner = Runner
  Nobody = Nobody
  MaxChanges = 2
  MaxMessages = 1
INVARIANT CurrentStateShown
CHECK_DEADLOCK FALSE
