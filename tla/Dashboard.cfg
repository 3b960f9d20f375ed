SPECIFICATION Spec
CONSTANTS
  Sockets = {s1, s2}
  NoSocket = NoSocket
  Clicks = {c1}
  Fields = {"always", "optional"}
  Contents <- TwoFrames
  MaxPoints = 2
  MaxInbox = 2
  MaxStrays = 1
  MaxUpsets = 3
INVARIANTS LiveTruthful UpdatingBounded
PROPERTIES DisplayAdvances Reconnects CutNoticed
