SPECIFICATION Spec
CONSTANTS
  Calls = {c1}
  Kinds = {"override", "plain"}
  IDs = {i1}
  Values = {v1, v2}
  OwnValues = {v1}
  NoStatus = NoStatus
  NoPayload = NoPayload
  MaxChanges = 2
  MaxReceipts = 2
  MaxOthers = 1
  MaxTransit = 1
INVARIANT AckAfterDispatch
PROPERTIES RetiredNotAccepted MeansTaken
CHECK_DEADLOCK FALSE
