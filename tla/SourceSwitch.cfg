SPECIFICATION LiveSpec
CONSTANTS
  Callbacks = {c1}
  MaxLosses = 1
  MaxRefusals = 1
  MaxPolls = 1
  MaxUpsets = 1
  Appliers = {"poll", "ack"}
  Kinds = {}
INVARIANTS GatewayRetired PushFollowsSource ReconnectLive
PROPERTIES StopReturns ResubscribeCompletes
CHECK_DEADLOCK FALSE
