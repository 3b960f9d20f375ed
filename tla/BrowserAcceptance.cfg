SPECIFICATION Spec
CONSTANTS
  Sockets = {s1, s2}
  NoSocket = NoSocket
  NoState = NoState
  GatewayState <- Snapshot
  MaxUpsets = 1
  MaxReveals = 0
INVARIANTS ShowsLatest LiveHasEvidence TargetsLive CommandUnderway
PROPERTY SuitePasses
CHECK_DEADLOCK FALSE
