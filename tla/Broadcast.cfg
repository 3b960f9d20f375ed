SPECIFICATION LiveSpec
CONSTANTS
  Writers = {w1, w2}
  Conns = {c1}
  Runner = Runner
  Nobody = Nobody
  MaxChanges = 2
  MaxMessages = 2
INVARIANTS NoLostChange OneWriter NoGhostClient
PROPERTIES ChangesReachClients RequestsFinish
CHECK_DEADLOCK FALSE
