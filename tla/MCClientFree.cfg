SPECIFICATION Spec
CONSTANTS
  q1 = q1
  q2 = q2
  Peers <- OnePeer
  QuitWaits <- AllOpen
  MaxTexts = 0
CHECK_DEADLOCK FALSE
INVARIANTS ManagerOutlivesThreads
