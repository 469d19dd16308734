SPECIFICATION FairSpec
CONSTANTS
  s1 = s1
  s2 = s2
  p1 = p1
  p2 = p2
  p3 = p3
  NoOne = NoOne
  Owner = owner
  Senders <- MCSenders
  Packets <- MCPackets
  ReadModes <- AnyMode
  MaxSets = 4
CHECK_DEADLOCK FALSE
INVARIANTS TypeOK AlertAccounting ClosedIsEmpty NoLostWakeup RetryOnlyIfMixed
PROPERTIES PacketsLeave ImplementsMailbox
