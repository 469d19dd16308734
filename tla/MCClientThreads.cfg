SPECIFICATION FairSpec
CONSTANTS
  q1 = q1
  q2 = q2
  Peers <- TwoPeers
  QuitWaits <- AllOpen
  MaxTexts = 1
CONSTRAINT Overlapping
CHECK_DEADLOCK FALSE
INVARIANTS TypeOK NoModuleLeftOpen JoinsFinishedThread
PROPERTIES QuitExits
