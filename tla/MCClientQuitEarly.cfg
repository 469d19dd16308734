SPECIFICATION FairSpec
CONSTANTS
  q1 = q1
  q2 = q2
  Peers <- NoPeer
  QuitWaits <- MainOpened
  MaxTexts = 0
CHECK_DEADLOCK FALSE
PROPERTIES QuitExits
