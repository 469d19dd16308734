CONSTANTS
  Clients = {a, b}
  MaxStarts = 2
  MaxCloses = 2
  MaxTexts = 1

SPECIFICATION FairSpec
CHECK_DEADLOCK FALSE

INVARIANTS TypeOK ChatsSeparate OrderlyRelease ChatEndsForAReason
PROPERTIES CloseEnds EndIsShared TextsArrive
