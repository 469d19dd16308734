SPECIFICATION FairSpec
CONSTANTS
  c1 = c1
  h1 = h1
  NoThread = NoThread
  Conns <- MCConns
  Hands <- MCHands
  Memory = 1
CHECK_DEADLOCK FALSE
INVARIANTS TypeOK PopsListed
 
