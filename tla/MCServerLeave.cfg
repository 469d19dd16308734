SPECIFICATION FairSpec
CONSTANTS
  a1 = a1
  a2 = a2
  b1 = b1
  alice = alice
  bob = bob
  carol = carol
  Sessions <- ThreeSessions
  UserOf <- OwnUser
  Connected <- Three
  Habits <- Leaving
  MaxCmds = 4
CHECK_DEADLOCK FALSE
INVARIANTS InfosExchanged ServedIsTrying
PROPERTIES HandshakeEnds ImplementsRendezvous
