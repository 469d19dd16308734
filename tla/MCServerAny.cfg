SPECIFICATION FairSpec
CONSTANTS
  a1 = a1
  a2 = a2
  b1 = b1
  alice = alice
  bob = bob
  carol = carol
  Sessions <- TwoSessions
  UserOf <- TwoUsers
  Connected <- OnlyBob
  Habits <- Wild
  MaxCmds = 4
CHECK_DEADLOCK FALSE
INVARIANTS TypeOK TryingIsServed ServedIsTrying InfosExchanged
PROPERTIES LoginAnswered ImplementsRendezvous
