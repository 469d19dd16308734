SPECIFICATION Spec
CONSTANTS
  a1 = a1
  a2 = a2
  b1 = b1
  alice = alice
  bob = bob
  carol = carol
  Sessions <- TwoSessions
  UserOf <- TwoUsers
  Connected <- Both
  Habits <- Listing
  MaxCmds = 3
CHECK_DEADLOCK FALSE
INVARIANTS InfosReceived
