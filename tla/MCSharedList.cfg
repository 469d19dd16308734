CONSTANTS
  Threads = {p, q}
  Values = {a, b}
  Junk = Junk
  Growth = 2
  MaxSize = 3

SPECIFICATION Spec
CHECK_DEADLOCK FALSE

INVARIANTS TypeOK NoOverrun HoldsValues
PROPERTIES ImplementsList
