CONSTANTS
  JobPids = {p1, p2}
  OtherPids = {p3}
  Root = p1
  Bases = {b1}
  MaxBirths = 3
  MaxEvents = 2
  MaxQueue = 3
SPECIFICATION Spec
INVARIANTS TypeOK JobPidsTracked StoreIsTrue RunningEntriesAreTrue
PROPERTIES EntriesArePermanent RegisteredKeepsItsEvents LongLivedIsRegistered
CHECK_DEADLOCK FALSE
