CONSTANTS
  JobPids = {p1, p2}
  OtherPids = {p2}
  Root = p1
  Bases = {b1}
  MaxBirths = 3
  MaxEvents = 2
  MaxQueue = 3
SPECIFICATION Spec
INVARIANTS RecycledIdRefused
CHECK_DEADLOCK FALSE
