CONSTANTS
  Pids = {agent, other}
  Monitored = {agent}
  Registered = {agent}
  Irps = {i1}
  Objects = {o1, o2}
  Keys = {k1, k2}
  Paths = {work, secret, folder}
  Protected = {secret, folder}
  InitialDirs = {folder}
  Nil = Nil
  MaxOps = 3
  MaxQueue = 4
  MaxLost = 1
  MaxDirChanges = 1
  MaxSteps = 3
SPECIFICATION Spec
INVARIANTS TypeOK AlertSound NoMissedAlert PendingIsOpen RecordTruthful
CHECK_DEADLOCK FALSE
SYMMETRY Symmetry
