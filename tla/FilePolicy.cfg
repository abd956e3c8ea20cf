CONSTANTS
  Pids = {agent, other}
  Monitored = {agent}
  Registered = {agent}
  Irps = {i1, i2}
  Objects = {o1, o2}
  Keys = {k1, k2}
  Paths = {work, secret, folder}
  Protected = {secret, folder}
  InitialDirs = {folder}
  Nil = Nil
  MaxOps = 2
  MaxQueue = 4
  MaxLost = 0
  MaxDirChanges = 0
  MaxSteps = 2
SPECIFICATION Spec
PROPERTIES ImplementsPolicy
CHECK_DEADLOCK FALSE
