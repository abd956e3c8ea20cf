CONSTANTS
  Supervisors = {s1}
  Stale = Stale
  Nil = Nil
  Observed = s1
  Faults = {}
  MaxEvents = 1
SPECIFICATION Spec
INVARIANTS ProvidersBeforeRoot
CHECK_DEADLOCK FALSE
