CONSTANTS
  Supervisors = {s1, s2}
  Stale = Stale
  Nil = Nil
  Observed = s1
  Faults = {"enable", "resume", "stop", "parameter", "close", "process", "thread", "crash"}
  MaxEvents = 1
SPECIFICATION Spec
INVARIANTS TypeOK ObservesUnlessRefused FinishedLeavesNothing
PROPERTIES ImplementsContract StopReleasesThread
CHECK_DEADLOCK FALSE
