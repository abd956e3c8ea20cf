CONSTANTS
  Faults = {"home", "create", "job", "port", "associate", "assign", "monitor thread", "bootstrap", "open", "trace thread", "resume", "runner", "support", "create runner", "provider", "stop", "trace", "read", "zero", "stopped"}
  MaxKids = 2
  Sessions = {"a", "b"}
  MaxTime = 2
SPECIFICATION Spec
INVARIANTS TypeOK ManagedAreTraced NoOrphans ExitIsClean ThreadsEndBeforeHandles
PROPERTIES ProgramEnds
CHECK_DEADLOCK FALSE
