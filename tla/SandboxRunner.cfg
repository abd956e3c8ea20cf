CONSTANTS
  Codes = {0, 3}
  MaxInterrupts = 3
SPECIFICATION Spec
INVARIANTS TypeOK LeakNeedsMishap NoSilentLeak ReportedCodeIsTrue NeededOnesRemain ResizeEndsFirst
PROPERTIES RunEnds
CHECK_DEADLOCK FALSE
