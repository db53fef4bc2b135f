\* Refutes what the comments in register_target promise of adjacent ranges.
SPECIFICATION Spec
CONSTANTS
  AddrLimit = 8
  NumTargets = 3
  NULL = NULL
INVARIANT RefusesOnlyOverlaps
CHECK_DEADLOCK FALSE
