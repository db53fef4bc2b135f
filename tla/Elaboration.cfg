SPECIFICATION ElabSpec
CONSTANTS
  AddrLimit = 268435456
  NumTargets = 4
  NumInitiators = 2
  NULL = NULL
INVARIANTS
  EveryBindingAccepted
  DecodedAsIntended
