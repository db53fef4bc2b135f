SPECIFICATION FairSpec
CONSTANTS
  Ptrs = {p1, p2, p3}
  NULL = NULL
  NumValues = 2
INVARIANTS
  TypeOK
  OnePhase
PROPERTIES
  ImplementsAtomicTarget
  EveryRequestAnswered
