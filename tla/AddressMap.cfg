SPECIFICATION Spec
CONSTANTS
  AddrLimit = 8
  NumTargets = 3
  NULL = NULL
INVARIANTS
  TypeOK
  MapInv
  DecodeOK
  RegionsDisjoint
  RefusalExplained
\* sc_assert ends the program at the first refused registration.
CHECK_DEADLOCK FALSE
