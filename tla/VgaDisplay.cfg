SPECIFICATION FairSpec
CONSTANTS
  NumCells = 1
  NumChars = 2
  NumColors = 2
  WordSize = 2
  FontBase = 0
  ColorBase = 4
  TextBase = 6
  AddrLimit = 10
  Default <- DefaultIdentity
  None = None
INVARIANTS
  TypeOK
  ShowsLastWrite
PROPERTY WindowConverges
\* An access to an address between the arrays ends the program.
CHECK_DEADLOCK FALSE
