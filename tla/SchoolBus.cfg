SPECIFICATION Spec
CONSTANTS
  Core = Core
  Debugger = Debugger
  Memory = Memory
  Vga = Vga
  ThreadTargets = {Memory}
  Uart = Uart
  Dms = Dms
  p1 = p1
  p2 = p2
  p3 = p3
  p4 = p4
  Ptrs = {p1, p2, p3}
  NULL = NULL
  Destinations <- AllMapped
  FifoSize = 2
  MaxDebug = 2
SYMMETRY PtrSymmetry
INVARIANTS
  TypeOK
  EachInOnePlace
  NeverAborts
  AnswerMatchesAccess
PROPERTY ImplementsOrderedBus
