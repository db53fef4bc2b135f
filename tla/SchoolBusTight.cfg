SPECIFICATION Spec
CONSTANTS
  Core = Core
  Debugger = Debugger
  Memory = Memory
  Vga = Vga
  ThreadTargets = {Vga}
  Uart = Uart
  Dms = Dms
  p1 = p1
  p2 = p2
  p3 = p3
  p4 = p4
  Ptrs = {p1, p2, p3, p4}
  NULL = NULL
  Destinations <- WithHoles
  FifoSize = 1
  MaxDebug = 3
SYMMETRY PtrSymmetry
INVARIANTS
  EachInOnePlace
  RoutedToRequester
  NeverAborts
\* An access to an unmapped address or to a hole of the vga ends the program.
CHECK_DEADLOCK FALSE
