---------------------------- MODULE SchoolBusMC ----------------------------
(* Instances of SchoolBus for TLC: the memory or the vga, the uart and the *)
(* debugger's slave port.                                                  *)
EXTENDS SchoolBus, TLC

CONSTANTS Memory, p1, p2, p3, p4

AllMapped == {Memory, Uart, Dms}
MethodTargets == {Uart, Dms}
WithHoles == {Vga, Uart, Dms, NULL}

\* operator new may return any free address: they are interchangeable.
PtrSymmetry == Permutations(Ptrs)
=============================================================================
