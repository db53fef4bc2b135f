------------------------------ MODULE Examples ------------------------------
(***************************************************************************)
(* The programs of examples/.  sim.sh compiles the one it is given and     *)
(* main.cpp loads it into memory, so one of them runs; the arithmetic      *)
(* routines of testcode.c are run on their own, with any operands.         *)
(***************************************************************************)
EXTENDS SoftArith, Testcode, Testvga, Testuart

VARIABLE program  \* the binary in memory

vars == <<program, arithVars, codeVars, vgaVars, uartVars>>

Init ==
  /\ program \in {"arithmetic", "testcode", "testvga", "testuart"}
  /\ ArithInit /\ CodeInit /\ VgaInit /\ UartInit

Next ==
  \/ program = "arithmetic" /\ ArithNext /\ UNCHANGED <<program, codeVars, vgaVars, uartVars>>
  \/ program = "testcode" /\ CodeNext /\ UNCHANGED <<program, arithVars, vgaVars, uartVars>>
  \/ program = "testvga" /\ VgaNext /\ UNCHANGED <<program, arithVars, codeVars, uartVars>>
  \/ program = "testuart" /\ UartNext /\ UNCHANGED <<program, arithVars, codeVars, vgaVars>>

Spec == Init /\ [][Next]_vars

-----------------------------------------------------------------------------
(* Properties.                                                             *)

\* Type invariant of the programs.
TypeOK == ArithTypeOK /\ CodeTypeOK /\ VgaTypeOK /\ UartTypeOK
=============================================================================
