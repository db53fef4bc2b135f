---------------------------- MODULE AtomicTarget ----------------------------
(***************************************************************************)
(* What a clocked target promises the bus: the requests it is handed are   *)
(* executed one at a time, each exactly once, in the order they came, and  *)
(* are answered in that order with what their own execution returned.      *)
(* The device behind the target is a register: a write sets it, and a read *)
(* returns it and moves it on, so that a read executed twice is seen (the  *)
(* receive fifo of a uart is such a device).                               *)
(***************************************************************************)
EXTENDS Naturals, Sequences

CONSTANTS
  Ptrs,      \* the transactions
  NumValues  \* the device holds a value in 0 .. NumValues - 1

Values == 0 .. NumValues - 1
Commands == {"read", "write"}

\* A transaction: its identity, its command, and its data, which a read's
\* execution overwrites.
Transaction == [ptr : Ptrs, command : Commands, data : Values]

VARIABLES
  device,   \* the register
  waiting,  \* transactions not yet executed, oldest first
  done      \* transactions executed and not yet returned, oldest first

vars == <<device, waiting, done>>

\* Effect on the register, and the transaction afterwards.
Effect(d, r) == IF r.command = "write" THEN r.data ELSE (d + 1) % NumValues
Executed(d, r) == IF r.command = "write" THEN r ELSE [r EXCEPT !.data = d]

Init == device = 0 /\ waiting = <<>> /\ done = <<>>

Arrive(r) == waiting' = Append(waiting, r) /\ UNCHANGED <<device, done>>

Execute ==
  /\ waiting # <<>>
  /\ device' = Effect(device, Head(waiting))
  /\ done' = Append(done, Executed(device, Head(waiting)))
  /\ waiting' = Tail(waiting)

Return == done # <<>> /\ done' = Tail(done) /\ UNCHANGED <<device, waiting>>

Next == (\E r \in Transaction : Arrive(r)) \/ Execute \/ Return

Spec == Init /\ [][Next]_vars
=============================================================================
