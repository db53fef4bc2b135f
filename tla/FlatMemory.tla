----------------------------- MODULE FlatMemory -----------------------------
(***************************************************************************)
(* What magic_memory promises its users: one flat array of bytes.  A byte  *)
(* nobody wrote is undefined until it is first looked at; from then on a   *)
(* byte changes only when a write with its enable set, or a loaded file,   *)
(* says so.                                                                *)
(***************************************************************************)
EXTENDS Naturals

CONSTANTS
  Addr,      \* the byte addresses
  Byte,      \* the values of a byte
  WordSize,  \* bytes in a word (4 in the code)
  Undefined  \* the value of a byte never looked at

VARIABLES
  mem,       \* Addr -> Byte, or Undefined
  response   \* the last response, as a word

vars == <<mem, response>>

Lanes == 0 .. WordSize - 1
Word == [Lanes -> Byte]
Aligned == {a \in Addr : a % WordSize = 0}

Init == mem = [a \in Addr |-> Undefined] /\ response = [i \in Lanes |-> Undefined]

\* Bytes other than those of W keep their value, or become defined.
OnlyChanges(W) == \A a \in Addr \ W : mem[a] # Undefined => mem'[a] = mem[a]

Read(a) ==
  /\ OnlyChanges({})
  /\ response' = [i \in Lanes |-> mem'[a + i]]

Write(a, word, enable) ==
  /\ \A i \in enable : mem'[a + i] = word[i]
  /\ OnlyChanges({a + i : i \in enable})
  /\ response' = word

\* A part of a file is copied to the addresses from a to b.
Load(a, b) == OnlyChanges(a .. b) /\ UNCHANGED response

Next ==
  \/ \E a \in Aligned : Read(a)
  \/ \E a \in Aligned, word \in Word, enable \in SUBSET Lanes : Write(a, word, enable)
  \/ \E a, b \in Addr : Load(a, b)

Spec == Init /\ [][Next]_vars
=============================================================================
