------------------------------ MODULE Testuart ------------------------------
(***************************************************************************)
(* The program testuart.c.  _start allows interrupts and then writes a     *)
(* greeting to the uart; handler, entered whenever the uart has received a *)
(* character, shows it on the screen and sends its successor back.  The    *)
(* handler may come between any two stores of _start, and its index into   *)
(* the text is never reset.                                                *)
(***************************************************************************)
EXTENDS Selection

CONSTANTS
  GreetingLength,  \* 6 in the code
  TextCells,       \* text_rows * text_cols
  TypedBytes,      \* the characters that may arrive
  MaxTyped         \* bound of the model: how many arrive

ASSUME TestuartAssumption ==
  /\ GreetingLength \in 0 .. 255 /\ TextCells \in Nat \ {0} /\ MaxTyped \in Nat
  /\ TypedBytes \subseteq 0 .. 255

VARIABLES
  greeted,      \* stores of _start made so far
  typed,        \* history: all characters that arrived
  uart_in,      \* external: those in the uart's receive fifo
  uart_out,     \* external: what was sent, with its origin
  handling,     \* where handler is: "no", "text", "attribute", "echo"
  in_byte,      \* its character
  index,        \* its static i
  text,         \* characters of the text, the cells not written are missing
  aborted       \* a store left the arrays of the vga: vga_tlm ends the program

uartVars == <<greeted, typed, uart_in, uart_out, handling, in_byte, index, text, aborted>>

UartInit ==
  /\ greeted = 0 /\ typed = <<>> /\ uart_in = <<>> /\ uart_out = <<>>
  /\ handling = "no" /\ in_byte = 0 /\ index = 0 /\ text = <<>> /\ aborted = FALSE

\* A character arrives on the serial line.
Type ==
  /\ Len(typed) < MaxTyped /\ ~aborted
  /\ \E c \in TypedBytes : typed' = Append(typed, c) /\ uart_in' = Append(uart_in, c)
  /\ UNCHANGED <<greeted, uart_out, handling, in_byte, index, text, aborted>>

\* The next store of _start; the processor runs it when no handler runs.
Greet ==
  /\ greeted < GreetingLength /\ handling = "no" /\ ~aborted
  /\ greeted' = greeted + 1
  /\ uart_out' = Append(uart_out, [from |-> "_start", byte |-> greeted'])
  /\ UNCHANGED <<typed, uart_in, handling, in_byte, index, text, aborted>>

\* The interrupt; the load takes the character out of the receive fifo.
EnterHandler ==
  /\ uart_in # <<>> /\ handling = "no" /\ ~aborted
  /\ handling' = "text"
  /\ in_byte' = Head(uart_in) /\ uart_in' = Tail(uart_in)
  /\ UNCHANGED <<greeted, typed, uart_out, index, text, aborted>>

\* text_array[0][2 * i], which runs on into the other rows of the text.
StoreCharacter ==
  /\ handling = "text" /\ ~aborted
  /\ IF index < TextCells
       THEN text' = Append(text, in_byte) /\ handling' = "attribute" /\ UNCHANGED aborted
       ELSE aborted' = TRUE /\ UNCHANGED <<text, handling>>
  /\ UNCHANGED <<greeted, typed, uart_in, uart_out, in_byte, index>>

StoreAttribute ==
  /\ handling = "attribute"
  /\ handling' = "echo"
  /\ UNCHANGED <<greeted, typed, uart_in, uart_out, in_byte, index, text, aborted>>

\* Mutated form: the character is read again for the echo.
EchoReadAgain == IF uart_in # <<>> THEN Head(uart_in) + 1 ELSE in_byte + 1
\* in_byte + 1, stored as a byte.
Successor == (in_byte + 1) % 256

NextIndex == index + 1

Echo ==
  /\ handling = "echo"
  /\ uart_out' = Append(uart_out, [from |-> "handler", byte |-> Successor])
  /\ index' = NextIndex
  /\ handling' = "no"
  /\ UNCHANGED <<greeted, typed, uart_in, in_byte, text, aborted>>

UartNext == Type \/ Greet \/ EnterHandler \/ StoreCharacter \/ StoreAttribute \/ Echo

UartSpec == UartInit /\ [][UartNext]_uartVars

-----------------------------------------------------------------------------
(* Properties.                                                             *)

\* Type invariant of the handler and of what is on the two devices; the receive
\* fifo holds no more than was typed, and the text no more than its cells.
UartTypeOK ==
  /\ Len(uart_in) <= Len(typed) /\ Len(text) <= TextCells
  /\ greeted \in 0 .. GreetingLength
  /\ typed \in Seq(TypedBytes) /\ uart_in \in Seq(TypedBytes) /\ text \in Seq(TypedBytes)
  /\ uart_out \in Seq([from : {"_start", "handler"}, byte : 0 .. 255])
  /\ handling \in {"no", "text", "attribute", "echo"}
  /\ in_byte \in 0 .. 255 /\ index \in 0 .. TextCells /\ aborted \in BOOLEAN

SentBy(who) == Only(uart_out, [from : {who}, byte : Nat])

\* Wherever the handler interrupts _start, the greeting goes out in order and
\* complete, and every character typed is answered once, in order, by its
\* successor, and shown in a cell of its own.  Only a character for which no
\* cell is left makes the handler store behind the text, which ends the program.
OutputsAreMerged ==
  /\ SentBy("_start") = [n \in 1 .. greeted |-> [from |-> "_start", byte |-> n]]
  /\ SentBy("handler")
       = [n \in 1 .. Len(SentBy("handler")) |-> [from |-> "handler", byte |-> (typed[n] + 1) % 256]]
  /\ handling = "no" => Len(typed) = Len(SentBy("handler")) + Len(uart_in)
  /\ text = SubSeq(typed, 1, Len(text))
  /\ aborted => Len(typed) > TextCells
=============================================================================
