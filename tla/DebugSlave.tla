----------------------------- MODULE DebugSlave -----------------------------
(***************************************************************************)
(* The slave port of jtag_debugger: the part of generator_thread between   *)
(* dms_request_in_port and dms_response_out_port, with the registers of    *)
(* the debug module behind it.  The debug module samples the strobe at the *)
(* edge after the request was accepted and its rdata is valid one edge     *)
(* later, so the code carries the transaction through two registers,       *)
(* request_in_flight1 and request_in_flight2, and may accept a request at  *)
(* every edge.                                                             *)
(***************************************************************************)
EXTENDS Naturals, Sequences, Functions

CONSTANTS
  Ptrs,       \* heap addresses of transactions
  NULL,       \* the null pointer
  NumValues   \* values of the register behind the port

VARIABLES
  dms_request_fifo,    \* requests the bus delivered
  dms_response_fifo,   \* answers for target_thread to return
  request_in_flight1,  \* accepted at the last edge, strobed now
  request_in_flight2,  \* sampled by the debug module at the last edge
  dms_stb,             \* strobe to the debug module
  dms_we, dms_wdata,   \* command and data that go with it
  dms_rdata,           \* external debug module: registered read data
  device               \* external debug module: the register itself

vars == <<dms_request_fifo, dms_response_fifo, request_in_flight1, request_in_flight2,
          dms_stb, dms_we, dms_wdata, dms_rdata, device>>

Values == 0 .. NumValues - 1
Transaction == [ptr : Ptrs, command : {"read", "write"}, data : Values]

ASSUME DebugSlaveAssumption == NumValues \in Nat \ {0} /\ NULL \notin Transaction

Slot(r) == IF r = NULL THEN <<>> ELSE <<r>>

\* What is in the target, oldest first, and the pointers to it.
InTarget == (dms_response_fifo \o Slot(request_in_flight2))
              \o (Slot(request_in_flight1) \o dms_request_fifo)
Pointers == [n \in DOMAIN InTarget |-> InTarget[n].ptr]
Free == {p \in Ptrs : \A n \in DOMAIN InTarget : Pointers[n] # p}

Init ==
  /\ dms_request_fifo = <<>> /\ dms_response_fifo = <<>>
  /\ request_in_flight1 = NULL /\ request_in_flight2 = NULL
  /\ dms_stb = FALSE /\ dms_we = FALSE /\ dms_wdata = 0 /\ dms_rdata = 0
  /\ device = 0

\* dms_nb_transport_fw, called by the bus.
Deliver(r) ==
  /\ r.ptr \in Free
  /\ dms_request_fifo' = Append(dms_request_fifo, r)
  /\ UNCHANGED <<dms_response_fifo, request_in_flight1, request_in_flight2,
                 dms_stb, dms_we, dms_wdata, dms_rdata, device>>

\* jtag_wrapper::target_thread, which hands the answer to the bus.
Return ==
  /\ dms_response_fifo # <<>>
  /\ dms_response_fifo' = Tail(dms_response_fifo)
  /\ UNCHANGED <<dms_request_fifo, request_in_flight1, request_in_flight2,
                 dms_stb, dms_we, dms_wdata, dms_rdata, device>>

\* The transaction as it is answered: a read takes the data of this edge.
Completed(r) == IF r.command = "read" THEN [r EXCEPT !.data = dms_rdata] ELSE r

\* Mutated form: a single stage, which answers one edge too early.
RespondingNoPipeline == request_in_flight1
Responding == request_in_flight2

\* Mutated form: the second stage is only loaded, never emptied.
ShiftedSticks == IF request_in_flight1 # NULL THEN request_in_flight1 ELSE request_in_flight2
Shifted == request_in_flight1

\* Mutated form: the strobe stays up when there is nothing to accept.
StrobeSticks == dms_request_fifo # <<>> \/ dms_stb
Strobe == dms_request_fifo # <<>>

\* The debug module at the same edge: it executes what is strobed.
DebugModuleStep ==
  IF dms_stb
    THEN IF dms_we THEN device' = dms_wdata /\ UNCHANGED dms_rdata
                   ELSE dms_rdata' = device /\ device' = (device + 1) % NumValues
    ELSE UNCHANGED <<device, dms_rdata>>

\* generator_thread.
Clock ==
  /\ dms_response_fifo' = IF Responding = NULL THEN dms_response_fifo
                          ELSE Append(dms_response_fifo, Completed(Responding))
  /\ request_in_flight2' = Shifted
  /\ dms_stb' = Strobe
  /\ IF dms_request_fifo # <<>>
       THEN LET r == Head(dms_request_fifo) IN
              /\ request_in_flight1' = r
              /\ dms_request_fifo' = Tail(dms_request_fifo)
              /\ dms_we' = (r.command = "write")
              /\ dms_wdata' = IF r.command = "write" THEN r.data ELSE dms_wdata
       ELSE request_in_flight1' = NULL /\ UNCHANGED <<dms_request_fifo, dms_we, dms_wdata>>
  /\ DebugModuleStep

Next == (\E r \in Transaction : Deliver(r)) \/ Return \/ Clock

Spec == Init /\ [][Next]_vars

-----------------------------------------------------------------------------
(* Properties.                                                             *)

\* Type invariant of the port's registers and fifos; no transaction is in two
\* of them.
TypeOK ==
  /\ dms_request_fifo \in Seq(Transaction) /\ dms_response_fifo \in Seq(Transaction)
  /\ request_in_flight1 \in Transaction \cup {NULL}
  /\ request_in_flight2 \in Transaction \cup {NULL}
  /\ dms_stb \in BOOLEAN /\ dms_we \in BOOLEAN
  /\ dms_wdata \in Values /\ dms_rdata \in Values /\ device \in Values
  /\ IsInjective(Pointers)

\* The strobe the debug module sees is that of request_in_flight1, with its
\* command and data: nothing is executed that nobody asked for.
StrobeIsInFlight ==
  /\ dms_stb <=> request_in_flight1 # NULL
  /\ dms_stb => /\ dms_we <=> request_in_flight1.command = "write"
                /\ dms_we => dms_wdata = request_in_flight1.data

\* The port executes its requests in order, each once, and answers a read
\* with the data of its own execution: rdata is captured at the right edge
\* however closely requests follow one another.
Abstract == INSTANCE AtomicTarget WITH
  waiting <- Slot(request_in_flight1) \o dms_request_fifo,
  done <- dms_response_fifo
            \o (IF request_in_flight2 = NULL THEN <<>> ELSE <<Completed(request_in_flight2)>>)

ImplementsAtomicTarget == Abstract!Spec
=============================================================================
