----------------------------- MODULE UartTarget -----------------------------
(***************************************************************************)
(* The uart: target_thread (an SC_METHOD at the rising edge) between the   *)
(* wrapper's request_fifo and response_fifo, with the wishbone slave       *)
(* wbuart behind it.  One transaction is on the wishbone at a time; it is  *)
(* strobed for one edge and answered when wbuart acknowledges it, which    *)
(* may take any number of edges.                                           *)
(***************************************************************************)
EXTENDS Naturals, Sequences, Functions

CONSTANTS
  Ptrs,       \* heap addresses of transactions
  NULL,       \* the null pointer
  NumValues   \* values of the register behind the wishbone

VARIABLES
  request_fifo,     \* requests the bus delivered
  response_fifo,    \* answers for the wrapper's thread to return
  transaction_ptr,  \* the transaction on the wishbone, or NULL
  wb_stb,           \* wishbone strobe
  wb_we, wb_wdata,  \* command and data that go with it
  wb_ack, wb_rdata, \* external wbuart: acknowledgement and read data
  wb_busy,          \* external wbuart: a strobe was taken, its ack is due
  wb_result,        \* external wbuart: what the read it works on returned
  device            \* external wbuart: the register itself

vars == <<request_fifo, response_fifo, transaction_ptr, wb_stb, wb_we, wb_wdata,
          wb_ack, wb_rdata, wb_busy, wb_result, device>>

Values == 0 .. NumValues - 1
Transaction == [ptr : Ptrs, command : {"read", "write"}, data : Values]

ASSUME UartTargetAssumption == NumValues \in Nat \ {0} /\ NULL \notin Transaction

Slot(r) == IF r = NULL THEN <<>> ELSE <<r>>

\* What is in the target, oldest first, and the pointers to it.
InTarget == response_fifo \o Slot(transaction_ptr) \o request_fifo
Pointers == [n \in DOMAIN InTarget |-> InTarget[n].ptr]
Free == {p \in Ptrs : \A n \in DOMAIN InTarget : Pointers[n] # p}

Init ==
  /\ request_fifo = <<>> /\ response_fifo = <<>> /\ transaction_ptr = NULL
  /\ wb_stb = FALSE /\ wb_we = FALSE /\ wb_wdata = 0
  /\ wb_ack = FALSE /\ wb_rdata = 0 /\ wb_busy = FALSE
  /\ wb_result = 0 /\ device = 0

\* uart_wrapper::nb_transport_fw, called by the bus.
Deliver(r) ==
  /\ r.ptr \in Free
  /\ request_fifo' = Append(request_fifo, r)
  /\ UNCHANGED <<response_fifo, transaction_ptr, wb_stb, wb_we, wb_wdata,
                 wb_ack, wb_rdata, wb_busy, wb_result, device>>

\* uart_wrapper::target_thread, which hands the answer to the bus.
Return ==
  /\ response_fifo # <<>>
  /\ response_fifo' = Tail(response_fifo)
  /\ UNCHANGED <<request_fifo, transaction_ptr, wb_stb, wb_we, wb_wdata,
                 wb_ack, wb_rdata, wb_busy, wb_result, device>>

\* wbuart executes what is strobed when it samples the strobe, and
\* acknowledges it once, at that edge or at a later one.  Its data output
\* means something only together with the acknowledgement.
WbuartStep(ack) ==
  /\ ack => wb_stb \/ wb_busy
  /\ wb_ack' = ack
  /\ wb_busy' = ((wb_stb \/ wb_busy) /\ ~ack)
  /\ IF wb_stb
       THEN IF wb_we THEN device' = wb_wdata /\ UNCHANGED wb_result
                     ELSE wb_result' = device /\ device' = (device + 1) % NumValues
       ELSE UNCHANGED <<device, wb_result>>
  /\ wb_rdata' \in IF ack THEN {wb_result'} ELSE Values

Completed(r) == IF r.command = "read" THEN [r EXCEPT !.data = wb_rdata] ELSE r

\* Mutated form: answered at the edge after the strobe, acknowledged or not.
AnsweredEarly == transaction_ptr # NULL /\ ~wb_stb
Answered == transaction_ptr # NULL /\ wb_ack

\* Mutated form: the next request is accepted while one is on the wishbone.
AcceptsOverlapping == request_fifo # <<>>
Accepts == (transaction_ptr = NULL \/ Answered) /\ request_fifo # <<>>

\* Mutated form: the strobe stays up until the acknowledgement.
StrobeUntilAck == Accepts \/ (transaction_ptr # NULL /\ ~wb_ack)
Strobe == Accepts

\* Mutated form: the answered transaction is not forgotten.
NeverReleased == transaction_ptr
Released == IF Answered THEN NULL ELSE transaction_ptr

\* target_thread: answer what was acknowledged, then accept the next.
Clock(ack) ==
  /\ response_fifo' = IF Answered THEN Append(response_fifo, Completed(transaction_ptr))
                                  ELSE response_fifo
  /\ wb_stb' = Strobe
  /\ IF Accepts
       THEN LET r == Head(request_fifo) IN
              /\ transaction_ptr' = r
              /\ request_fifo' = Tail(request_fifo)
              /\ wb_we' = (r.command = "write")
              /\ wb_wdata' = IF r.command = "write" THEN r.data ELSE wb_wdata
       ELSE /\ transaction_ptr' = Released
            /\ UNCHANGED <<request_fifo, wb_we, wb_wdata>>
  /\ WbuartStep(ack)

Next == (\E r \in Transaction : Deliver(r)) \/ Return \/ (\E ack \in BOOLEAN : Clock(ack))

Spec == Init /\ [][Next]_vars

\* The clock keeps running, and wbuart acknowledges in the end.
FairSpec == Spec /\ WF_vars(\E ack \in BOOLEAN : Clock(ack)) /\ SF_vars(Clock(TRUE))

-----------------------------------------------------------------------------
(* Properties.                                                             *)

\* Type invariant of the uart's registers and fifos; no transaction is in two
\* of them.
TypeOK ==
  /\ request_fifo \in Seq(Transaction) /\ response_fifo \in Seq(Transaction)
  /\ transaction_ptr \in Transaction \cup {NULL}
  /\ wb_stb \in BOOLEAN /\ wb_we \in BOOLEAN /\ wb_ack \in BOOLEAN /\ wb_busy \in BOOLEAN
  /\ wb_wdata \in Values /\ wb_rdata \in Values /\ wb_result \in Values /\ device \in Values
  /\ IsInjective(Pointers)

\* The transaction on the wishbone is in exactly one phase: strobed, waiting
\* for its acknowledgement, or acknowledged.  An acknowledgement can then
\* never be taken for that of another transaction, and none is left behind.
OnePhase ==
  /\ transaction_ptr # NULL <=> wb_stb \/ wb_busy \/ wb_ack
  /\ ~(wb_stb /\ wb_busy) /\ ~(wb_stb /\ wb_ack) /\ ~(wb_busy /\ wb_ack)
  /\ wb_stb => /\ wb_we <=> transaction_ptr.command = "write"
               /\ wb_we => wb_wdata = transaction_ptr.data
  /\ wb_ack => wb_rdata = wb_result

\* The transaction on the wishbone as it will be answered.
Finished(r) == IF r.command = "read" THEN [r EXCEPT !.data = wb_result] ELSE r

\* The uart executes its requests in order, each exactly once (a read of the
\* receive fifo takes one character), and answers each with its own data.
Abstract == INSTANCE AtomicTarget WITH
  waiting <- (IF wb_stb THEN Slot(transaction_ptr) ELSE <<>>) \o request_fifo,
  done <- response_fifo
            \o (IF transaction_ptr = NULL \/ wb_stb THEN <<>> ELSE <<Finished(transaction_ptr)>>)

ImplementsAtomicTarget == Abstract!Spec

\* A request that reached the uart is answered: an acknowledgement is neither
\* missed nor taken by another transaction.
EveryRequestAnswered ==
  \A p \in Ptrs : (\E n \in DOMAIN request_fifo : request_fifo[n].ptr = p)
                    ~> (\E n \in DOMAIN response_fifo : response_fifo[n].ptr = p)
=============================================================================
