----------------------------- MODULE SchoolBus -----------------------------
(***************************************************************************)
(* How a transaction travels through the system: from the initiator that   *)
(* allocates it (rv_core, jtag_debugger), through its generic_initiator    *)
(* and the magic_school_bus to a target (magic_memory, vga, uart, the      *)
(* debugger's slave port), and back to the initiator that frees it.        *)
(*                                                                         *)
(* The processes are those of the SystemC program.  The SC_METHODs of the  *)
(* core, the debugger and the uart run once per rising clock edge, in any  *)
(* order; the SC_THREADs run whenever what they wait for is there; time    *)
(* passes only when no thread can run.  A transaction is a pointer: its    *)
(* address may be reused as soon as it is deleted.  An address is          *)
(* abstracted to the target it decodes to (see AddressMap).                *)
(***************************************************************************)
EXTENDS Naturals, Sequences, FiniteSets, SequencesExt, Selection

CONSTANTS
  Core, Debugger,  \* the initiators
  ThreadTargets,   \* the targets served by an SC_THREAD: magic_memory, vga
  Vga,             \* the one of them, if any, with holes in its region
  Uart,            \* the target served by an SC_METHOD behind a wishbone
  Dms,             \* the debugger's slave port
  Ptrs,            \* the addresses operator new may return
  NULL,            \* the null pointer; also the target of an unmapped address
  Destinations,    \* the targets, and NULL, that the accesses are made to
  FifoSize,        \* capacity of an sc_fifo (16 in the code)
  MaxDebug         \* bound on the debugger's transactions in flight

Initiators == {Core, Debugger}
Targets == ThreadTargets \cup {Uart, Dms}

\* What a transaction carries; and what a thread that waits for a full fifo has
\* in hand: a transaction, and where it is going.
Payload == [owner : Initiators, target : Destinations, access : {0, 1}]
Job == [ptr : Ptrs, to : Initiators \cup Targets \cup {NULL}]

ASSUME SchoolBusAssumption ==
  /\ Core # Debugger /\ Uart # Dms /\ Uart \notin ThreadTargets /\ Dms \notin ThreadTargets
  /\ Initiators \cap Targets = {} /\ "idle" \notin Targets \cup {NULL}
  /\ NULL \notin Ptrs \cup Targets \cup Initiators \cup Payload \cup Job
  /\ Destinations \subseteq Targets \cup {NULL}
  /\ FifoSize \in Nat \ {0}
  /\ MaxDebug \in Nat

VARIABLES
  rst_ni,              \* the reset line, active low
  todo,                \* the SC_METHODs still to run at this clock edge
  halted,              \* "no", or what ended the program
  txn,                 \* the heap: Ptrs -> the payload allocated there, or NULL
  requester_map,       \* requester_map: Ptrs -> the requesting initiator, or NULL
  request_fifo,        \* request_fifo of every initiator and target wrapper
  response_fifo,       \* response_fifo of every initiator and target wrapper
  initiator_thread,    \* transaction a generic_initiator is delivering, or NULL
  target_thread,       \* transaction a wrapper's target_thread returns, or NULL
  serving,             \* transaction_ptr of a target (request_in_flight1 of Dms)
  request_in_flight2,  \* second stage of the debugger's slave port
  core_bus,            \* external Vcore: the target it accesses, or "idle"
  core_access,         \* external Vcore: parity of the number of its accesses
  resp, rdata,         \* answer to Vcore: strobe, and the access it belongs to
  request_in_flight,   \* request_in_flight of rv_core
  dmm_bus,             \* external debug module: the target strobed, or "idle"
  wb_stb,              \* the uart's wishbone strobe
  wb_busy, wb_ack      \* external wbuart: strobed and not acknowledged; ack

coreVars == <<core_bus, core_access, resp, rdata, request_in_flight>>
wbVars == <<wb_stb, wb_busy, wb_ack>>
fifoVars == <<request_fifo, response_fifo>>
vars == <<rst_ni, todo, halted, txn, requester_map, fifoVars, initiator_thread,
          target_thread, serving, request_in_flight2, coreVars, dmm_bus, wbVars>>

Free == {p \in Ptrs : txn[p] = NULL}
Full(fifo) == Len(fifo) >= FifoSize

\* The target a transaction's address decodes to, NULL if it has none.
TargetOf(p) == IF txn[p] = NULL THEN NULL ELSE txn[p].target

\* A register that holds a pointer or NULL, as a sequence; and the converse.
\* Mutated form: the pointer is passed on without the test for NULL.
SlotUnchecked(p) == <<p>>
Slot(p) == IF p = NULL THEN <<>> ELSE <<p>>
First(fifo) == IF fifo = <<>> THEN NULL ELSE Head(fifo)
Rest(fifo) == IF fifo = <<>> THEN <<>> ELSE Tail(fifo)

-----------------------------------------------------------------------------
(* The scheduler: which threads can run, and when time passes.             *)

CanFetch(i) == initiator_thread[i] = NULL /\ request_fifo[i] # <<>>
CanDeliver(i) ==
  initiator_thread[i] # NULL /\ ~Full(request_fifo[initiator_thread[i].to])

CanServe(t) == serving[t] = NULL /\ request_fifo[t] # <<>>
CanAnswer(t) == serving[t] # NULL /\ ~Full(response_fifo[t])

CanTake(t) == target_thread[t] = NULL /\ response_fifo[t] # <<>>
CanReturn(t) ==
  target_thread[t] # NULL /\ ~Full(response_fifo[target_thread[t].to])

\* No SC_THREAD is runnable and every SC_METHOD of this edge has run.
Quiescent ==
  /\ todo = {}
  /\ \A i \in Initiators : ~CanFetch(i) /\ ~CanDeliver(i)
  /\ \A t \in ThreadTargets : ~CanServe(t) /\ ~CanAnswer(t)
  /\ \A t \in Targets : ~CanTake(t) /\ ~CanReturn(t)

Running == halted = "no"

\* sc_main releases the reset once, between two clock edges.
ReleaseReset ==
  /\ Running /\ Quiescent /\ ~rst_ni
  /\ rst_ni' = TRUE
  /\ UNCHANGED <<todo, halted, txn, requester_map, fifoVars, initiator_thread,
                 target_thread, serving, request_in_flight2, coreVars, dmm_bus, wbVars>>

\* The next rising edge: the three clocked methods become runnable.  In reset
\* they do nothing.
Posedge ==
  /\ Running /\ Quiescent /\ rst_ni
  /\ todo' = {Core, Debugger, Uart}
  /\ UNCHANGED <<rst_ni, halted, txn, requester_map, fifoVars, initiator_thread,
                 target_thread, serving, request_in_flight2, coreVars, dmm_bus, wbVars>>

\* A method that writes to a full fifo cannot wait: SystemC ends the program.
EndIf(blocked) == halted' = IF blocked THEN "method_blocked" ELSE halted

-----------------------------------------------------------------------------
(* rv_core::generator_thread, together with what Vcore does at the edge;   *)
(* both read the signals as they were before it.                           *)

\* Vcore holds an access until it sees resp, then ends it or starts another.
VcoreStep ==
  IF core_bus # "idle" /\ ~resp
    THEN UNCHANGED <<core_bus, core_access>>
    ELSE \/ core_bus' = "idle" /\ UNCHANGED core_access
         \/ core_bus' \in Destinations /\ core_access' = 1 - core_access

\* Mutated form: without resp == 0, the access just answered is issued again.
CoreIssuesIgnoringResp == core_bus # "idle" /\ request_in_flight = NULL
CoreIssues == core_bus # "idle" /\ ~resp /\ request_in_flight = NULL

CoreIssue(p) ==
  /\ CoreIssues /\ response_fifo[Core] = <<>>
  /\ p \in Free
  /\ txn' = [txn EXCEPT ![p] = [owner |-> Core, target |-> core_bus, access |-> core_access]]
  /\ request_in_flight' = p
  /\ request_fifo' = [request_fifo EXCEPT ![Core] = Append(@, p)]
  /\ EndIf(Full(request_fifo[Core]))
  /\ resp' = FALSE
  /\ UNCHANGED <<response_fifo, rdata>>

\* The answer must be to the one request in flight, or sc_assert ends the
\* program.
CoreReceive ==
  /\ response_fifo[Core] # <<>>
  /\ LET p == Head(response_fifo[Core]) IN
       /\ halted' = IF ~CoreIssues /\ request_in_flight = p
                      THEN halted ELSE "out_of_order"
       /\ resp' = TRUE
       /\ rdata' = IF txn[p] = NULL THEN rdata ELSE txn[p].access
       /\ txn' = [txn EXCEPT ![p] = NULL]
  /\ request_in_flight' = NULL
  /\ response_fifo' = [response_fifo EXCEPT ![Core] = Tail(@)]
  /\ UNCHANGED request_fifo

CoreWait ==
  /\ ~CoreIssues /\ response_fifo[Core] = <<>>
  /\ resp' = FALSE
  /\ UNCHANGED <<halted, txn, request_in_flight, fifoVars, rdata>>

CoreClock ==
  /\ Running /\ Core \in todo
  /\ todo' = todo \ {Core}
  /\ (\E p \in Ptrs : CoreIssue(p)) \/ CoreReceive \/ CoreWait
  /\ VcoreStep
  /\ UNCHANGED <<rst_ni, requester_map, initiator_thread, target_thread, serving,
                 request_in_flight2, dmm_bus, wbVars>>

-----------------------------------------------------------------------------
(* jtag_debugger::generator_thread: master port, then slave port.          *)

\* Mutated form: the second stage keeps its transaction when nothing follows.
ShiftStageKeeps == IF serving[Dms] # NULL THEN serving[Dms] ELSE request_in_flight2
ShiftStage == serving[Dms]

\* The debug module may strobe at every clock, with the bound MaxDebug.
InFlight(heap, i) == {p \in Ptrs : heap[p] # NULL /\ heap[p].owner = i}
DebugModuleStep ==
  \/ dmm_bus' = "idle"
  \/ Cardinality(InFlight(txn', Debugger)) < MaxDebug /\ dmm_bus' \in Destinations

\* p is the transaction allocated for a strobe, NULL without one.
DebuggerClock(p) ==
  /\ Running /\ Debugger \in todo
  /\ todo' = todo \ {Debugger}
  /\ p \in IF dmm_bus # "idle" THEN Free ELSE {NULL}
  /\ txn' = [x \in Ptrs |->
               CASE x = First(response_fifo[Debugger]) -> NULL
                 [] x = p -> [owner |-> Debugger, target |-> dmm_bus, access |-> 0]
                 [] OTHER -> txn[x]]
  /\ request_fifo' = [request_fifo EXCEPT ![Debugger] = @ \o Slot(p), ![Dms] = Rest(@)]
  /\ response_fifo' = [response_fifo EXCEPT ![Debugger] = Rest(@),
                                            ![Dms] = @ \o Slot(request_in_flight2)]
  /\ EndIf(\/ p # NULL /\ Full(request_fifo[Debugger])
           \/ request_in_flight2 # NULL /\ Full(response_fifo[Dms]))
  /\ request_in_flight2' = ShiftStage
  /\ serving' = [serving EXCEPT ![Dms] = First(request_fifo[Dms])]
  /\ DebugModuleStep
  /\ UNCHANGED <<rst_ni, requester_map, initiator_thread, target_thread, coreVars, wbVars>>

-----------------------------------------------------------------------------
(* uart::target_thread, an SC_METHOD in spite of its name.                 *)

UartAnswered == serving[Uart] # NULL /\ wb_ack

\* Mutated form: a request is accepted while another waits for its ack.
UartAcceptsAlways == request_fifo[Uart] # <<>>
UartAccepts == (serving[Uart] = NULL \/ wb_ack) /\ request_fifo[Uart] # <<>>

\* wbuart acknowledges each strobe once, some clock edges later.
WbuartStep(ack) ==
  /\ ack => wb_stb \/ wb_busy
  /\ wb_ack' = ack
  /\ wb_busy' = ((wb_stb \/ wb_busy) /\ ~ack)

UartClock(ack) ==
  /\ Running /\ Uart \in todo
  /\ todo' = todo \ {Uart}
  /\ response_fifo' = IF UartAnswered
                        THEN [response_fifo EXCEPT ![Uart] = Append(@, serving[Uart])]
                        ELSE response_fifo
  /\ EndIf(UartAnswered /\ Full(response_fifo[Uart]))
  /\ request_fifo' = IF UartAccepts THEN [request_fifo EXCEPT ![Uart] = Tail(@)]
                                    ELSE request_fifo
  /\ serving' = [serving EXCEPT ![Uart] = IF UartAccepts THEN Head(request_fifo[Uart])
                                          ELSE IF UartAnswered THEN NULL ELSE @]
  /\ wb_stb' = UartAccepts
  /\ WbuartStep(ack)
  /\ UNCHANGED <<rst_ni, txn, requester_map, initiator_thread, target_thread,
                 request_in_flight2, coreVars, dmm_bus>>

-----------------------------------------------------------------------------
(* generic_initiator::initiator_thread, which runs handle_initiator_req    *)
(* and the target wrapper's nb_transport_fw in its own context.            *)

\* Mutated form: requester_map.insert, which keeps an older entry.
RememberFirst(p, i) == IF requester_map[p] = NULL THEN [requester_map EXCEPT ![p] = i]
                                                  ELSE requester_map
Remember(p, i) == [requester_map EXCEPT ![p] = i]

\* Up to the blocking write into the target's request_fifo.  An unmapped
\* address fails an assertion.
InitiatorFetch(i) ==
  /\ Running /\ todo = {} /\ CanFetch(i)
  /\ LET p == Head(request_fifo[i])
         to == TargetOf(p) IN
       /\ initiator_thread' = [initiator_thread EXCEPT ![i] = [ptr |-> p, to |-> to]]
       /\ requester_map' = IF to = NULL THEN requester_map ELSE Remember(p, i)
       /\ halted' = IF to # NULL THEN halted
                    ELSE IF txn[p] = NULL THEN "dangling" ELSE "unmapped"
  /\ request_fifo' = [request_fifo EXCEPT ![i] = Tail(@)]
  /\ UNCHANGED <<rst_ni, todo, txn, response_fifo, target_thread, serving,
                 request_in_flight2, coreVars, dmm_bus, wbVars>>

InitiatorDeliver(i) ==
  /\ Running /\ todo = {} /\ CanDeliver(i)
  /\ request_fifo' = [request_fifo EXCEPT ![initiator_thread[i].to] =
                                            Append(@, initiator_thread[i].ptr)]
  /\ initiator_thread' = [initiator_thread EXCEPT ![i] = NULL]
  /\ UNCHANGED <<rst_ni, todo, halted, txn, requester_map, response_fifo, target_thread,
                 serving, request_in_flight2, coreVars, dmm_bus, wbVars>>

-----------------------------------------------------------------------------
(* magic_memory::response_thread and vga::target_thread.                   *)

\* The bus sends the vga its whole region; at an address between the arrays
\* the assertion of get_address fails.
ThreadTargetServe(t) ==
  /\ Running /\ todo = {} /\ CanServe(t)
  /\ halted' \in IF t = Vga THEN {halted, "bad_address"} ELSE {halted}
  /\ serving' = [serving EXCEPT ![t] = Head(request_fifo[t])]
  /\ request_fifo' = [request_fifo EXCEPT ![t] = Tail(@)]
  /\ UNCHANGED <<rst_ni, todo, txn, requester_map, response_fifo, initiator_thread,
                 target_thread, request_in_flight2, coreVars, dmm_bus, wbVars>>

ThreadTargetAnswer(t) ==
  /\ Running /\ todo = {} /\ CanAnswer(t)
  /\ response_fifo' = [response_fifo EXCEPT ![t] = Append(@, serving[t])]
  /\ serving' = [serving EXCEPT ![t] = NULL]
  /\ UNCHANGED <<rst_ni, todo, halted, txn, requester_map, request_fifo, initiator_thread,
                 target_thread, request_in_flight2, coreVars, dmm_bus, wbVars>>

-----------------------------------------------------------------------------
(* target_thread of the four target wrappers, all alike, runs              *)
(* handle_target_resp and generic_initiator::nb_transport_bw.              *)

\* Up to the blocking write into the initiator's response_fifo.
TargetTake(t) ==
  /\ Running /\ todo = {} /\ CanTake(t)
  /\ LET p == Head(response_fifo[t])
         sound == TargetOf(p) = t /\ requester_map[p] # NULL IN
       /\ target_thread' = [target_thread EXCEPT ![t] =
                             [ptr |-> p, to |-> IF sound THEN requester_map[p] ELSE NULL]]
       /\ halted' = IF sound THEN halted ELSE "misrouted"
  /\ response_fifo' = [response_fifo EXCEPT ![t] = Tail(@)]
  /\ UNCHANGED <<rst_ni, todo, txn, requester_map, request_fifo, initiator_thread, serving,
                 request_in_flight2, coreVars, dmm_bus, wbVars>>

TargetReturn(t) ==
  /\ Running /\ todo = {} /\ CanReturn(t)
  /\ response_fifo' = [response_fifo EXCEPT ![target_thread[t].to] =
                                              Append(@, target_thread[t].ptr)]
  /\ target_thread' = [target_thread EXCEPT ![t] = NULL]
  /\ UNCHANGED <<rst_ni, todo, halted, txn, requester_map, request_fifo, initiator_thread,
                 serving, request_in_flight2, coreVars, dmm_bus, wbVars>>

-----------------------------------------------------------------------------
Init ==
  /\ rst_ni = FALSE /\ todo = {} /\ halted = "no"
  /\ txn = [p \in Ptrs |-> NULL]
  /\ requester_map = [p \in Ptrs |-> NULL]
  /\ request_fifo = [x \in Initiators \cup Targets |-> <<>>]
  /\ response_fifo = [x \in Initiators \cup Targets |-> <<>>]
  /\ initiator_thread = [i \in Initiators |-> NULL]
  /\ target_thread = [t \in Targets |-> NULL]
  /\ serving = [t \in Targets |-> NULL]
  /\ request_in_flight2 = NULL
  /\ core_bus = "idle" /\ core_access = 0 /\ resp = FALSE /\ rdata = 0
  /\ request_in_flight = NULL
  /\ dmm_bus = "idle"
  /\ wb_stb = FALSE /\ wb_busy = FALSE /\ wb_ack = FALSE

DebuggerNext == \E p \in Ptrs \cup {NULL} : DebuggerClock(p)
UartNext == \E ack \in BOOLEAN : UartClock(ack)

ThreadNext ==
  \/ \E i \in Initiators : InitiatorFetch(i) \/ InitiatorDeliver(i)
  \/ \E t \in ThreadTargets : ThreadTargetServe(t) \/ ThreadTargetAnswer(t)
  \/ \E t \in Targets : TargetTake(t) \/ TargetReturn(t)

Next == ReleaseReset \/ Posedge \/ CoreClock \/ DebuggerNext \/ UartNext \/ ThreadNext

Spec == Init /\ [][Next]_vars

\* The kernel never stops while something can run: sc_main keeps calling
\* sc_start, time passes only when no process is runnable, and every runnable
\* process is run.  The serial port acknowledges every strobe in the end.
Fairness == WF_vars(Next) /\ SF_vars(UartClock(TRUE))

FairSpec == Spec /\ Fairness

-----------------------------------------------------------------------------
(* Properties.                                                             *)

\* Type invariant of the processes' variables; in particular no pointer held
\* by a fifo or a thread is anything but a heap address.
TypeOK ==
  /\ rst_ni \in BOOLEAN /\ todo \subseteq {Core, Debugger, Uart}
  /\ halted \in {"no", "method_blocked", "out_of_order", "unmapped", "bad_address", "dangling",
                "misrouted"}
  /\ txn \in [Ptrs -> Payload \cup {NULL}]
  /\ requester_map \in [Ptrs -> Initiators \cup {NULL}]
  /\ request_fifo \in [Initiators \cup Targets -> Seq(Ptrs)]
  /\ response_fifo \in [Initiators \cup Targets -> Seq(Ptrs)]
  /\ initiator_thread \in [Initiators -> Job \cup {NULL}]
  /\ target_thread \in [Targets -> Job \cup {NULL}]
  /\ serving \in [Targets -> Ptrs \cup {NULL}]
  /\ request_in_flight2 \in Ptrs \cup {NULL}
  /\ core_bus \in Destinations \cup {"idle"} /\ core_access \in {0, 1}
  /\ resp \in BOOLEAN /\ rdata \in {0, 1}
  /\ request_in_flight \in Ptrs \cup {NULL}
  /\ dmm_bus \in Destinations \cup {"idle"}
  /\ wb_stb \in BOOLEAN /\ wb_busy \in BOOLEAN /\ wb_ack \in BOOLEAN

Held(job) == IF job = NULL THEN <<>> ELSE <<job.ptr>>

\* What is between the bus and a target's response, oldest first.
AtTarget(t) ==
  Held(target_thread[t]) \o response_fifo[t]
    \o (IF t = Dms THEN Slot(request_in_flight2) ELSE <<>>)
    \o Slot(serving[t]) \o request_fifo[t]
AtInitiator(i) == Held(initiator_thread[i]) \o request_fifo[i]

\* Every position a transaction can be in.
Line(x) == IF x \in Initiators THEN response_fifo[x] \o AtInitiator(x) ELSE AtTarget(x)
Positions(p) ==
  UNION {{<<x, n>> : n \in {m \in DOMAIN Line(x) : Line(x)[m] = p}} : x \in Initiators \cup Targets}

\* Each allocated transaction is in exactly one place, and no place holds one
\* that was deleted: nothing is lost, nothing is delivered twice and nobody
\* can touch a freed payload, whatever the interleaving and the pointer reuse.
EachInOnePlace ==
  \A p \in Ptrs : Cardinality(Positions(p)) = IF txn[p] = NULL THEN 0 ELSE 1

\* requester_map is never cleaned up, and new returns addresses it still
\* holds: even so it names the owner of every transaction that is past
\* handle_initiator_req, and an answer only ever goes back to that owner.
RoutedToRequester ==
  /\ \A t \in Targets : \A p \in ToSet(AtTarget(t)) :
       txn[p] # NULL => requester_map[p] = txn[p].owner /\ txn[p].target = t
  /\ \A i \in Initiators : \A p \in ToSet(response_fifo[i]) : txn[p] # NULL => txn[p].owner = i

\* The program runs on.  The assertions "one at a time, in order" of rv_core
\* and those of handle_target_resp never fail, however the debugger
\* interferes; and no SC_METHOD writes to a full fifo, which would end the
\* program, as long as MaxDebug <= 2 * FifoSize.  Only an access to an address
\* where nothing is ends it: one that no target is registered for, or one in
\* the vga's region between its arrays.
NeverAborts == halted \in {"no", "unmapped", "bad_address"}

\* When Vcore sees resp, rdata answers the access it is making now, not one
\* it made before.
AnswerMatchesAccess == Running /\ resp => core_bus # "idle" /\ rdata = core_access

\* Vcore's access is answered: its request gets through the fifos, the bus
\* and a target it may share with the debugger, and back.
CoreAnswered == core_bus # "idle" ~> core_bus # "idle" /\ resp

\* The system implements an ordered bus that answers exactly once.
Between(i, d) == {p \in Ptrs : txn[p] # NULL /\ txn[p].owner = i /\ txn[p].target = d}
PendingOf(i, d) ==
  Only(response_fifo[i] \o (IF d = NULL THEN <<>> ELSE AtTarget(d)) \o AtInitiator(i),
       Between(i, d))

Abstract == INSTANCE OrderedBus WITH
  Txns <- Ptrs,
  pending <- [i \in Initiators |-> [d \in Destinations |-> PendingOf(i, d)]]

ImplementsOrderedBus == Abstract!Spec
=============================================================================
