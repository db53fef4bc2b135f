--------------------------- MODULE DebuggerProofs ---------------------------
(***************************************************************************)
(* The two ports of jtag_debugger.  The slave port implements AtomicTarget,*)
(* whatever the transactions, the values of the device and the distance of *)
(* the requests.  The master port has the safety properties of DebugMaster *)
(* for every latency of the bus.                                           *)
(***************************************************************************)
EXTENDS DebugSlave, DebugMaster, DataLemmas

-----------------------------------------------------------------------------
(* The slave port: types.                                                  *)


\* The port's registers and fifos have their types; the part of TypeOK that
\* says nothing about pointers.
Typed ==
  /\ dms_request_fifo \in Seq(Transaction) /\ dms_response_fifo \in Seq(Transaction)
  /\ request_in_flight1 \in Transaction \cup {NULL}
  /\ request_in_flight2 \in Transaction \cup {NULL}
  /\ dms_stb \in BOOLEAN /\ dms_we \in BOOLEAN
  /\ dms_wdata \in Values /\ dms_rdata \in Values /\ device \in Values

IInv == Typed /\ IsInjective(Pointers) /\ StrobeIsInFlight

\* The two halves of the port: answered and sampled, strobed and waiting.
ResponseSide == dms_response_fifo \o Slot(request_in_flight2)
RequestSide == Slot(request_in_flight1) \o dms_request_fifo

\* What the steps need to know of the data.
LEMMA DataTypes ==
  /\ 0 \in Values
  /\ \A d \in Values : (d + 1) % NumValues \in Values
  /\ \A r \in Transaction : r # NULL /\ r.ptr \in Ptrs /\ r.data \in Values
                              /\ (r.command = "read" \/ r.command = "write")
  /\ \A r \in Transaction, d \in Values :
       [r EXCEPT !.data = d] \in Transaction /\ [r EXCEPT !.data = d].ptr = r.ptr
  BY DebugSlaveAssumption DEF Values, Transaction

LEMMA SlotTyped ==
  ASSUME NEW r \in Transaction \cup {NULL}
  PROVE  Slot(r) \in Seq(Transaction)
  BY EmptySeq, Singleton DEF Slot

LEMMA HalvesTyped ==
  ASSUME Typed
  PROVE  ResponseSide \in Seq(Transaction) /\ RequestSide \in Seq(Transaction)
         /\ InTarget = ResponseSide \o RequestSide /\ InTarget \in Seq(Transaction)
<1>1. Slot(request_in_flight1) \in Seq(Transaction) /\ Slot(request_in_flight2) \in Seq(Transaction)
  BY SlotTyped DEF Typed
<1>2. ResponseSide \in Seq(Transaction) /\ RequestSide \in Seq(Transaction)
  BY <1>1, ConcatProperties DEF Typed, ResponseSide, RequestSide
<1>3. InTarget = ResponseSide \o RequestSide
  BY DEF InTarget, ResponseSide, RequestSide
<1>4. QED
  BY <1>2, <1>3, ConcatProperties

\* The answer is the transaction itself, with the data read for it.
LEMMA AnswerTyped ==
  ASSUME IInv, NEW r \in Transaction
  PROVE  Completed(r) \in Transaction /\ Completed(r).ptr = r.ptr
  BY DataTypes DEF IInv, Typed, Completed

-----------------------------------------------------------------------------
\* The bus's two steps leave the port's registers alone.
LEMMA DeliverAppends ==
  ASSUME IInv, NEW r \in Transaction, Deliver(r)
  PROVE  RequestSide' = Append(RequestSide, r) /\ InTarget' = Append(InTarget, r)
<1> DEFINE slot == Slot(request_in_flight1)
           one == <<r>>
<1>1. /\ slot \in Seq(Transaction) /\ dms_request_fifo \in Seq(Transaction)
      /\ one \in Seq(Transaction)
      /\ ResponseSide \in Seq(Transaction) /\ RequestSide \in Seq(Transaction)
      /\ InTarget \in Seq(Transaction) /\ InTarget = ResponseSide \o RequestSide
  BY SlotTyped, HalvesTyped, Singleton DEF IInv, Typed
<1>2. /\ RequestSide = slot \o dms_request_fifo
      /\ RequestSide' = slot \o Append(dms_request_fifo, r)
      /\ InTarget' = ResponseSide \o RequestSide'
  BY DEF Deliver, RequestSide, ResponseSide, InTarget, Slot
<1> HIDE DEF slot
<1>3. /\ Append(dms_request_fifo, r) = dms_request_fifo \o one
      /\ Append(RequestSide, r) = RequestSide \o one
      /\ Append(InTarget, r) = InTarget \o one
  BY <1>1, AppendIsConcat
<1> HIDE DEF one
<1>4. (slot \o dms_request_fifo) \o one = slot \o (dms_request_fifo \o one)
  <2>1. slot \in Seq(Transaction) /\ dms_request_fifo \in Seq(Transaction)
        /\ one \in Seq(Transaction)
    BY <1>1
  <2>2. QED
    BY ONLY <2>1, ConcatAssociative
<1>5. (ResponseSide \o RequestSide) \o one = ResponseSide \o (RequestSide \o one)
  BY <1>1, ConcatAssociative
<1>6. QED
  BY <1>1, <1>2, <1>3, <1>4, <1>5

LEMMA DeliverKeepsInv ==
  ASSUME IInv, NEW r \in Transaction, Deliver(r)
  PROVE  IInv'
<1>1. Typed'
  BY AppendProperties DEF IInv, Typed, Deliver
<1>2. IsInjective(Pointers)'
  <2>1. InTarget \in Seq(Transaction) /\ IsInjective(PointersOf(InTarget))
    BY HalvesTyped DEF IInv, Pointers, PointersOf
  <2>2. \A n \in DOMAIN InTarget : InTarget[n].ptr # r.ptr
    BY DEF Deliver, Free, Pointers
  <2>3. IsInjective(PointersOf(Append(InTarget, r)))
    BY <2>1, <2>2, AppendKeepsDistinct
  <2>4. QED
    BY <2>3, DeliverAppends DEF Pointers, PointersOf
<1>3. StrobeIsInFlight'
  BY DEF IInv, StrobeIsInFlight, Deliver
<1>4. QED
  BY <1>1, <1>2, <1>3 DEF IInv

LEMMA ReturnKeepsInv ==
  ASSUME IInv, Return
  PROVE  IInv'
<1>1. Typed'
  BY HeadTailProperties DEF IInv, Typed, Return
<1>2. InTarget # <<>> /\ InTarget' = Tail(InTarget)
  <2> DEFINE slot == Slot(request_in_flight2)
  <2>1. /\ slot \in Seq(Transaction) /\ dms_response_fifo \in Seq(Transaction)
        /\ dms_response_fifo # <<>> /\ RequestSide \in Seq(Transaction)
        /\ ResponseSide \in Seq(Transaction) /\ InTarget = ResponseSide \o RequestSide
    BY SlotTyped, HalvesTyped DEF IInv, Typed, Return
  <2>2. /\ ResponseSide = dms_response_fifo \o slot
        /\ InTarget' = (Tail(dms_response_fifo) \o slot) \o RequestSide
    BY DEF Return, RequestSide, ResponseSide, InTarget, Slot
  <2> HIDE DEF slot
  <2>3. ResponseSide # <<>> /\ Tail(ResponseSide) = Tail(dms_response_fifo) \o slot
    BY <2>1, <2>2, TakeFromFirst
  <2>4. ResponseSide \o RequestSide # <<>> /\ Tail(ResponseSide \o RequestSide) = Tail(ResponseSide) \o RequestSide
    BY <2>1, <2>3, TakeFromFirst
  <2>5. QED
    BY <2>1, <2>2, <2>3, <2>4
<1>3. IsInjective(Pointers)'
  <2>1. InTarget \in Seq(Transaction) /\ IsInjective(PointersOf(InTarget))
    BY HalvesTyped DEF IInv, Pointers, PointersOf
  <2>2. IsInjective(PointersOf(Tail(InTarget)))
    BY <1>2, <2>1, TailKeepsDistinct
  <2>3. QED
    BY <1>2, <2>2 DEF Pointers, PointersOf
<1>4. StrobeIsInFlight'
  BY DEF IInv, StrobeIsInFlight, Return
<1>5. QED
  BY <1>1, <1>3, <1>4 DEF IInv

-----------------------------------------------------------------------------
\* What the edge does to the two fifos and the two stages between them.
LEMMA ClockMoves ==
  ASSUME IInv, Clock
  PROVE  /\ RequestSide' = dms_request_fifo
         /\ request_in_flight2' = request_in_flight1
         /\ dms_response_fifo' = dms_response_fifo \o
              (IF request_in_flight2 = NULL THEN <<>> ELSE <<Completed(request_in_flight2)>>)
<1>1. RequestSide' = dms_request_fifo
  <2>1. CASE dms_request_fifo # <<>>
    <3>1. dms_request_fifo \in Seq(Transaction) /\ Head(dms_request_fifo) # NULL
      BY <2>1, HeadTailProperties, DataTypes DEF IInv, Typed
    <3>2. RequestSide' = <<Head(dms_request_fifo)>> \o Tail(dms_request_fifo)
      BY <2>1, <3>1 DEF Clock, RequestSide, Slot
    <3>3. QED
      BY <2>1, <3>1, <3>2, HeadThenTail
  <2>2. CASE dms_request_fifo = <<>>
    <3>1. RequestSide' = <<>> \o <<>>
      BY <2>2 DEF Clock, RequestSide, Slot
    <3>2. QED
      BY <2>2, <3>1, EmptySeq, ConcatEmptySeq
  <2>3. QED
    BY <2>1, <2>2
<1>2. dms_response_fifo' = dms_response_fifo \o
        (IF request_in_flight2 = NULL THEN <<>> ELSE <<Completed(request_in_flight2)>>)
  <2>1. dms_response_fifo \in Seq(Transaction)
    BY DEF IInv, Typed
  <2>2. CASE request_in_flight2 = NULL
    BY <2>1, <2>2, ConcatEmptySeq DEF Clock, Responding
  <2>3. CASE request_in_flight2 # NULL
    <3>1. Completed(request_in_flight2) \in Transaction
      BY <2>3, AnswerTyped DEF IInv, Typed
    <3>2. QED
      BY <2>1, <2>3, <3>1, AppendIsConcat DEF Clock, Responding
  <2>4. QED
    BY <2>2, <2>3
<1>3. QED
  BY <1>1, <1>2 DEF Clock, Shifted

LEMMA ClockKeepsTypes ==
  ASSUME IInv, Clock
  PROVE  Typed'
<1>1. dms_response_fifo' \in Seq(Transaction)
  BY AppendProperties, AnswerTyped DEF Clock, Responding, IInv, Typed
<1>2. /\ dms_request_fifo' \in Seq(Transaction)
      /\ request_in_flight1' \in Transaction \cup {NULL}
      /\ dms_we' \in BOOLEAN /\ dms_wdata' \in Values
  <2>1. CASE dms_request_fifo # <<>>
    <3>1. Head(dms_request_fifo) \in Transaction /\ Tail(dms_request_fifo) \in Seq(Transaction)
      BY <2>1, HeadTailProperties DEF IInv, Typed
    <3>2. QED
      BY <2>1, <3>1, DataTypes DEF Clock, IInv, Typed
  <2>2. CASE dms_request_fifo = <<>>
    BY <2>2 DEF Clock, IInv, Typed
  <2>3. QED
    BY <2>1, <2>2
<1>3. request_in_flight2' \in Transaction \cup {NULL} /\ dms_stb' \in BOOLEAN
  BY DEF Clock, Shifted, Strobe, IInv, Typed
<1>4. dms_rdata' \in Values /\ device' \in Values
  BY DataTypes DEF Clock, DebugModuleStep, IInv, Typed
<1>5. QED
  BY <1>1, <1>2, <1>3, <1>4 DEF Typed

\* The edge moves transactions along, it does not change which there are.
LEMMA ClockKeepsPointers ==
  ASSUME IInv, Clock
  PROVE  PointersOf(InTarget') = PointersOf(InTarget)
<1> DEFINE s1 == Slot(request_in_flight1)
           s2 == Slot(request_in_flight2)
           answer == IF request_in_flight2 = NULL THEN <<>>
                                                  ELSE <<Completed(request_in_flight2)>>
<1>1. /\ s1 \in Seq(Transaction) /\ s2 \in Seq(Transaction) /\ answer \in Seq(Transaction)
      /\ dms_request_fifo \in Seq(Transaction) /\ dms_response_fifo \in Seq(Transaction)
      /\ RequestSide \in Seq(Transaction)
  BY SlotTyped, HalvesTyped, EmptySeq, Singleton, AnswerTyped DEF IInv, Typed
<1>2. /\ InTarget = (dms_response_fifo \o s2) \o RequestSide
      /\ RequestSide = s1 \o dms_request_fifo
      /\ InTarget' = ((dms_response_fifo \o answer) \o s1) \o dms_request_fifo
  <2>1. InTarget' = (dms_response_fifo' \o Slot(request_in_flight2')) \o RequestSide'
    BY DEF InTarget, RequestSide, Slot
  <2>2. QED
    BY <2>1, ClockMoves DEF InTarget, RequestSide
<1>3. request_in_flight2 # NULL =>
        s2 = <<request_in_flight2>> /\ answer = <<Completed(request_in_flight2)>>
  BY DEF Slot
<1>4. request_in_flight2 = NULL => s2 = answer
  BY DEF Slot
<1> HIDE DEF s1, s2, answer
<1>5. InTarget' = (dms_response_fifo \o answer) \o RequestSide
  <2> DEFINE got == dms_response_fifo \o answer
  <2>1. got \in Seq(Transaction)
    <3>1. dms_response_fifo \in Seq(Transaction) /\ answer \in Seq(Transaction)
      BY <1>1
    <3>2. QED
      BY <3>1, ConcatProperties
  <2>2. InTarget' = (got \o s1) \o dms_request_fifo
    BY <1>2
  <2> HIDE DEF got
  <2>3. (got \o s1) \o dms_request_fifo = got \o (s1 \o dms_request_fifo)
    <3>1. s1 \in Seq(Transaction) /\ dms_request_fifo \in Seq(Transaction)
      BY <1>1
    <3>2. QED
      BY <2>1, <3>1, ConcatAssociative
  <2>4. InTarget' = got \o RequestSide
    BY <1>2, <2>2, <2>3
  <2>5. QED
    BY <2>4 DEF got
<1>6. CASE request_in_flight2 = NULL
  <2>1. InTarget' = InTarget
    BY <1>2, <1>4, <1>5, <1>6
  <2>2. QED
    BY <2>1
<1>7. CASE request_in_flight2 # NULL
  <2>1. /\ request_in_flight2 \in Transaction /\ Completed(request_in_flight2) \in Transaction
        /\ Completed(request_in_flight2).ptr = request_in_flight2.ptr
    BY <1>7, AnswerTyped DEF IInv, Typed
  <2>2. InTarget' = (dms_response_fifo \o <<Completed(request_in_flight2)>>) \o RequestSide
    BY <1>3, <1>5, <1>7
  <2>3. InTarget = (dms_response_fifo \o <<request_in_flight2>>) \o RequestSide
    BY <1>2, <1>3, <1>7
  <2>4. dms_response_fifo \in Seq(Transaction) /\ RequestSide \in Seq(Transaction)
    BY <1>1
  <2>5. QED
    BY <2>1, <2>2, <2>3, <2>4, AnswerKeepsPointers
<1>8. QED
  BY <1>6, <1>7

LEMMA ClockKeepsInv ==
  ASSUME IInv, Clock
  PROVE  IInv'
<1>1. Typed'
  BY ClockKeepsTypes
<1>2. IsInjective(Pointers)'
  <2>1. Pointers = PointersOf(InTarget) /\ Pointers' = PointersOf(InTarget')
    BY DEF Pointers, PointersOf
  <2>2. QED
    BY <2>1, ClockKeepsPointers DEF IInv
<1>3. StrobeIsInFlight'
  <2>1. CASE dms_request_fifo # <<>>
    <3>1. Head(dms_request_fifo) \in Transaction
      BY <2>1, HeadTailProperties DEF IInv, Typed
    <3>2. QED
      BY <2>1, <3>1, DataTypes DEF Clock, Strobe, StrobeIsInFlight
  <2>2. CASE dms_request_fifo = <<>>
    BY <2>2 DEF Clock, Strobe, StrobeIsInFlight
  <2>3. QED
    BY <2>1, <2>2
<1>4. QED
  BY <1>1, <1>2, <1>3 DEF IInv

-----------------------------------------------------------------------------
\* Types, distinct pointers and the strobe together are inductive.
THEOREM Invariance == Spec => []IInv
<1>1. Init => IInv
  <2> SUFFICES ASSUME Init
               PROVE  IInv
    OBVIOUS
  <2>1. Typed
    BY DataTypes, EmptySeq DEF Init, Typed
  <2>2. InTarget = <<>>
    BY ConcatEmptySeq, EmptySeq DEF Init, InTarget, Slot
  <2>3. IsInjective(Pointers)
    BY <2>2 DEF IsInjective, Pointers
  <2>4. StrobeIsInFlight
    BY DEF Init, StrobeIsInFlight
  <2>5. QED
    BY <2>1, <2>3, <2>4 DEF IInv
<1>2. IInv /\ [Next]_vars => IInv'
  <2> SUFFICES ASSUME IInv, [Next]_vars
               PROVE  IInv'
    OBVIOUS
  <2>1. CASE UNCHANGED vars
    BY <2>1 DEF vars, IInv, Typed, StrobeIsInFlight, Pointers, InTarget, Slot
  <2>2. ASSUME NEW r \in Transaction, Deliver(r)
        PROVE  IInv'
    BY <2>2, DeliverKeepsInv
  <2>3. CASE Return
    BY <2>3, ReturnKeepsInv
  <2>4. CASE Clock
    BY <2>4, ClockKeepsInv
  <2>5. QED
    BY <2>1, <2>2, <2>3, <2>4 DEF Next
<1>3. QED
  BY <1>1, <1>2, PTL DEF Spec

\* The registers and fifos of the port keep their types, and no transaction
\* is in two of them.
THEOREM TypeCorrect == Spec => []TypeOK
<1>1. IInv => TypeOK
  BY DEF IInv, Typed, TypeOK
<1>2. QED
  BY <1>1, Invariance, PTL

\* The debug module is only ever strobed for the transaction in the first
\* stage, with its command and its data.
THEOREM StrobeCorrect == Spec => []StrobeIsInFlight
<1>1. IInv => StrobeIsInFlight
  BY DEF IInv
<1>2. QED
  BY <1>1, Invariance, PTL

-----------------------------------------------------------------------------
(* The refinement.                                                         *)

\* The second abstract queue; the first is RequestSide.
Done == dms_response_fifo
          \o (IF request_in_flight2 = NULL THEN <<>> ELSE <<Completed(request_in_flight2)>>)

LEMMA DeliverArrives ==
  ASSUME IInv, NEW r \in Transaction, Deliver(r)
  PROVE  Abstract!Arrive(r)
<1>1. RequestSide' = Append(RequestSide, r)
  BY DeliverAppends
<1>2. UNCHANGED <<device, Done>>
  BY DEF Deliver, Done, Completed
<1>3. QED
  BY <1>1, <1>2 DEF Abstract!Arrive, RequestSide, Done

LEMMA ReturnReturns ==
  ASSUME IInv, Return
  PROVE  Abstract!Return
<1> DEFINE sampled == IF request_in_flight2 = NULL THEN <<>>
                                                   ELSE <<Completed(request_in_flight2)>>
<1>1. /\ sampled \in Seq(Transaction)
      /\ dms_response_fifo \in Seq(Transaction) /\ dms_response_fifo # <<>>
  BY AnswerTyped, Singleton, EmptySeq DEF IInv, Typed, Return
<1>2. Done = dms_response_fifo \o sampled /\ Done' = Tail(dms_response_fifo) \o sampled
  BY DEF Return, Done, Completed
<1> HIDE DEF sampled
<1>3. Done # <<>> /\ Tail(Done) = Tail(dms_response_fifo) \o sampled
  BY <1>1, <1>2, TakeFromFirst
<1>4. UNCHANGED <<device, RequestSide>>
  BY DEF Return, RequestSide, Slot
<1>5. QED
  BY <1>2, <1>3, <1>4 DEF Abstract!Return, RequestSide, Done

\* After the edge, what was done is in the response fifo.
LEMMA ClockAnswers ==
  ASSUME IInv, Clock
  PROVE  dms_response_fifo' = Done
  BY ClockMoves DEF Done

\* With a strobe, the edge executes the transaction of the first stage.
LEMMA StrobeExecutes ==
  ASSUME IInv, Clock, dms_stb
  PROVE  Abstract!Execute
<1>1. /\ request_in_flight1 \in Transaction /\ request_in_flight1 # NULL
      /\ dms_request_fifo \in Seq(Transaction)
      /\ dms_response_fifo' \in Seq(Transaction)
  BY ClockKeepsTypes DEF IInv, Typed, StrobeIsInFlight
<1>2. device' = Abstract!Effect(device, request_in_flight1)
  BY <1>1, DataTypes DEF Clock, DebugModuleStep, Abstract!Effect, IInv, StrobeIsInFlight
<1> DEFINE answered == IF request_in_flight1.command = "read"
                         THEN [request_in_flight1 EXCEPT !.data = dms_rdata']
                         ELSE request_in_flight1
<1>3. answered \in Transaction /\ answered = Abstract!Executed(device, request_in_flight1)
  <2>1. CASE request_in_flight1.command = "read"
    <3>1. dms_rdata' = device /\ device \in Values
      BY <2>1 DEF Clock, DebugModuleStep, IInv, Typed, StrobeIsInFlight
    <3>2. QED
      BY <1>1, <2>1, <3>1, DataTypes DEF Abstract!Executed
  <2>2. CASE request_in_flight1.command = "write"
    BY <1>1, <2>2 DEF Abstract!Executed
  <2>3. QED
    BY <1>1, <2>1, <2>2, DataTypes
<1>4. Done' = Append(Done, Abstract!Executed(device, request_in_flight1))
  <2>1. Done' = dms_response_fifo' \o <<answered>>
    BY <1>1, ClockMoves DEF Done, Completed
  <2> HIDE DEF answered
  <2>2. Append(dms_response_fifo', answered) = dms_response_fifo' \o <<answered>>
    BY <1>1, <1>3, AppendIsConcat
  <2>3. QED
    BY <1>3, <2>1, <2>2, ClockAnswers
<1>5. RequestSide # <<>> /\ Head(RequestSide) = request_in_flight1 /\ Tail(RequestSide) = dms_request_fifo
  <2>1. RequestSide = <<request_in_flight1>> \o dms_request_fifo
    BY <1>1 DEF RequestSide, Slot
  <2>2. /\ <<request_in_flight1>> \in Seq(Transaction) /\ <<request_in_flight1>> # <<>>
        /\ Head(<<request_in_flight1>>) = request_in_flight1
        /\ Tail(<<request_in_flight1>>) = <<>>
    BY <1>1
  <2>3. /\ RequestSide # <<>> /\ Head(RequestSide) = request_in_flight1
        /\ Tail(RequestSide) = <<>> \o dms_request_fifo
    BY <1>1, <2>1, <2>2, TakeFromFirst
  <2>4. QED
    BY <1>1, <2>3, ConcatEmptySeq
<1>6. RequestSide' = dms_request_fifo
  BY ClockMoves
<1>7. QED
  BY <1>2, <1>4, <1>5, <1>6 DEF Abstract!Execute, RequestSide, Done

\* Without one, it moves transactions, which the abstract target does not see.
LEMMA OtherEdgesStutter ==
  ASSUME IInv, Clock, ~dms_stb
  PROVE  UNCHANGED <<device, RequestSide, Done>>
<1>1. /\ request_in_flight1 = NULL /\ dms_request_fifo \in Seq(Transaction)
      /\ dms_response_fifo' \in Seq(Transaction)
  BY ClockKeepsTypes DEF IInv, Typed, StrobeIsInFlight
<1>2. device' = device
  BY DEF Clock, DebugModuleStep
<1>3. RequestSide' = RequestSide
  <2>1. RequestSide = <<>> \o dms_request_fifo
    BY <1>1 DEF RequestSide, Slot
  <2>2. QED
    BY <1>1, <2>1, ClockMoves, ConcatEmptySeq
<1>4. Done' = Done
  <2>1. Done' = dms_response_fifo' \o <<>>
    BY <1>1, ClockMoves DEF Done
  <2>2. QED
    BY <1>1, <2>1, ClockAnswers, ConcatEmptySeq
<1>5. QED
  BY <1>2, <1>3, <1>4

\* The port executes its requests in order, each exactly once, and answers
\* each read with the data of its own execution, at any distance of requests.
THEOREM Refinement == Spec => ImplementsAtomicTarget
<1>1. Init => Abstract!Init
  <2> SUFFICES ASSUME Init
               PROVE  Abstract!Init
    OBVIOUS
  <2>1. <<>> \o <<>> = <<>>
    BY EmptySeq, ConcatEmptySeq
  <2>2. QED
    BY <2>1 DEF Init, Abstract!Init, Slot
<1>2. IInv /\ [Next]_vars => [Abstract!Next]_Abstract!vars
  <2> SUFFICES ASSUME IInv, [Next]_vars
               PROVE  [Abstract!Next]_Abstract!vars
    OBVIOUS
  <2>1. CASE UNCHANGED vars
    BY <2>1 DEF vars, Abstract!vars, Slot, Completed
  <2>2. ASSUME NEW r \in Transaction, Deliver(r)
        PROVE  Abstract!Next
    <3>1. r \in Abstract!Transaction
      BY DEF Transaction, Values, Abstract!Transaction, Abstract!Commands, Abstract!Values
    <3>2. QED
      BY <2>2, <3>1, DeliverArrives DEF Abstract!Next
  <2>3. CASE Return
    BY <2>3, ReturnReturns DEF Abstract!Next
  <2>4. CASE Clock
    <3>1. CASE dms_stb
      BY <2>4, <3>1, StrobeExecutes DEF Abstract!Next
    <3>2. CASE ~dms_stb
      BY <2>4, <3>2, OtherEdgesStutter DEF Abstract!vars, RequestSide, Done
    <3>3. QED
      BY <3>1, <3>2
  <2>5. QED
    BY <2>1, <2>2, <2>3, <2>4 DEF Next
<1>3. QED
  BY <1>1, <1>2, Invariance, PTL DEF Spec, ImplementsAtomicTarget, Abstract!Spec

-----------------------------------------------------------------------------
(* The master port.  The invariant counts the transactions of an access    *)
(* phase by phase, and then shows that they are gone when the next access  *)
(* begins: an idle edge is an edge of service for the oldest of them.      *)

\* The registers of the port and of the debug module.
Shape ==
  /\ state \in {"Idle", "Request", "Wait"}
  /\ access \in 0 .. MaxAccesses /\ idle \in 0 .. Gap /\ taken \in 0 .. access
  /\ dmm_resp \in BOOLEAN /\ dmm_rdata \in 0 .. access
  /\ age \in 0 .. MaxLatency
  /\ state # "Idle" => access # 0 /\ idle = 0

\* All that is under way belongs to the current access, or to the last one.
Mine == {access} \ {0}
AllMine ==
  /\ bus \in Seq(Mine) /\ response_fifo \in Seq(Mine)
  /\ dmm_resp => dmm_rdata = access

\* How many transactions that is, before the first answer, after it, and once
\* the second one has been seen.
Counted ==
  LET total == Len(bus) + Len(response_fifo) IN
  /\ state = "Request" /\ ~dmm_resp /\ response_fifo = <<>> => Len(bus) <= age + 1
  /\ state = "Request" /\ (dmm_resp \/ response_fifo # <<>>) => total <= MaxLatency + 1
  /\ state = "Wait" => total <= MaxLatency + (IF dmm_resp THEN 1 ELSE 2)
  /\ state = "Idle" => total <= MaxLatency + 1

\* How many edges k transactions take at most.
Service(k) == MaxLatency * k

\* How many idle edges their answers still need.
Draining ==
  state = "Idle" =>
    /\ bus # <<>> => Service(Len(bus)) - age + 1 <= Gap - idle
    /\ Len(bus) + Len(response_fifo) <= Gap - idle

MasterInv == Shape /\ AllMine /\ Counted /\ Draining /\ AnswerIsOwn

\* The arithmetic of the assumption: the gap is long enough for MaxLatency + 1
\* transactions, whatever of them is left.
LEMMA GapLength == MaxLatency \in Nat /\ Gap \in Nat /\ MaxAccesses \in Nat /\ MaxLatency + 1 <= Gap
<1>1. MaxLatency \in Nat /\ Gap \in Nat /\ MaxAccesses \in Nat
  BY DebugMasterAssumption
<1>2. MaxLatency = 0 \/ MaxLatency * (MaxLatency + 1) >= MaxLatency + 1
  <2>1. CASE MaxLatency = 0
    BY <2>1
  <2>2. CASE MaxLatency # 0
    <3>1. MaxLatency - 1 \in Nat
      BY <1>1, <2>2
    <3>2. \A m, n \in Nat : (m + 1) * n = m * n + n /\ m * n \in Nat
      OBVIOUS
    <3>3. (MaxLatency - 1 + 1) * (MaxLatency + 1) >= MaxLatency + 1
      BY <1>1, <3>1, <3>2
    <3> QED BY <1>1, <3>3
  <2> QED BY <2>1, <2>2
<1> QED BY <1>1, <1>2, DebugMasterAssumption

LEMMA ServiceTime ==
  ASSUME NEW k \in Nat
  PROVE  /\ Service(k) \in Nat
         /\ Service(k + 1) = Service(k) + MaxLatency
         /\ MaxLatency # 0 /\ k # 0 => Service(k) >= k + MaxLatency - 1
         /\ k <= MaxLatency + 1 => Service(k) < Gap
<1>0. MaxLatency \in Nat /\ Gap \in Nat
  BY GapLength
<1>1. Service(k) \in Nat /\ Service(k + 1) = Service(k) + MaxLatency
  BY <1>0 DEF Service
<1>2. ASSUME MaxLatency # 0, k # 0 PROVE Service(k) >= k + MaxLatency - 1
  <2>1. MaxLatency - 1 \in Nat /\ k - 1 \in Nat
    BY <1>0, <1>2
  <2>2. \A m, n \in Nat : (m + 1) * (n + 1) = m * n + m + n + 1 /\ m * n \in Nat
    OBVIOUS
  <2>3. (MaxLatency - 1 + 1) * (k - 1 + 1) >= (MaxLatency - 1) + (k - 1) + 1
    BY <2>1, <2>2
  <2> QED BY <1>0, <2>3 DEF Service
<1>3. ASSUME k <= MaxLatency + 1 PROVE Service(k) < Gap
  <2>1. MaxLatency + 1 - k \in Nat
    BY <1>0, <1>3
  <2>2. \A l, m, n \in Nat : l * (m + n) = l * m + l * n /\ l * n \in Nat /\ l * m \in Nat
    OBVIOUS
  <2>3. MaxLatency * (k + (MaxLatency + 1 - k)) >= MaxLatency * k
    BY <1>0, <2>1, <2>2
  <2>4. MaxLatency * (MaxLatency + 1) < Gap
    BY DebugMasterAssumption
  <2>5. k + (MaxLatency + 1 - k) = MaxLatency + 1
    BY <1>0
  <2> QED BY <1>0, <2>3, <2>4, <2>5 DEF Service
<1> QED BY <1>1, <1>2, <1>3

LEMMA InitMaster == MasterInit => MasterInv
<1> SUFFICES ASSUME MasterInit PROVE MasterInv
  OBVIOUS
<1>1. Shape /\ AnswerIsOwn
  <2>1. 0 \in 0 .. MaxAccesses /\ 0 \in 0 .. MaxLatency /\ Gap \in 0 .. Gap /\ 0 \in 0 .. 0
    BY GapLength
  <2> QED BY <2>1 DEF MasterInit, Shape, AnswerIsOwn
<1>2. AllMine
  BY DEF MasterInit, AllMine
<1>3. Counted /\ Draining
  BY GapLength DEF MasterInit, Counted, Draining
<1> QED BY <1>1, <1>2, <1>3 DEF MasterInv

\* The bus moves a transaction from the one queue to the other.
LEMMA AnswerKeepsMaster == MasterInv /\ Answer => MasterInv'
<1> SUFFICES ASSUME MasterInv, Answer PROVE MasterInv'
  OBVIOUS
<1>1. /\ UNCHANGED <<state, access, idle, taken, dmm_resp, dmm_rdata>>
      /\ bus # <<>> /\ age' = 0 /\ bus' = Tail(bus)
      /\ response_fifo' = Append(response_fifo, Head(bus))
  BY DEF Answer
<1>2. /\ Len(bus) \in Nat /\ Len(bus) > 0 /\ Len(response_fifo) \in Nat
      /\ Len(bus') = Len(bus) - 1 /\ Len(response_fifo') = Len(response_fifo) + 1
  BY <1>1 DEF MasterInv, AllMine
<1>3. Shape' /\ AnswerIsOwn'
  BY <1>1, GapLength DEF MasterInv, Shape, AnswerIsOwn
<1>4. AllMine'
  BY <1>1 DEF MasterInv, AllMine, Mine
<1>5. Counted'
  BY <1>1, <1>2, GapLength DEF MasterInv, Shape, AllMine, Counted
<1>6. Draining'
  <2>1. /\ Service(Len(bus) - 1) \in Nat
        /\ Service(Len(bus) - 1 + 1) = Service(Len(bus) - 1) + MaxLatency
    <3>1. Len(bus) - 1 \in Nat
      BY <1>2
    <3> QED BY <3>1, ServiceTime
  <2>2. Len(bus) - 1 + 1 = Len(bus) /\ Len(bus') = Len(bus) - 1
    BY <1>2
  <2>3. Service(Len(bus)) = Service(Len(bus')) + MaxLatency /\ Service(Len(bus')) \in Nat
    BY <2>1, <2>2
  <2> QED BY <1>1, <1>2, <2>3, GapLength DEF MasterInv, Shape, Draining
<1> QED BY <1>3, <1>4, <1>5, <1>6 DEF MasterInv

\* What an edge does to the two queues, whatever the debug module does.
EdgeMoves ==
  /\ Len(bus) \in Nat /\ Len(response_fifo) \in Nat /\ Len(response_fifo') \in Nat
  /\ bus = <<>> => Len(bus) = 0 /\ age' = 0
  /\ bus # <<>> => Len(bus) > 0 /\ age < MaxLatency /\ age' = age + 1
  /\ Len(bus') = Len(bus) + (IF state = "Request" THEN 1 ELSE 0)
  /\ bus' \in Seq(Mine) /\ response_fifo' \in Seq(Mine)
  /\ \/ /\ response_fifo = <<>> /\ response_fifo' = <<>> /\ ~dmm_resp'
        /\ Len(response_fifo) = 0 /\ Len(response_fifo') = 0
     \/ /\ response_fifo # <<>> /\ dmm_resp' /\ dmm_rdata' = access
        /\ Len(response_fifo) > 0 /\ Len(response_fifo') = Len(response_fifo) - 1
  /\ dmm_resp' \in BOOLEAN /\ dmm_rdata' \in 0 .. access /\ age' \in 0 .. MaxLatency

LEMMA EdgeQueues == MasterInv /\ Edge => EdgeMoves
<1> SUFFICES ASSUME MasterInv, Edge PROVE EdgeMoves
  OBVIOUS
<1>1. bus \in Seq(Mine) /\ response_fifo \in Seq(Mine)
  BY DEF MasterInv, AllMine
<1>2. /\ bus = <<>> => Len(bus) = 0 /\ age' = 0
      /\ bus # <<>> => Len(bus) > 0 /\ age < MaxLatency /\ age' = age + 1
  BY <1>1 DEF Edge
<1>3. Len(bus') = Len(bus) + (IF state = "Request" THEN 1 ELSE 0) /\ bus' \in Seq(Mine)
  <2>1. CASE state = "Request"
    <3>1. access \in Mine
      BY <2>1 DEF MasterInv, Shape, Mine
    <3> QED BY <1>1, <2>1, <3>1 DEF Edge, Issues, dmm_stb
  <2>2. CASE state # "Request"
    BY <1>1, <2>2 DEF Edge, Issues, dmm_stb
  <2> QED BY <2>1, <2>2
<1>4. /\ response_fifo' \in Seq(Mine) /\ Len(response_fifo') \in Nat
      /\ \/ /\ response_fifo = <<>> /\ response_fifo' = <<>> /\ ~dmm_resp'
            /\ Len(response_fifo) = 0 /\ Len(response_fifo') = 0
         \/ /\ response_fifo # <<>> /\ dmm_resp' /\ dmm_rdata' = access
            /\ Len(response_fifo) > 0 /\ Len(response_fifo') = Len(response_fifo) - 1
      /\ dmm_resp' \in BOOLEAN
  <2>1. CASE response_fifo = <<>>
    <3>1. response_fifo' = <<>> /\ dmm_resp' = FALSE
      BY <2>1 DEF Edge, Respond
    <3>2. Len(response_fifo) = 0 /\ Len(response_fifo') = 0 /\ response_fifo' \in Seq(Mine)
      BY <2>1, <3>1
    <3> QED BY <2>1, <3>1, <3>2
  <2>2. CASE response_fifo # <<>>
    <3>1. Head(response_fifo) = access /\ Len(response_fifo) > 0
      BY <1>1, <2>2 DEF Mine
    <3>2. /\ response_fifo' = Tail(response_fifo) /\ dmm_resp' = TRUE
          /\ dmm_rdata' = Head(response_fifo)
      BY <2>2 DEF Edge, Respond
    <3>3. /\ Len(response_fifo') = Len(response_fifo) - 1 /\ Len(response_fifo') \in Nat
          /\ response_fifo' \in Seq(Mine)
      BY <1>1, <2>2, <3>1, <3>2
    <3> QED BY <2>2, <3>1, <3>2, <3>3
  <2> QED BY <2>1, <2>2
<1>5. dmm_rdata' \in 0 .. access
  <2>1. CASE response_fifo = <<>>
    BY <2>1 DEF Edge, Respond, MasterInv, Shape
  <2>2. CASE response_fifo # <<>>
    <3>1. access \in Nat
      BY GapLength DEF MasterInv, Shape
    <3> QED BY <1>4, <2>2, <3>1
  <2> QED BY <2>1, <2>2
<1>6. age' \in 0 .. MaxLatency
  BY <1>2, GapLength DEF MasterInv, Shape
<1> QED BY <1>1, <1>2, <1>3, <1>4, <1>5, <1>6 DEF EdgeMoves

\* An access begins with both queues empty, so the first answer is its own.
LEMMA StartKeepsMaster == MasterInv /\ Edge /\ Start => MasterInv'
<1> SUFFICES ASSUME MasterInv, Edge, Start PROVE MasterInv'
  OBVIOUS
<1>0. EdgeMoves
  BY EdgeQueues
<1>1. /\ state = "Idle" /\ idle = Gap /\ access < MaxAccesses
      /\ state' = "Request" /\ access' = access + 1 /\ idle' = 0 /\ taken' = taken
  BY DEF Start
<1>2. Len(bus) = 0 /\ Len(response_fifo) = 0
  BY <1>1, <1>0, GapLength DEF MasterInv, Shape, Draining, EdgeMoves
<1>3. bus = <<>> /\ response_fifo = <<>>
  BY <1>2, <1>0 DEF EdgeMoves
<1>4. bus' = <<>> /\ response_fifo' = <<>> /\ dmm_resp' = FALSE /\ age' = 0 /\ dmm_rdata' = dmm_rdata
  BY <1>1, <1>3 DEF Edge, Respond, Issues, dmm_stb
<1>5. Shape'
  <2>1. access \in 0 .. MaxAccesses /\ taken \in 0 .. access /\ dmm_rdata \in 0 .. access
    BY DEF MasterInv, Shape
  <2>2. access' \in 0 .. MaxAccesses /\ access' # 0 /\ taken' \in 0 .. access' /\ dmm_rdata' \in 0 .. access'
    BY <1>1, <1>4, <2>1, GapLength
  <2>3. idle' \in 0 .. Gap /\ age' \in 0 .. MaxLatency
    BY <1>1, <1>4, GapLength
  <2> QED BY <1>1, <1>4, <2>2, <2>3 DEF Shape
<1>6. AllMine' /\ Counted'
  BY <1>1, <1>4, GapLength DEF AllMine, Counted
<1>7. Draining' /\ AnswerIsOwn'
  BY <1>1 DEF Draining, AnswerIsOwn
<1> QED BY <1>5, <1>6, <1>7 DEF MasterInv

\* An idle edge brings every answer that is left one edge nearer.
LEMMA IdleKeepsMaster == MasterInv /\ Edge /\ StayIdle => MasterInv'
<1> SUFFICES ASSUME MasterInv, Edge, StayIdle PROVE MasterInv'
  OBVIOUS
<1>0. EdgeMoves
  BY EdgeQueues
<1>1. /\ state = "Idle" /\ state' = "Idle" /\ access' = access /\ taken' = taken
      /\ idle \in 0 .. Gap /\ idle' = IF idle < Gap THEN idle + 1 ELSE Gap
  BY DEF StayIdle, MasterInv, Shape
<1>2. Shape' /\ AnswerIsOwn'
  <2>1. idle' \in 0 .. Gap
    BY <1>1, GapLength
  <2>2. dmm_resp' \in BOOLEAN
    BY <1>0 DEF EdgeMoves
  <2> QED BY <1>1, <2>1, <2>2, <1>0 DEF MasterInv, Shape, AnswerIsOwn, EdgeMoves
<1>3. AllMine'
  <2>1. dmm_resp' => dmm_rdata' = access
    BY <1>0 DEF EdgeMoves
  <2>2. Mine' = Mine
    BY <1>1 DEF Mine
  <2> QED BY <1>1, <2>1, <2>2, <1>0 DEF AllMine, EdgeMoves
<1>4. Len(bus') = Len(bus)
  BY <1>1, <1>0 DEF EdgeMoves
<1>5. Counted'
  BY <1>1, <1>4, <1>0, GapLength DEF MasterInv, Counted, EdgeMoves
<1>6. Draining'
  <2>1. Service(Len(bus)) \in Nat /\ (bus # <<>> => Service(Len(bus)) >= Len(bus) + MaxLatency - 1)
    BY <1>0, ServiceTime, GapLength DEF MasterInv, Shape, EdgeMoves
  <2>2. age \in Nat /\ Service(Len(bus')) = Service(Len(bus))
    BY <1>4, GapLength DEF MasterInv, Shape
  <2>3. bus' = bus
    BY <1>1 DEF Edge, Issues, dmm_stb
  <2>4. CASE idle = Gap
    <3>1. Len(bus) = 0 /\ Len(response_fifo) = 0
      BY <1>1, <2>4, <1>0, GapLength DEF MasterInv, Draining, EdgeMoves
    <3>2. bus = <<>> /\ Len(response_fifo') = 0 /\ idle' = Gap
      BY <1>1, <2>4, <3>1, <1>0, GapLength DEF EdgeMoves
    <3> QED BY <1>1, <1>4, <2>3, <3>1, <3>2, GapLength DEF Draining
  <2>5. CASE idle < Gap
    <3>1. idle' = idle + 1
      BY <1>1, <2>5
    <3>2. bus' # <<>> => Service(Len(bus')) - age' + 1 <= Gap - idle'
      BY <1>1, <2>1, <2>2, <2>3, <3>1, <1>0, GapLength DEF MasterInv, Draining, EdgeMoves
    <3>3. Len(bus') + Len(response_fifo') <= Gap - idle'
      BY <1>1, <1>4, <2>1, <2>2, <2>5, <3>1, <1>0, GapLength DEF MasterInv, Draining, EdgeMoves
    <3> QED BY <3>2, <3>3 DEF Draining
  <2> QED BY <1>1, <2>4, <2>5, GapLength
<1> QED BY <1>2, <1>3, <1>5, <1>6 DEF MasterInv

\* The strobe issues a transaction at every edge until the first answer is seen.
LEMMA GrantKeepsMaster == MasterInv /\ Edge /\ Grant => MasterInv'
<1> SUFFICES ASSUME MasterInv, Edge, Grant PROVE MasterInv'
  OBVIOUS
<1>0. EdgeMoves
  BY EdgeQueues
<1>1. /\ state = "Request" /\ state' = IF dmm_resp THEN "Wait" ELSE "Request"
      /\ access' = access /\ idle' = idle /\ taken' = taken
  BY DEF Grant
<1>2. state' # "Idle" /\ state' \in {"Wait", "Request"}
  BY <1>1
<1>3. Shape'
  <2>1. dmm_resp' \in BOOLEAN
    BY <1>0 DEF EdgeMoves
  <2> QED BY <1>1, <1>2, <2>1, <1>0 DEF MasterInv, Shape, EdgeMoves
<1>4. AllMine'
  <2>1. dmm_resp' => dmm_rdata' = access
    BY <1>0 DEF EdgeMoves
  <2>2. Mine' = Mine
    BY <1>1 DEF Mine
  <2> QED BY <1>1, <2>1, <2>2, <1>0 DEF AllMine, EdgeMoves
<1>5. Counted'
  <2>0. /\ Len(bus) \in Nat /\ Len(response_fifo) \in Nat /\ age \in Nat /\ MaxLatency \in Nat
        /\ Len(bus') = Len(bus) + 1 /\ dmm_resp \in BOOLEAN
    BY <1>1, <1>0, GapLength DEF MasterInv, Shape, EdgeMoves
  <2>1. CASE dmm_resp
    <3>1. state' = "Wait" /\ Len(bus) + Len(response_fifo) <= MaxLatency + 1
      BY <1>1, <2>1 DEF MasterInv, Counted
    <3> QED BY <2>0, <3>1, <1>0 DEF Counted, EdgeMoves
  <2>2. CASE ~dmm_resp /\ response_fifo # <<>>
    <3>1. state' = "Request" /\ Len(bus) + Len(response_fifo) <= MaxLatency + 1
      BY <1>1, <2>2 DEF MasterInv, Counted
    <3> QED BY <2>0, <2>2, <3>1, <1>0 DEF Counted, EdgeMoves
  <2>3. CASE ~dmm_resp /\ response_fifo = <<>>
    <3>1. state' = "Request" /\ Len(bus) <= age + 1
      BY <1>1, <2>3 DEF MasterInv, Counted
    <3>2. Len(bus') <= age' + 1 /\ Len(response_fifo') = 0 /\ dmm_resp' = FALSE
      BY <2>0, <2>3, <3>1, <1>0 DEF EdgeMoves
    <3>3. response_fifo' = <<>>
      BY <3>2, <1>0 DEF EdgeMoves
    <3> QED BY <3>1, <3>2, <3>3 DEF Counted
  <2> QED BY <2>0, <2>1, <2>2, <2>3
<1>6. Draining' /\ AnswerIsOwn'
  BY <1>2 DEF Draining, AnswerIsOwn
<1> QED BY <1>3, <1>4, <1>5, <1>6 DEF MasterInv

\* When the second answer is seen the rest still fit into the gap.
LEMMA ValidKeepsMaster == MasterInv /\ Edge /\ Valid => MasterInv'
<1> SUFFICES ASSUME MasterInv, Edge, Valid PROVE MasterInv'
  OBVIOUS
<1>0. EdgeMoves
  BY EdgeQueues
<1>1. /\ state = "Wait" /\ state' = IF dmm_resp THEN "Idle" ELSE "Wait"
      /\ taken' = IF dmm_resp THEN dmm_rdata ELSE taken
      /\ access' = access /\ idle' = idle /\ idle = 0
  BY DEF Valid, MasterInv, Shape
<1>2. Shape' /\ AnswerIsOwn'
  <2>1. dmm_resp' \in BOOLEAN
    BY <1>0 DEF EdgeMoves
  <2>2. dmm_resp => dmm_rdata = access
    BY DEF MasterInv, AllMine
  <2>3. taken' \in 0 .. access
    BY <1>1 DEF MasterInv, Shape
  <2> QED BY <1>1, <2>1, <2>2, <2>3, <1>0, GapLength DEF MasterInv, Shape, AnswerIsOwn, EdgeMoves
<1>3. AllMine'
  <2>1. dmm_resp' => dmm_rdata' = access
    BY <1>0 DEF EdgeMoves
  <2>2. Mine' = Mine
    BY <1>1 DEF Mine
  <2> QED BY <1>1, <2>1, <2>2, <1>0 DEF AllMine, EdgeMoves
<1>4. /\ Len(bus) \in Nat /\ Len(response_fifo) \in Nat /\ MaxLatency \in Nat /\ Gap \in Nat
      /\ Len(bus') = Len(bus) /\ Len(response_fifo') \in Nat /\ age' \in Nat
  BY <1>1, <1>0, GapLength DEF EdgeMoves
<1>5. CASE dmm_resp
  <2>1. state' = "Idle" /\ Len(bus) + Len(response_fifo) <= MaxLatency + 1
    BY <1>1, <1>5 DEF MasterInv, Counted
  <2>2. Len(bus') + Len(response_fifo') <= MaxLatency + 1
    BY <1>4, <2>1, <1>0 DEF EdgeMoves
  <2>3. Service(Len(bus')) \in Nat /\ Service(Len(bus')) < Gap
    BY <1>4, <2>2, ServiceTime
  <2>4. Draining'
    BY <1>1, <1>4, <2>2, <2>3, GapLength DEF Draining
  <2>5. Counted'
    BY <2>1, <2>2 DEF Counted
  <2> QED BY <1>2, <1>3, <2>4, <2>5 DEF MasterInv
<1>6. CASE ~dmm_resp
  <2>1. state' = "Wait" /\ Len(bus) + Len(response_fifo) <= MaxLatency + 2
    BY <1>1, <1>6 DEF MasterInv, Counted
  <2>2. Counted'
    BY <1>4, <2>1, <1>0 DEF Counted, EdgeMoves
  <2>3. Draining'
    BY <2>1 DEF Draining
  <2> QED BY <1>2, <1>3, <2>2, <2>3 DEF MasterInv
<1> QED BY <1>5, <1>6

LEMMA NextKeepsMaster == MasterInv /\ [MasterNext]_masterVars => MasterInv'
<1> SUFFICES ASSUME MasterInv, [MasterNext]_masterVars PROVE MasterInv'
  OBVIOUS
<1>1. CASE Edge
  <2>1. Start \/ StayIdle \/ Grant \/ Valid
    BY <1>1 DEF Edge
  <2> QED BY <1>1, <2>1, StartKeepsMaster, IdleKeepsMaster, GrantKeepsMaster, ValidKeepsMaster
<1>2. CASE Answer
  BY <1>2, AnswerKeepsMaster
<1>3. CASE UNCHANGED masterVars
  BY <1>3 DEF masterVars, MasterInv, Shape, AllMine, Mine, Counted, Draining, AnswerIsOwn
<1> QED BY <1>1, <1>2, <1>3 DEF MasterNext

LEMMA MasterInvariant == MasterSpec => []MasterInv
BY InitMaster, NextKeepsMaster, PTL DEF MasterSpec

\* An access ends with an answer to one of its own transactions, for every
\* latency of the bus and every gap that is long enough for it.
THEOREM AnswersAreOwn == MasterSpec => []AnswerIsOwn
<1>1. MasterInv => AnswerIsOwn
  BY DEF MasterInv
<1> QED BY <1>1, MasterInvariant, PTL

\* However long the debug module polls, no more than MaxLatency + 2
\* transactions are ever under way.
THEOREM TransactionsBounded == MasterSpec => []IssueBound
<1>1. MasterInv => IssueBound
  <2> SUFFICES ASSUME MasterInv PROVE IssueBound
    OBVIOUS
  <2>1. /\ Len(bus) \in Nat /\ Len(response_fifo) \in Nat /\ age \in 0 .. MaxLatency
        /\ MaxLatency \in Nat
        /\ response_fifo = <<>> => Len(response_fifo) = 0
    BY GapLength DEF MasterInv, Shape, AllMine
  <2>2. Len(bus) + Len(response_fifo) <= MaxLatency + 2
    BY <2>1 DEF MasterInv, Shape, Counted
  <2> QED BY <2>2 DEF IssueBound
<1> QED BY <1>1, MasterInvariant, PTL

\* The port's registers keep their types, and every transaction under way
\* was issued for an access that has begun.
THEOREM MasterTypeCorrect == MasterSpec => []MasterTypeOK
<1>1. MasterInv => MasterTypeOK
  <2> SUFFICES ASSUME MasterInv PROVE MasterTypeOK
    OBVIOUS
  <2>1. Mine \subseteq 1 .. access
    BY GapLength DEF MasterInv, Shape, Mine
  <2>2. bus \in Seq(1 .. access) /\ response_fifo \in Seq(1 .. access)
    <3>1. ASSUME NEW q \in Seq(Mine) PROVE q \in Seq(1 .. access)
      <4>1. /\ Len(q) \in Nat /\ q = [i \in 1 .. Len(q) |-> q[i]]
            /\ \A i \in 1 .. Len(q) : q[i] \in 1 .. access
        BY <2>1
      <4> DEFINE n == Len(q)
      <4> HIDE DEF n
      <4>2. [i \in 1 .. n |-> q[i]] \in Seq(1 .. access)
        BY <4>1 DEF n
      <4> QED BY <4>1, <4>2 DEF n
    <3> QED BY <3>1 DEF MasterInv, AllMine
  <2> QED BY <2>2 DEF MasterInv, Shape, MasterTypeOK
<1> QED BY <1>1, MasterInvariant, PTL
=============================================================================
