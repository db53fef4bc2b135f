-------------------------- MODULE UartTargetProofs --------------------------
(***************************************************************************)
(* The uart implements AtomicTarget, whatever the transactions, the values *)
(* of the device and the delays of its acknowledgements.                   *)
(***************************************************************************)
EXTENDS UartTarget, DataLemmas

\* The uart's registers and fifos have their types; the part of TypeOK that
\* says nothing about pointers.
Typed ==
  /\ request_fifo \in Seq(Transaction) /\ response_fifo \in Seq(Transaction)
  /\ transaction_ptr \in Transaction \cup {NULL}
  /\ wb_stb \in BOOLEAN /\ wb_we \in BOOLEAN /\ wb_ack \in BOOLEAN /\ wb_busy \in BOOLEAN
  /\ wb_wdata \in Values /\ wb_rdata \in Values /\ wb_result \in Values /\ device \in Values

IInv == Typed /\ IsInjective(Pointers) /\ OnePhase

\* What the steps need to know of the data.
LEMMA DataTypes ==
  /\ 0 \in Values
  /\ \A d \in Values : (d + 1) % NumValues \in Values
  /\ \A r \in Transaction : r # NULL /\ r.ptr \in Ptrs /\ r.data \in Values
                              /\ (r.command = "read" \/ r.command = "write")
  /\ \A r \in Transaction, d \in Values :
       [r EXCEPT !.data = d] \in Transaction /\ [r EXCEPT !.data = d].ptr = r.ptr
  BY UartTargetAssumption DEF Values, Transaction

\* The transaction on the wishbone is strobed, waiting or acknowledged, and
\* without one the wishbone is quiet.
LEMMA Phases ==
  ASSUME IInv
  PROVE  \/ transaction_ptr = NULL /\ ~wb_stb /\ ~wb_busy /\ ~wb_ack
         \/ transaction_ptr \in Transaction /\ wb_stb /\ ~wb_busy /\ ~wb_ack
         \/ transaction_ptr \in Transaction /\ ~wb_stb /\ wb_busy /\ ~wb_ack
         \/ transaction_ptr \in Transaction /\ ~wb_stb /\ ~wb_busy /\ wb_ack
  BY DataTypes DEF IInv, Typed, OnePhase

LEMMA SlotTyped ==
  ASSUME NEW r \in Transaction \cup {NULL}
  PROVE  Slot(r) \in Seq(Transaction)
  BY EmptySeq, Singleton DEF Slot

LEMMA InTargetTyped ==
  ASSUME Typed
  PROVE  InTarget \in Seq(Transaction)
<1>1. Slot(transaction_ptr) \in Seq(Transaction)
  BY SlotTyped DEF Typed
<1>2. response_fifo \o Slot(transaction_ptr) \in Seq(Transaction)
  BY <1>1, ConcatProperties DEF Typed
<1>3. QED
  BY <1>2, ConcatProperties DEF Typed, InTarget

\* The answer is the transaction itself, with the data of its own execution.
LEMMA Answer ==
  ASSUME IInv, transaction_ptr \in Transaction
  PROVE  /\ Completed(transaction_ptr) \in Transaction
         /\ Finished(transaction_ptr) \in Transaction
         /\ Completed(transaction_ptr).ptr = transaction_ptr.ptr
         /\ wb_ack => Completed(transaction_ptr) = Finished(transaction_ptr)
  BY DataTypes DEF IInv, Typed, OnePhase, Completed, Finished

-----------------------------------------------------------------------------
\* The bus's two steps leave the wishbone alone.
LEMMA DeliverKeepsInv ==
  ASSUME IInv, NEW r \in Transaction, Deliver(r)
  PROVE  IInv'
<1>1. Typed'
  BY AppendProperties DEF IInv, Typed, Deliver
<1>2. InTarget' = Append(InTarget, r)
  <2> DEFINE front == response_fifo \o Slot(transaction_ptr)
  <2>1. Slot(transaction_ptr) \in Seq(Transaction)
    BY SlotTyped DEF IInv, Typed
  <2>2. front \in Seq(Transaction)
    BY <2>1, ConcatProperties DEF IInv, Typed
  <2>3. request_fifo \in Seq(Transaction) /\ InTarget = front \o request_fifo
        /\ InTarget' = front \o Append(request_fifo, r)
    BY DEF Deliver, InTarget, Slot, IInv, Typed
  <2> HIDE DEF front
  <2>4. <<r>> \in Seq(Transaction) /\ front \o request_fifo \in Seq(Transaction)
    BY <2>2, <2>3, ConcatProperties, Singleton
  <2>5. /\ Append(request_fifo, r) = request_fifo \o <<r>>
        /\ Append(front \o request_fifo, r) = (front \o request_fifo) \o <<r>>
    BY <2>3, <2>4, AppendIsConcat
  <2>6. (front \o request_fifo) \o <<r>> = front \o (request_fifo \o <<r>>)
    BY <2>2, <2>3, <2>4, ConcatAssociative
  <2>7. QED
    BY <2>3, <2>5, <2>6
<1>3. IsInjective(Pointers)'
  <2>1. InTarget \in Seq(Transaction) /\ IsInjective(PointersOf(InTarget))
    BY InTargetTyped DEF IInv, Pointers, PointersOf
  <2>2. \A n \in DOMAIN InTarget : InTarget[n].ptr # r.ptr
    BY DEF Deliver, Free, Pointers
  <2>3. IsInjective(PointersOf(Append(InTarget, r)))
    BY <2>1, <2>2, AppendKeepsDistinct
  <2>4. QED
    BY <1>2, <2>3 DEF Pointers, PointersOf
<1>4. OnePhase'
  BY DEF IInv, OnePhase, Deliver
<1>5. QED
  BY <1>1, <1>3, <1>4 DEF IInv

LEMMA ReturnKeepsInv ==
  ASSUME IInv, Return
  PROVE  IInv'
<1>1. Typed'
  BY HeadTailProperties DEF IInv, Typed, Return
<1>2. InTarget # <<>> /\ InTarget' = Tail(InTarget)
  <2> DEFINE slot == Slot(transaction_ptr)
  <2>1. slot \in Seq(Transaction)
    BY SlotTyped DEF IInv, Typed
  <2> HIDE DEF slot
  <2>2. /\ response_fifo \in Seq(Transaction) /\ response_fifo # <<>>
        /\ request_fifo \in Seq(Transaction)
    BY DEF IInv, Typed, Return
  <2>3. /\ response_fifo \o slot # <<>>
        /\ Tail(response_fifo \o slot) = Tail(response_fifo) \o slot
        /\ response_fifo \o slot \in Seq(Transaction)
    BY <2>1, <2>2, TakeFromFirst, ConcatProperties
  <2>4. /\ (response_fifo \o slot) \o request_fifo # <<>>
        /\ Tail((response_fifo \o slot) \o request_fifo)
             = (Tail(response_fifo) \o slot) \o request_fifo
    BY <2>2, <2>3, TakeFromFirst
  <2>5. QED
    BY <2>4 DEF Return, InTarget, Slot, slot
<1>3. IsInjective(Pointers)'
  <2>1. InTarget \in Seq(Transaction) /\ IsInjective(PointersOf(InTarget))
    BY InTargetTyped DEF IInv, Pointers, PointersOf
  <2>2. IsInjective(PointersOf(Tail(InTarget)))
    BY <1>2, <2>1, TailKeepsDistinct
  <2>3. QED
    BY <1>2, <2>2 DEF Pointers, PointersOf
<1>4. OnePhase'
  BY DEF IInv, OnePhase, Return
<1>5. QED
  BY <1>1, <1>3, <1>4 DEF IInv

-----------------------------------------------------------------------------
\* What the edge does to the two fifos and to the transaction between them.
LEMMA ClockMoves ==
  ASSUME IInv, NEW ack \in BOOLEAN, Clock(ack)
  PROVE  /\ Slot(transaction_ptr)' \o request_fifo'
              = (IF Answered THEN <<>> ELSE Slot(transaction_ptr)) \o request_fifo
         /\ response_fifo' = response_fifo \o
              (IF Answered THEN <<Completed(transaction_ptr)>> ELSE <<>>)
         /\ wb_stb' => transaction_ptr' # NULL /\ (transaction_ptr = NULL \/ Answered)
<1>1. CASE Accepts
  <2>1. /\ transaction_ptr' = Head(request_fifo) /\ request_fifo' = Tail(request_fifo)
        /\ request_fifo # <<>> /\ request_fifo \in Seq(Transaction)
        /\ transaction_ptr = NULL \/ Answered
    BY <1>1 DEF Clock, Accepts, IInv, Typed
  <2>2. Head(request_fifo) \in Transaction /\ Head(request_fifo) # NULL
    BY <2>1, HeadTailProperties, DataTypes
  <2>3. Slot(transaction_ptr)' \o request_fifo' = request_fifo
    BY <2>1, <2>2, HeadThenTail DEF Slot
  <2>4. <<>> \o request_fifo = request_fifo
    BY <2>1, ConcatEmptySeq
  <2>5. (IF Answered THEN <<>> ELSE Slot(transaction_ptr)) = <<>>
    BY <2>1 DEF Slot
  <2>6. response_fifo' = response_fifo \o
          (IF Answered THEN <<Completed(transaction_ptr)>> ELSE <<>>)
    BY AppendIsConcat, ConcatEmptySeq, Answer, Phases DEF Clock, Answered, IInv, Typed
  <2>7. QED
    BY <2>1, <2>2, <2>3, <2>4, <2>5, <2>6
<1>2. CASE ~Accepts
  <2>1. /\ transaction_ptr' = (IF Answered THEN NULL ELSE transaction_ptr)
        /\ request_fifo' = request_fifo /\ wb_stb' = FALSE
    BY <1>2 DEF Clock, Released, Strobe, Accepts
  <2>2. Slot(transaction_ptr)' = IF Answered THEN <<>> ELSE Slot(transaction_ptr)
    BY <2>1 DEF Slot
  <2>3. response_fifo' = response_fifo \o
          (IF Answered THEN <<Completed(transaction_ptr)>> ELSE <<>>)
    BY AppendIsConcat, ConcatEmptySeq, Answer, Phases DEF Clock, Answered, IInv, Typed
  <2>4. QED
    BY <2>1, <2>2, <2>3
<1>3. QED
  BY <1>1, <1>2

LEMMA ClockKeepsTypes ==
  ASSUME IInv, NEW ack \in BOOLEAN, Clock(ack)
  PROVE  Typed'
<1>1. response_fifo' \in Seq(Transaction)
  BY AppendProperties, Answer, Phases DEF Clock, Answered, IInv, Typed
<1>2. /\ request_fifo' \in Seq(Transaction)
      /\ transaction_ptr' \in Transaction \cup {NULL}
      /\ wb_we' \in BOOLEAN /\ wb_wdata' \in Values
  <2>1. CASE Accepts
    <3>1. Head(request_fifo) \in Transaction /\ Tail(request_fifo) \in Seq(Transaction)
      BY <2>1, HeadTailProperties DEF Accepts, IInv, Typed
    <3>2. QED
      BY <2>1, <3>1, DataTypes DEF Clock, IInv, Typed
  <2>2. CASE ~Accepts
    BY <2>2 DEF Clock, Released, IInv, Typed
  <2>3. QED
    BY <2>1, <2>2
<1>3. wb_result' \in Values /\ device' \in Values /\ wb_rdata' \in Values
  <2>1. wb_result' \in Values /\ device' \in Values
    BY DataTypes DEF Clock, WbuartStep, IInv, Typed
  <2>2. QED
    BY <2>1 DEF Clock, WbuartStep
<1>4. wb_stb' \in BOOLEAN /\ wb_ack' \in BOOLEAN /\ wb_busy' \in BOOLEAN
  BY DEF Clock, WbuartStep, Strobe, Accepts
<1>5. QED
  BY <1>1, <1>2, <1>3, <1>4 DEF Typed

\* The edge moves transactions along, it does not change which there are.
LEMMA ClockKeepsPointers ==
  ASSUME IInv, NEW ack \in BOOLEAN, Clock(ack)
  PROVE  PointersOf(InTarget') = PointersOf(InTarget)
<1> DEFINE slot == Slot(transaction_ptr)
           kept == IF Answered THEN <<>> ELSE slot
           answer == IF Answered THEN <<Completed(transaction_ptr)>> ELSE <<>>
<1>1. slot \in Seq(Transaction) /\ kept \in Seq(Transaction) /\ answer \in Seq(Transaction)
  BY SlotTyped, EmptySeq, Singleton, Answer, Phases DEF IInv, Typed, Answered
<1>2. /\ request_fifo \in Seq(Transaction) /\ response_fifo \in Seq(Transaction)
      /\ request_fifo' \in Seq(Transaction) /\ response_fifo' \in Seq(Transaction)
      /\ slot' \in Seq(Transaction)
  BY ClockKeepsTypes, SlotTyped DEF IInv, Typed, Slot
<1>3. slot' \o request_fifo' = kept \o request_fifo /\ response_fifo' = response_fifo \o answer
  BY ClockMoves
<1>4. InTarget = (response_fifo \o slot) \o request_fifo
      /\ InTarget' = (response_fifo' \o slot') \o request_fifo'
  BY DEF InTarget, Slot
<1>5. Answered => /\ kept = <<>> /\ slot = <<transaction_ptr>>
                  /\ answer = <<Completed(transaction_ptr)>>
  BY DataTypes, Phases DEF Answered, Slot
<1>6. ~Answered => kept = slot /\ answer = <<>>
  OBVIOUS
<1> HIDE DEF slot, kept, answer
<1>7. InTarget' = (response_fifo \o answer) \o (kept \o request_fifo)
  <2>1. (response_fifo' \o slot') \o request_fifo' = response_fifo' \o (slot' \o request_fifo')
    BY <1>2, ConcatAssociative
  <2>2. QED
    BY <1>3, <1>4, <2>1
<1>8. CASE Answered
  <2>1. InTarget' = (response_fifo \o <<Completed(transaction_ptr)>>) \o request_fifo
    BY <1>2, <1>5, <1>7, <1>8, ConcatEmptySeq
  <2>2. InTarget = (response_fifo \o <<transaction_ptr>>) \o request_fifo
    BY <1>4, <1>5, <1>8
  <2>3. /\ transaction_ptr \in Transaction /\ Completed(transaction_ptr) \in Transaction
        /\ Completed(transaction_ptr).ptr = transaction_ptr.ptr
    BY <1>8, Answer, Phases DEF Answered
  <2>4. QED
    BY <1>2, <2>1, <2>2, <2>3, AnswerKeepsPointers
<1>9. CASE ~Answered
  <2>1. InTarget' = response_fifo \o (slot \o request_fifo)
    BY <1>2, <1>6, <1>7, <1>9, ConcatEmptySeq
  <2>2. (response_fifo \o slot) \o request_fifo = response_fifo \o (slot \o request_fifo)
    <3>1. /\ slot \in Seq(Transaction) /\ request_fifo \in Seq(Transaction)
          /\ response_fifo \in Seq(Transaction)
      BY <1>1, <1>2
    <3>2. QED
      BY <3>1, ConcatAssociative
  <2>3. QED
    BY <1>4, <2>1, <2>2
<1>10. QED
  BY <1>8, <1>9

LEMMA ClockKeepsInv ==
  ASSUME IInv, NEW ack \in BOOLEAN, Clock(ack)
  PROVE  IInv'
<1>1. Typed'
  BY ClockKeepsTypes
<1>2. IsInjective(Pointers)'
  <2>1. Pointers = PointersOf(InTarget) /\ Pointers' = PointersOf(InTarget')
    BY DEF Pointers, PointersOf
  <2>2. QED
    BY <2>1, ClockKeepsPointers DEF IInv
<1>3. OnePhase'
  <2>1. CASE Accepts
    <3>1. request_fifo # <<>> /\ Head(request_fifo) \in Transaction
      BY <2>1, HeadTailProperties DEF Accepts, IInv, Typed
    <3>2. /\ transaction_ptr' # NULL /\ wb_stb'
          /\ wb_we' <=> transaction_ptr'.command = "write"
          /\ wb_we' => wb_wdata' = transaction_ptr'.data
      BY <2>1, <3>1, DataTypes DEF Clock, Strobe
    <3>3. ~wb_stb /\ ~wb_busy
      BY <2>1, Phases, DataTypes DEF Accepts, Answered
    <3>4. ~wb_busy' /\ ~wb_ack'
      BY <3>3 DEF Clock, WbuartStep
    <3>5. QED
      BY <3>2, <3>4 DEF OnePhase
  <2>2. CASE ~Accepts
    <3>1. ~wb_stb' /\ transaction_ptr' = IF Answered THEN NULL ELSE transaction_ptr
      BY <2>2 DEF Clock, Strobe, Released
    <3>2. wb_ack' => wb_rdata' = wb_result'
      BY DEF Clock, WbuartStep
    <3>3. /\ wb_ack' => wb_stb \/ wb_busy
          /\ wb_busy' <=> (wb_stb \/ wb_busy) /\ ~wb_ack'
          /\ wb_stb \/ wb_busy => wb_ack' \/ wb_busy'
      BY DEF Clock, WbuartStep
    <3>4. QED
      BY <3>1, <3>2, <3>3, Phases, DataTypes DEF OnePhase, Answered
  <2>3. QED
    BY <2>1, <2>2
<1>4. QED
  BY <1>1, <1>2, <1>3 DEF IInv

-----------------------------------------------------------------------------
\* Types, distinct pointers and phases together are inductive.
THEOREM Invariance == Spec => []IInv
<1>1. Init => IInv
  <2> SUFFICES ASSUME Init
               PROVE  IInv
    OBVIOUS
  <2>1. Typed
    BY DataTypes, EmptySeq DEF Init, Typed
  <2>2. InTarget = <<>>
    BY ConcatEmptySeq, EmptySeq DEF Init, InTarget, Slot
  <2>3. IsInjective(Pointers)
    BY <2>2 DEF IsInjective, Pointers
  <2>4. OnePhase
    BY DEF Init, OnePhase
  <2>5. QED
    BY <2>1, <2>3, <2>4 DEF IInv
<1>2. IInv /\ [Next]_vars => IInv'
  <2> SUFFICES ASSUME IInv, [Next]_vars
               PROVE  IInv'
    OBVIOUS
  <2>1. CASE UNCHANGED vars
    BY <2>1 DEF vars, IInv, Typed, OnePhase, Pointers, InTarget, Slot
  <2>2. ASSUME NEW r \in Transaction, Deliver(r)
        PROVE  IInv'
    BY <2>2, DeliverKeepsInv
  <2>3. CASE Return
    BY <2>3, ReturnKeepsInv
  <2>4. ASSUME NEW ack \in BOOLEAN, Clock(ack)
        PROVE  IInv'
    BY <2>4, ClockKeepsInv
  <2>5. QED
    BY <2>1, <2>2, <2>3, <2>4 DEF Next
<1>3. QED
  BY <1>1, <1>2, PTL DEF Spec

\* The registers and fifos of the uart keep their types, and no transaction
\* is in two of them.
THEOREM TypeCorrect == Spec => []TypeOK
<1>1. IInv => TypeOK
  BY DEF IInv, Typed, TypeOK
<1>2. QED
  BY <1>1, Invariance, PTL

\* An acknowledgement always belongs to the transaction on the wishbone.
THEOREM PhaseCorrect == Spec => []OnePhase
<1>1. IInv => OnePhase
  BY DEF IInv
<1>2. QED
  BY <1>1, Invariance, PTL

-----------------------------------------------------------------------------
(* The refinement.                                                         *)

\* The two abstract queues.
Waiting == (IF wb_stb THEN Slot(transaction_ptr) ELSE <<>>) \o request_fifo
Done == response_fifo \o
          (IF transaction_ptr = NULL \/ wb_stb THEN <<>> ELSE <<Finished(transaction_ptr)>>)

\* A strobe is the execution of the transaction on the wishbone.
LEMMA StrobeExecutes ==
  ASSUME IInv, NEW ack \in BOOLEAN, Clock(ack), wb_stb
  PROVE  Abstract!Execute
<1>1. /\ transaction_ptr \in Transaction /\ transaction_ptr # NULL /\ ~wb_busy /\ ~wb_ack
      /\ request_fifo \in Seq(Transaction) /\ response_fifo \in Seq(Transaction)
  BY Phases, DataTypes DEF IInv, Typed
<1>2. /\ request_fifo' = request_fifo /\ response_fifo' = response_fifo
      /\ transaction_ptr' = transaction_ptr /\ ~wb_stb'
  BY <1>1 DEF Clock, Answered, Accepts, Released, Strobe
<1>3. Finished(transaction_ptr)' = Abstract!Executed(device, transaction_ptr)
      /\ Finished(transaction_ptr)' \in Transaction
  <2>1. CASE transaction_ptr.command = "read"
    <3>1. wb_result' = device /\ device \in Values
      BY <2>1 DEF Clock, WbuartStep, IInv, Typed, OnePhase
    <3>2. QED
      BY <1>1, <1>2, <2>1, <3>1, DataTypes DEF Finished, Abstract!Executed
  <2>2. CASE transaction_ptr.command = "write"
    BY <1>1, <1>2, <2>2 DEF Finished, Abstract!Executed
  <2>3. QED
    BY <1>1, <2>1, <2>2, DataTypes
<1>4. device' = Abstract!Effect(device, transaction_ptr)
  BY <1>1, DataTypes DEF Clock, WbuartStep, Abstract!Effect, IInv, OnePhase
<1>5. Waiting # <<>> /\ Head(Waiting) = transaction_ptr /\ Tail(Waiting) = request_fifo
  <2>1. Waiting = <<transaction_ptr>> \o request_fifo
    BY <1>1 DEF Waiting, Slot
  <2>2. /\ <<transaction_ptr>> \in Seq(Transaction) /\ <<transaction_ptr>> # <<>>
        /\ Head(<<transaction_ptr>>) = transaction_ptr /\ Tail(<<transaction_ptr>>) = <<>>
    BY <1>1
  <2>3. /\ Waiting # <<>> /\ Head(Waiting) = transaction_ptr
        /\ Tail(Waiting) = <<>> \o request_fifo
    BY <1>1, <2>1, <2>2, TakeFromFirst
  <2>4. QED
    BY <1>1, <2>3, ConcatEmptySeq
<1>6. Waiting' = request_fifo
  BY <1>1, <1>2, ConcatEmptySeq DEF Waiting
<1>7. Done' = Append(Done, Finished(transaction_ptr)')
  <2>1. Done = response_fifo
    BY <1>1, ConcatEmptySeq DEF Done
  <2>2. Done' = response_fifo \o <<Finished(transaction_ptr)'>>
    BY <1>1, <1>2 DEF Done, Finished
  <2>3. QED
    BY <1>1, <1>3, <2>1, <2>2, AppendIsConcat
<1>8. QED
  BY <1>3, <1>4, <1>5, <1>6, <1>7 DEF Abstract!Execute, Waiting, Done

\* Any other edge moves transactions, which the abstract target does not see.
LEMMA OtherEdgesStutter ==
  ASSUME IInv, NEW ack \in BOOLEAN, Clock(ack), ~wb_stb
  PROVE  UNCHANGED <<device, Waiting, Done>>
<1>1. /\ request_fifo \in Seq(Transaction) /\ response_fifo \in Seq(Transaction)
      /\ request_fifo' \in Seq(Transaction) /\ response_fifo' \in Seq(Transaction)
  BY ClockKeepsTypes DEF IInv, Typed
<1>2. UNCHANGED <<device, wb_result>>
  BY DEF Clock, WbuartStep
<1>3. Waiting = request_fifo
  BY <1>1, ConcatEmptySeq DEF Waiting
<1>4. Waiting' = request_fifo
  <2>1. CASE Accepts
    <3>1. /\ transaction_ptr' = Head(request_fifo) /\ request_fifo' = Tail(request_fifo)
          /\ wb_stb' /\ request_fifo # <<>> /\ Head(request_fifo) # NULL
      BY <1>1, <2>1, HeadTailProperties, DataTypes DEF Clock, Strobe, Accepts
    <3>2. Waiting' = <<Head(request_fifo)>> \o Tail(request_fifo)
      BY <3>1 DEF Waiting, Slot
    <3>3. QED
      BY <1>1, <3>1, <3>2, HeadThenTail
  <2>2. CASE ~Accepts
    <3>1. request_fifo' = request_fifo /\ ~wb_stb'
      BY <2>2 DEF Clock, Strobe
    <3>2. QED
      BY <1>1, <3>1, ConcatEmptySeq DEF Waiting
  <2>3. QED
    BY <2>1, <2>2
<1>5. CASE Answered
  <2>1. /\ transaction_ptr \in Transaction /\ transaction_ptr # NULL /\ wb_ack
        /\ Completed(transaction_ptr) \in Transaction
        /\ Completed(transaction_ptr) = Finished(transaction_ptr)
    BY <1>5, Phases, Answer, DataTypes DEF Answered
  <2>2. response_fifo' = response_fifo \o <<Finished(transaction_ptr)>>
    BY <1>1, <1>5, <2>1, AppendIsConcat DEF Clock
  <2>3. Done = response_fifo \o <<Finished(transaction_ptr)>>
    BY <2>1 DEF Done
  <2>4. transaction_ptr' = NULL \/ wb_stb'
    BY <1>5 DEF Clock, Strobe, Released
  <2>5. Done' = response_fifo' \o <<>>
    BY <2>4 DEF Done
  <2>6. QED
    BY <1>1, <1>2, <1>3, <1>4, <2>2, <2>3, <2>5, ConcatEmptySeq
<1>6. CASE ~Answered
  <2>1. response_fifo' = response_fifo
    BY <1>6 DEF Clock
  <2>2. CASE transaction_ptr = NULL
    <3>1. transaction_ptr' = NULL \/ wb_stb'
      BY <1>6, <2>2 DEF Clock, Strobe, Released
    <3>2. QED
      BY <1>2, <1>3, <1>4, <2>1, <2>2, <3>1 DEF Done
  <2>3. CASE transaction_ptr # NULL
    <3>1. transaction_ptr' = transaction_ptr /\ ~wb_stb'
      BY <1>6, <2>3 DEF Clock, Strobe, Released, Accepts
    <3>2. Finished(transaction_ptr)' = Finished(transaction_ptr)
      BY <1>2, <3>1 DEF Finished
    <3>3. QED
      BY <1>2, <1>3, <1>4, <2>1, <3>1, <3>2 DEF Done
  <2>4. QED
    BY <2>2, <2>3
<1>7. QED
  BY <1>5, <1>6

LEMMA DeliverArrives ==
  ASSUME IInv, NEW r \in Transaction, Deliver(r)
  PROVE  Abstract!Arrive(r)
<1> DEFINE front == IF wb_stb THEN Slot(transaction_ptr) ELSE <<>>
<1>1. front \in Seq(Transaction) /\ request_fifo \in Seq(Transaction)
  BY SlotTyped, EmptySeq DEF IInv, Typed
<1>2. Waiting = front \o request_fifo /\ Waiting' = front \o Append(request_fifo, r)
  BY DEF Deliver, Waiting, Slot
<1> HIDE DEF front
<1>3. <<r>> \in Seq(Transaction) /\ front \o request_fifo \in Seq(Transaction)
  BY <1>1, ConcatProperties, Singleton
<1>4. /\ Append(request_fifo, r) = request_fifo \o <<r>>
      /\ Append(front \o request_fifo, r) = (front \o request_fifo) \o <<r>>
  BY <1>1, <1>3, AppendIsConcat
<1>5. (front \o request_fifo) \o <<r>> = front \o (request_fifo \o <<r>>)
  BY <1>1, <1>3, ConcatAssociative
<1>6. Waiting' = Append(Waiting, r)
  BY <1>2, <1>4, <1>5
<1>7. UNCHANGED <<device, Done>>
  BY DEF Deliver, Done, Finished
<1>8. QED
  BY <1>6, <1>7 DEF Abstract!Arrive, Waiting, Done

LEMMA ReturnReturns ==
  ASSUME IInv, Return
  PROVE  Abstract!Return
<1> DEFINE back == IF transaction_ptr = NULL \/ wb_stb THEN <<>>
                                                      ELSE <<Finished(transaction_ptr)>>
<1>1. /\ back \in Seq(Transaction)
      /\ response_fifo \in Seq(Transaction) /\ response_fifo # <<>>
  BY Answer, Singleton, EmptySeq DEF IInv, Typed, Return
<1>2. Done = response_fifo \o back /\ Done' = Tail(response_fifo) \o back
  BY DEF Return, Done, Finished
<1> HIDE DEF back
<1>3. Done # <<>> /\ Tail(Done) = Tail(response_fifo) \o back
  BY <1>1, <1>2, TakeFromFirst
<1>4. UNCHANGED <<device, Waiting>>
  BY DEF Return, Waiting, Slot
<1>5. QED
  BY <1>2, <1>3, <1>4 DEF Abstract!Return, Waiting, Done

\* The uart executes its requests in order, each exactly once, and answers
\* each with its own data, however its acknowledgements are delayed.
THEOREM Refinement == Spec => ImplementsAtomicTarget
<1>1. Init => Abstract!Init
  <2> SUFFICES ASSUME Init
               PROVE  Abstract!Init
    OBVIOUS
  <2>1. <<>> \o <<>> = <<>>
    BY EmptySeq, ConcatEmptySeq
  <2>2. QED
    BY <2>1 DEF Init, Abstract!Init
<1>2. IInv /\ [Next]_vars => [Abstract!Next]_Abstract!vars
  <2> SUFFICES ASSUME IInv, [Next]_vars
               PROVE  [Abstract!Next]_Abstract!vars
    OBVIOUS
  <2>1. CASE UNCHANGED vars
    BY <2>1 DEF vars, Abstract!vars, Slot, Finished
  <2>2. ASSUME NEW r \in Transaction, Deliver(r)
        PROVE  Abstract!Next
    <3>1. r \in Abstract!Transaction
      BY DEF Transaction, Values, Abstract!Transaction, Abstract!Commands, Abstract!Values
    <3>2. QED
      BY <2>2, <3>1, DeliverArrives DEF Abstract!Next
  <2>3. CASE Return
    BY <2>3, ReturnReturns DEF Abstract!Next
  <2>4. ASSUME NEW ack \in BOOLEAN, Clock(ack)
        PROVE  Abstract!Next \/ UNCHANGED Abstract!vars
    <3>1. CASE wb_stb
      BY <2>4, <3>1, StrobeExecutes DEF Abstract!Next
    <3>2. CASE ~wb_stb
      BY <2>4, <3>2, OtherEdgesStutter DEF Abstract!vars, Waiting, Done
    <3>3. QED
      BY <3>1, <3>2
  <2>5. QED
    BY <2>1, <2>2, <2>3, <2>4 DEF Next
<1>3. QED
  BY <1>1, <1>2, Invariance, PTL DEF Spec, ImplementsAtomicTarget, Abstract!Spec
=============================================================================
