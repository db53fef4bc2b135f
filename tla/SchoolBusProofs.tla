-------------------------- MODULE SchoolBusProofs --------------------------
(***************************************************************************)
(* The transport of SchoolBus for every number of transactions and         *)
(* targets, every capacity of the fifos and every interleaving.            *)
(***************************************************************************)
EXTENDS SchoolBus, DataLemmas, FiniteSetTheorems, SequenceTheorems, TLAPS

-----------------------------------------------------------------------------
(* Sequences without repetition.                                           *)

Distinct(s) == \A m, n \in DOMAIN s : s[m] = s[n] => m = n

LEMMA EmptyFacts ==
  ASSUME NEW S
  PROVE  <<>> \in Seq(S) /\ ToSet(<<>>) = {} /\ Distinct(<<>>)
  BY DEF ToSet, Distinct

LEMMA SingleFacts ==
  ASSUME NEW S, NEW e \in S
  PROVE  /\ <<e>> \in Seq(S) /\ <<e>> # <<>> /\ ToSet(<<e>>) = {e} /\ Distinct(<<e>>)
         /\ Head(<<e>>) = e /\ Tail(<<e>>) = <<>>
<1>1. <<e>> \in Seq(S) /\ <<e>> # <<>> /\ Head(<<e>>) = e /\ Tail(<<e>>) = <<>>
  OBVIOUS
<1>2. DOMAIN <<e>> = {1} /\ <<e>>[1] = e
  OBVIOUS
<1> QED BY <1>1, <1>2 DEF ToSet, Distinct

LEMMA TailFacts ==
  ASSUME NEW S, NEW s \in Seq(S), s # <<>>, Distinct(s)
  PROVE  /\ Head(s) \in S /\ Head(s) \in ToSet(s) /\ Tail(s) \in Seq(S)
         /\ ToSet(Tail(s)) = ToSet(s) \ {Head(s)} /\ Distinct(Tail(s))
<1>1. /\ Head(s) \in S /\ Tail(s) \in Seq(S) /\ Len(Tail(s)) = Len(s) - 1
      /\ Len(s) \in Nat \ {0} /\ DOMAIN s = 1 .. Len(s) /\ DOMAIN Tail(s) = 1 .. Len(s) - 1
      /\ \A n \in 1 .. Len(s) - 1 : Tail(s)[n] = s[n + 1]
      /\ Head(s) = s[1]
  BY HeadTailProperties, LenProperties, EmptySeq
<1>2. Head(s) \in ToSet(s)
  BY <1>1 DEF ToSet
<1>3. ASSUME NEW n \in 1 .. Len(s) - 1 PROVE n + 1 \in DOMAIN s /\ n + 1 # 1
  BY <1>1
<1>4. Distinct(Tail(s))
  <2> SUFFICES ASSUME NEW m \in 1 .. Len(s) - 1, NEW n \in 1 .. Len(s) - 1, Tail(s)[m] = Tail(s)[n]
               PROVE m = n
    BY <1>1 DEF Distinct
  <2>1. m + 1 = n + 1
    BY <1>1, <1>3 DEF Distinct
  <2> QED BY <1>1, <2>1
<1>5. ASSUME NEW e \in ToSet(Tail(s)) PROVE e \in ToSet(s) /\ e # Head(s)
  <2>1. PICK n \in 1 .. Len(s) - 1 : e = Tail(s)[n]
    BY <1>1 DEF ToSet
  <2>2. e = s[n + 1] /\ n + 1 \in DOMAIN s /\ 1 \in DOMAIN s /\ n + 1 # 1
    BY <1>1, <1>3, <2>1
  <2> QED BY <1>1, <2>2 DEF Distinct, ToSet
<1>6. ASSUME NEW e \in ToSet(s), e # Head(s) PROVE e \in ToSet(Tail(s))
  <2>1. PICK n \in 1 .. Len(s) : e = s[n]
    BY <1>1 DEF ToSet
  <2>2. n - 1 \in 1 .. Len(s) - 1 /\ (n - 1) + 1 = n
    BY <1>1, <1>6, <2>1
  <2>3. Tail(s)[n - 1] = e
    BY <1>1, <2>1, <2>2
  <2> QED BY <1>1, <2>2, <2>3 DEF ToSet
<1> QED BY <1>1, <1>2, <1>4, <1>5, <1>6

LEMMA AppendFacts ==
  ASSUME NEW S, NEW s \in Seq(S), NEW e \in S, e \notin ToSet(s), Distinct(s)
  PROVE  /\ Append(s, e) \in Seq(S) /\ ToSet(Append(s, e)) = ToSet(s) \cup {e}
         /\ Distinct(Append(s, e))
<1>1. /\ Append(s, e) \in Seq(S) /\ Len(s) \in Nat /\ DOMAIN s = 1 .. Len(s)
      /\ DOMAIN Append(s, e) = 1 .. Len(s) + 1
      /\ \A n \in 1 .. Len(s) : Append(s, e)[n] = s[n]
      /\ Append(s, e)[Len(s) + 1] = e
  BY AppendProperties, LenProperties
<1>2. DOMAIN Append(s, e) = DOMAIN s \cup {Len(s) + 1} /\ Len(s) + 1 \notin DOMAIN s
  BY <1>1
<1> QED BY <1>1, <1>2 DEF ToSet, Distinct

LEMMA ConcatFacts ==
  ASSUME NEW S, NEW s \in Seq(S), NEW t \in Seq(S)
  PROVE  /\ s \o t \in Seq(S) /\ ToSet(s \o t) = ToSet(s) \cup ToSet(t)
         /\ Distinct(s) /\ Distinct(t) /\ ToSet(s) \cap ToSet(t) = {} => Distinct(s \o t)
<1>1. /\ s \o t \in Seq(S) /\ Len(s) \in Nat /\ Len(t) \in Nat
      /\ DOMAIN s = 1 .. Len(s) /\ DOMAIN t = 1 .. Len(t)
      /\ DOMAIN (s \o t) = 1 .. Len(s) + Len(t)
      /\ \A n \in 1 .. Len(s) + Len(t) :
           (s \o t)[n] = IF n <= Len(s) THEN s[n] ELSE t[n - Len(s)]
  BY ConcatProperties, LenProperties
<1>2. ASSUME NEW n \in DOMAIN s PROVE n \in DOMAIN (s \o t) /\ (s \o t)[n] = s[n] /\ s[n] \in ToSet(s)
  BY <1>1 DEF ToSet
<1>3. ASSUME NEW n \in DOMAIN t
      PROVE /\ n + Len(s) \in DOMAIN (s \o t) /\ (s \o t)[n + Len(s)] = t[n] /\ t[n] \in ToSet(t)
            /\ n \in Nat
  <2>1. n + Len(s) \in 1 .. Len(s) + Len(t) /\ ~(n + Len(s) <= Len(s)) /\ (n + Len(s)) - Len(s) = n
    BY <1>1
  <2> QED BY <1>1, <2>1 DEF ToSet
<1>4. ASSUME NEW n \in DOMAIN (s \o t)
      PROVE n \in DOMAIN s \/ \E l \in DOMAIN t : n = l + Len(s)
  <2>1. CASE n <= Len(s)
    BY <1>1, <2>1
  <2>2. CASE ~(n <= Len(s))
    <3>1. n - Len(s) \in DOMAIN t /\ n = (n - Len(s)) + Len(s)
      BY <1>1, <2>2
    <3> QED BY <3>1
  <2> QED BY <2>1, <2>2
<1>5. ToSet(s \o t) = ToSet(s) \cup ToSet(t)
  <2>1. ASSUME NEW e \in ToSet(s \o t) PROVE e \in ToSet(s) \cup ToSet(t)
    <3>1. PICK n \in DOMAIN (s \o t) : e = (s \o t)[n]
      BY DEF ToSet
    <3> QED BY <1>2, <1>3, <1>4, <3>1
  <2>2. ToSet(s) \subseteq ToSet(s \o t)
    BY <1>2 DEF ToSet
  <2>3. ToSet(t) \subseteq ToSet(s \o t)
    <3> SUFFICES ASSUME NEW n \in DOMAIN t PROVE t[n] \in ToSet(s \o t)
      BY DEF ToSet
    <3> QED BY <1>3 DEF ToSet
  <2> QED BY <2>1, <2>2, <2>3
<1>6. ASSUME Distinct(s), Distinct(t), ToSet(s) \cap ToSet(t) = {} PROVE Distinct(s \o t)
  <2> SUFFICES ASSUME NEW m \in DOMAIN (s \o t), NEW n \in DOMAIN (s \o t), (s \o t)[m] = (s \o t)[n]
               PROVE m = n
    BY DEF Distinct
  <2>1. CASE m \in DOMAIN s /\ n \in DOMAIN s
    BY <1>2, <1>6, <2>1 DEF Distinct
  <2>2. CASE m \in DOMAIN s /\ \E l \in DOMAIN t : n = l + Len(s)
    BY <1>2, <1>3, <1>6, <2>2
  <2>3. CASE n \in DOMAIN s /\ \E l \in DOMAIN t : m = l + Len(s)
    BY <1>2, <1>3, <1>6, <2>3
  <2>4. ASSUME NEW k \in DOMAIN t, NEW l \in DOMAIN t, m = k + Len(s), n = l + Len(s) PROVE m = n
    BY <1>3, <1>6, <2>4 DEF Distinct
  <2> QED BY <1>4, <2>1, <2>2, <2>3, <2>4
<1> QED BY <1>1, <1>5, <1>6

-----------------------------------------------------------------------------
(* The places of the system, as one function: for every kind of place and  *)
(* every node, a sequence of the transactions there, oldest first.         *)

Nodes == Initiators \cup Targets
Kinds == {"request", "response", "initiator_thread", "target_thread", "serving", "second"}
Places == Kinds \X Nodes

\* No place holds a transaction twice, no two places hold the same one, the
\* places together hold the live ones, and a place of node x only those of
\* belongs[x].
Orderly(store, live, belongs) ==
  /\ store \in [Places -> Seq(Ptrs)]
  /\ \A c \in Places : Distinct(store[c])
  /\ \A c, d \in Places : \A p \in ToSet(store[c]) : p \in ToSet(store[d]) => c = d
  /\ \A p : p \in live <=> \E c \in Places : p \in ToSet(store[c])
  /\ \A c \in Places : ToSet(store[c]) \subseteq belongs[c[2]]

\* The three things a step does with a transaction: it enters the system,
\* moves on, or leaves it.
Entered(store, d, p) == [store EXCEPT ![d] = Append(@, p)]
Moved(store, c, d) == [store EXCEPT ![c] = Tail(@), ![d] = Append(@, Head(store[c]))]
Left(store, c) == [store EXCEPT ![c] = Tail(@)]

LEMMA EnterKeeps ==
  ASSUME NEW store, NEW live, NEW belongs, Orderly(store, live, belongs),
         NEW d \in Places, NEW p \in Ptrs, p \notin live, p \in belongs[d[2]]
  PROVE  Orderly(Entered(store, d, p), live \cup {p}, belongs)
<1> DEFINE new == Entered(store, d, p)
<1>1. /\ store \in [Places -> Seq(Ptrs)] /\ \A c \in Places : p \notin ToSet(store[c])
      /\ Distinct(store[d])
  BY DEF Orderly
<1>2. /\ Append(store[d], p) \in Seq(Ptrs) /\ ToSet(Append(store[d], p)) = ToSet(store[d]) \cup {p}
      /\ Distinct(Append(store[d], p))
  BY <1>1, AppendFacts
<1>3. /\ new \in [Places -> Seq(Ptrs)] /\ new[d] = Append(store[d], p)
      /\ \A c \in Places : c # d => new[c] = store[c]
  BY <1>1, <1>2 DEF Entered
<1> HIDE DEF new
<1>4. \A c \in Places : ToSet(new[c]) = IF c = d THEN ToSet(store[c]) \cup {p} ELSE ToSet(store[c])
  BY <1>2, <1>3
<1>5. \A c \in Places : Distinct(new[c])
  BY <1>2, <1>3 DEF Orderly
<1>6. \A b, c \in Places : \A q \in ToSet(new[b]) : q \in ToSet(new[c]) => b = c
  BY <1>1, <1>4 DEF Orderly
<1>7. \A q : q \in live \cup {p} <=> \E c \in Places : q \in ToSet(new[c])
  BY <1>4 DEF Orderly
<1>8. \A c \in Places : ToSet(new[c]) \subseteq belongs[c[2]]
  BY <1>4 DEF Orderly
<1>9. Orderly(new, live \cup {p}, belongs)
  BY <1>3, <1>5, <1>6, <1>7, <1>8 DEF Orderly
<1> QED BY <1>9 DEF new

LEMMA LeaveKeeps ==
  ASSUME NEW store, NEW live, NEW belongs, Orderly(store, live, belongs),
         NEW c \in Places, store[c] # <<>>
  PROVE  /\ Orderly(Left(store, c), live \ {Head(store[c])}, belongs)
         /\ Head(store[c]) \in live \cap Ptrs /\ Head(store[c]) \in belongs[c[2]]
<1> DEFINE new == Left(store, c)
           p == Head(store[c])
<1>1. store \in [Places -> Seq(Ptrs)] /\ Distinct(store[c]) /\ store[c] \in Seq(Ptrs)
  BY DEF Orderly
<1>2. /\ p \in Ptrs /\ p \in ToSet(store[c]) /\ Tail(store[c]) \in Seq(Ptrs)
      /\ ToSet(Tail(store[c])) = ToSet(store[c]) \ {p} /\ Distinct(Tail(store[c]))
  BY <1>1, TailFacts
<1>3. /\ new \in [Places -> Seq(Ptrs)] /\ new[c] = Tail(store[c])
      /\ \A d \in Places : d # c => new[d] = store[d]
  BY <1>1, <1>2 DEF Left
<1> HIDE DEF new, p
<1>4. \A d \in Places : ToSet(new[d]) = ToSet(store[d]) \ {p}
  <2>1. \A d \in Places : d # c => p \notin ToSet(store[d])
    BY <1>2 DEF Orderly
  <2> QED BY <1>2, <1>3, <2>1
<1>5. \A d \in Places : Distinct(new[d])
  BY <1>2, <1>3 DEF Orderly
<1>6. \A b, d \in Places : \A q \in ToSet(new[b]) : q \in ToSet(new[d]) => b = d
  <2>1. \A b, d \in Places : \A q \in ToSet(store[b]) : q \in ToSet(store[d]) => b = d
    BY DEF Orderly
  <2> QED BY <1>4, <2>1
<1>7. \A q : q \in live \ {p} <=> \E d \in Places : q \in ToSet(new[d])
  <2>1. \A q : q \in live <=> \E d \in Places : q \in ToSet(store[d])
    BY DEF Orderly
  <2> QED BY <1>4, <2>1
<1>8. \A d \in Places : ToSet(new[d]) \subseteq belongs[d[2]]
  BY <1>4 DEF Orderly
<1>9. Orderly(new, live \ {p}, belongs)
  BY <1>3, <1>5, <1>6, <1>7, <1>8 DEF Orderly
<1>10. p \in live /\ p \in belongs[c[2]]
  BY <1>2 DEF Orderly
<1> QED BY <1>2, <1>9, <1>10 DEF new, p

\* Moving on is leaving and entering again.
LEMMA MoveKeeps ==
  ASSUME NEW store, NEW live, NEW belongs, Orderly(store, live, belongs),
         NEW c \in Places, NEW d \in Places, c # d, store[c] # <<>>,
         Head(store[c]) \in belongs[d[2]]
  PROVE  Orderly(Moved(store, c, d), live, belongs)
<1> DEFINE p == Head(store[c])
           left == Left(store, c)
<1>1. Orderly(left, live \ {p}, belongs) /\ p \in live /\ p \in Ptrs
  BY LeaveKeeps
<1>2. Moved(store, c, d) = Entered(left, d, p)
  BY DEF Orderly, Moved, Left, Entered
<1> HIDE DEF left, p
<1>3. Orderly(Entered(left, d, p), (live \ {p}) \cup {p}, belongs)
  BY <1>1, EnterKeeps DEF p
<1>4. (live \ {p}) \cup {p} = live
  BY <1>1
<1> QED BY <1>2, <1>3, <1>4

\* Between two places of a node there may be nothing to move.
Shifted(store, c, d) == IF store[c] = <<>> THEN store ELSE Moved(store, c, d)

LEMMA ShiftKeeps ==
  ASSUME NEW store, NEW live, NEW belongs, Orderly(store, live, belongs),
         NEW c \in Places, NEW d \in Places, c # d, c[2] = d[2]
  PROVE  Orderly(Shifted(store, c, d), live, belongs)
<1>1. CASE store[c] = <<>>
  BY <1>1 DEF Shifted
<1>2. CASE store[c] # <<>>
  <2>1. Head(store[c]) \in belongs[d[2]]
    BY <1>2, LeaveKeeps
  <2> QED BY <1>2, <2>1, MoveKeeps DEF Shifted
<1> QED BY <1>1, <1>2

\* What belongs where may change for transactions that are nowhere.
LEMMA OthersMayChange ==
  ASSUME NEW store, NEW live, NEW belongs, NEW others, Orderly(store, live, belongs),
         \A x \in Nodes : belongs[x] \cap live \subseteq others[x]
  PROVE  Orderly(store, live, others)
<1>1. ASSUME NEW c \in Places PROVE ToSet(store[c]) \subseteq others[c[2]]
  <2>1. c[2] \in Nodes
    BY DEF Places
  <2> QED BY <2>1 DEF Orderly
<1> QED BY <1>1 DEF Orderly

-----------------------------------------------------------------------------
(* Types.                                                                  *)

LEMMA NodeFacts ==
  /\ Core \in Initiators /\ Debugger \in Initiators /\ Uart \in Targets /\ Dms \in Targets
  /\ ThreadTargets \subseteq Targets /\ Initiators \cap Targets = {}
  /\ Core # Debugger /\ Uart # Dms /\ Uart \notin ThreadTargets /\ Dms \notin ThreadTargets
  /\ NULL \notin Ptrs /\ NULL \notin Targets /\ NULL \notin Initiators
  /\ "idle" \notin Destinations /\ Destinations \subseteq Targets \cup {NULL}
  /\ NULL \notin Payload /\ NULL \notin Job
  BY SchoolBusAssumption DEF Initiators, Targets, Payload, Job

LEMMA SlotTyped ==
  ASSUME NEW S, NULL \notin S, NEW p \in S \cup {NULL}
  PROVE  Slot(p) \in Seq(S)
  BY DEF Slot

LEMMA FirstTyped ==
  ASSUME NEW S, NEW s \in Seq(S)
  PROVE  First(s) \in S \cup {NULL} /\ Rest(s) \in Seq(S)
<1>1. CASE s = <<>>
  BY <1>1 DEF First, Rest
<1>2. CASE s # <<>>
  BY <1>2, HeadTailProperties DEF First, Rest
<1> QED BY <1>1, <1>2

LEMMA TargetOfTyped ==
  ASSUME TypeOK, NEW p \in Ptrs
  PROVE  /\ TargetOf(p) \in Targets \cup {NULL}
         /\ txn[p] # NULL => /\ txn[p] \in Payload /\ txn[p].owner \in Initiators
                             /\ txn[p].target \in Destinations /\ txn[p].access \in {0, 1}
<1>1. txn[p] \in Payload \cup {NULL}
  BY DEF TypeOK
<1> QED BY <1>1, NodeFacts DEF TargetOf, Payload

LEMMA CoreKeepsTypes ==
  ASSUME TypeOK, CoreClock PROVE TypeOK'
<1>0. /\ todo' \subseteq {Core, Debugger, Uart}
      /\ UNCHANGED <<rst_ni, requester_map, initiator_thread, target_thread, serving,
                     request_in_flight2, dmm_bus, wbVars>>
  BY DEF TypeOK, CoreClock
<1>1. /\ core_bus' \in Destinations \cup {"idle"} /\ core_access' \in {0, 1}
  BY DEF TypeOK, CoreClock, VcoreStep
<1>2. CASE \E p \in Ptrs : CoreIssue(p)
  <2>1. PICK p \in Ptrs : CoreIssue(p)
    BY <1>2
  <2>2. txn' \in [Ptrs -> Payload \cup {NULL}]
    <3>1. [owner |-> Core, target |-> core_bus, access |-> core_access] \in Payload
      BY <2>1, NodeFacts DEF TypeOK, CoreIssue, CoreIssues, Payload
    <3> QED BY <2>1, <3>1 DEF TypeOK, CoreIssue
  <2>3. /\ request_fifo' \in [Initiators \cup Targets -> Seq(Ptrs)]
        /\ response_fifo' \in [Initiators \cup Targets -> Seq(Ptrs)]
    BY <2>1, NodeFacts, AppendProperties DEF TypeOK, CoreIssue
  <2>4. /\ halted' \in {"no", "method_blocked"} \cup {halted} /\ rdata' = rdata /\ resp' = FALSE
        /\ request_in_flight' \in Ptrs
    BY <2>1 DEF CoreIssue, EndIf
  <2> QED BY <1>0, <1>1, <2>2, <2>3, <2>4 DEF TypeOK, wbVars
<1>3. CASE CoreReceive
  <2>1. Head(response_fifo[Core]) \in Ptrs /\ Tail(response_fifo[Core]) \in Seq(Ptrs)
    BY <1>3, NodeFacts, HeadTailProperties DEF TypeOK, CoreReceive
  <2>2. rdata' \in {0, 1}
    BY <1>3, <2>1, TargetOfTyped DEF TypeOK, CoreReceive
  <2>3. txn' \in [Ptrs -> Payload \cup {NULL}]
    BY <1>3 DEF TypeOK, CoreReceive
  <2>4. /\ request_fifo' \in [Initiators \cup Targets -> Seq(Ptrs)]
        /\ response_fifo' \in [Initiators \cup Targets -> Seq(Ptrs)]
    BY <1>3, <2>1 DEF TypeOK, CoreReceive
  <2>5. /\ halted' \in {halted, "out_of_order"} /\ resp' = TRUE /\ request_in_flight' = NULL
    BY <1>3 DEF CoreReceive
  <2> QED BY <1>0, <1>1, <2>2, <2>3, <2>4, <2>5 DEF TypeOK, wbVars
<1>4. CASE CoreWait
  <2>1. /\ UNCHANGED <<halted, txn, request_in_flight, request_fifo, response_fifo, rdata>>
        /\ resp' = FALSE
    BY <1>4 DEF CoreWait, fifoVars
  <2> QED BY <1>0, <1>1, <2>1 DEF TypeOK, wbVars
<1> QED BY <1>2, <1>3, <1>4 DEF CoreClock

LEMMA DebuggerKeepsTypes ==
  ASSUME TypeOK, NEW p \in Ptrs \cup {NULL}, DebuggerClock(p) PROVE TypeOK'
<1>1. /\ response_fifo[Debugger] \in Seq(Ptrs) /\ request_fifo[Debugger] \in Seq(Ptrs)
      /\ response_fifo[Dms] \in Seq(Ptrs) /\ request_fifo[Dms] \in Seq(Ptrs)
      /\ serving[Dms] \in Ptrs \cup {NULL} /\ request_in_flight2 \in Ptrs \cup {NULL}
  BY NodeFacts DEF TypeOK
<1>2. txn' \in [Ptrs -> Payload \cup {NULL}]
  <2>1. ASSUME p # NULL PROVE [owner |-> Debugger, target |-> dmm_bus, access |-> 0] \in Payload
    BY <2>1, NodeFacts DEF TypeOK, DebuggerClock, Payload
  <2> SUFFICES ASSUME NEW x \in Ptrs
               PROVE (CASE x = First(response_fifo[Debugger]) -> NULL
                        [] x = p -> [owner |-> Debugger, target |-> dmm_bus, access |-> 0]
                        [] OTHER -> txn[x]) \in Payload \cup {NULL}
    BY DEF DebuggerClock
  <2>2. txn[x] \in Payload \cup {NULL} /\ x # NULL
    BY NodeFacts DEF TypeOK
  <2>3. CASE x = p
    BY <2>1, <2>2, <2>3
  <2>4. CASE x # p
    BY <2>2, <2>4
  <2> QED BY <2>3, <2>4
<1>3. /\ request_fifo' \in [Initiators \cup Targets -> Seq(Ptrs)]
      /\ response_fifo' \in [Initiators \cup Targets -> Seq(Ptrs)]
  <2>1. /\ request_fifo[Debugger] \o Slot(p) \in Seq(Ptrs) /\ Rest(request_fifo[Dms]) \in Seq(Ptrs)
        /\ response_fifo[Dms] \o Slot(request_in_flight2) \in Seq(Ptrs)
        /\ Rest(response_fifo[Debugger]) \in Seq(Ptrs)
    <3>1. Slot(p) \in Seq(Ptrs) /\ Slot(request_in_flight2) \in Seq(Ptrs)
      BY <1>1, NodeFacts, SlotTyped
    <3> QED BY <1>1, <3>1, FirstTyped, ConcatProperties
  <2>2. request_fifo \in [Initiators \cup Targets -> Seq(Ptrs)]
        /\ response_fifo \in [Initiators \cup Targets -> Seq(Ptrs)]
    BY DEF TypeOK
  <2>3. /\ request_fifo' = [request_fifo EXCEPT ![Debugger] = @ \o Slot(p), ![Dms] = Rest(@)]
        /\ response_fifo' = [response_fifo EXCEPT ![Debugger] = Rest(@),
                                                  ![Dms] = @ \o Slot(request_in_flight2)]
        /\ Debugger # Dms
    BY NodeFacts DEF DebuggerClock
  <2> QED BY <2>1, <2>2, <2>3
<1>4. serving' \in [Targets -> Ptrs \cup {NULL}] /\ request_in_flight2' \in Ptrs \cup {NULL}
  BY <1>1, FirstTyped DEF TypeOK, DebuggerClock, ShiftStage
<1>5. /\ halted' \in {halted, "method_blocked"} /\ dmm_bus' \in Destinations \cup {"idle"}
      /\ todo' \subseteq {Core, Debugger, Uart}
  BY DEF TypeOK, DebuggerClock, EndIf, DebugModuleStep
<1>6. UNCHANGED <<rst_ni, requester_map, initiator_thread, target_thread, coreVars, wbVars>>
  BY DEF DebuggerClock
<1> QED BY <1>2, <1>3, <1>4, <1>5, <1>6 DEF TypeOK, coreVars, wbVars

LEMMA UartKeepsTypes ==
  ASSUME TypeOK, NEW ack \in BOOLEAN, UartClock(ack) PROVE TypeOK'
<1>1. /\ response_fifo[Uart] \in Seq(Ptrs) /\ request_fifo[Uart] \in Seq(Ptrs)
      /\ serving[Uart] \in Ptrs \cup {NULL}
  BY NodeFacts DEF TypeOK
<1>2. response_fifo' \in [Initiators \cup Targets -> Seq(Ptrs)]
  <2>1. UartAnswered => Append(response_fifo[Uart], serving[Uart]) \in Seq(Ptrs)
    BY <1>1, AppendProperties DEF UartAnswered
  <2> QED BY <2>1 DEF TypeOK, UartClock
<1>3. UartAccepts => Head(request_fifo[Uart]) \in Ptrs /\ Tail(request_fifo[Uart]) \in Seq(Ptrs)
  BY <1>1, HeadTailProperties DEF UartAccepts
<1>4. request_fifo' \in [Initiators \cup Targets -> Seq(Ptrs)]
  BY <1>3 DEF TypeOK, UartClock
<1>5. serving' \in [Targets -> Ptrs \cup {NULL}]
  BY <1>1, <1>3 DEF TypeOK, UartClock
<1>6. /\ halted' \in {halted, "method_blocked"} /\ todo' \subseteq {Core, Debugger, Uart}
      /\ wb_stb' \in BOOLEAN /\ wb_busy' \in BOOLEAN /\ wb_ack' \in BOOLEAN
  BY DEF TypeOK, UartClock, EndIf, WbuartStep, UartAccepts
<1>7. UNCHANGED <<rst_ni, txn, requester_map, initiator_thread, target_thread,
                  request_in_flight2, coreVars, dmm_bus>>
  BY DEF UartClock
<1> QED BY <1>2, <1>4, <1>5, <1>6, <1>7 DEF TypeOK, coreVars

\* An EXCEPT at a place that does not exist changes nothing.
LEMMA AppendAnywhere ==
  ASSUME NEW S, NEW D, NEW f \in [D -> Seq(S)], NEW x, NEW e \in S
  PROVE  [f EXCEPT ![x] = Append(@, e)] \in [D -> Seq(S)]
<1>1. CASE x \in D
  BY <1>1, AppendProperties
<1>2. CASE x \notin D
  BY <1>2
<1> QED BY <1>1, <1>2

LEMMA InitiatorKeepsTypes ==
  ASSUME TypeOK, NEW i \in Initiators, InitiatorFetch(i) \/ InitiatorDeliver(i) PROVE TypeOK'
<1>1. CASE InitiatorFetch(i)
  <2> DEFINE p == Head(request_fifo[i])
  <2>1. p \in Ptrs /\ Tail(request_fifo[i]) \in Seq(Ptrs)
    BY <1>1, HeadTailProperties DEF TypeOK, InitiatorFetch, CanFetch
  <2>2. [ptr |-> p, to |-> TargetOf(p)] \in Job
    BY <2>1, TargetOfTyped DEF Job
  <2>3. initiator_thread' \in [Initiators -> Job \cup {NULL}]
    BY <1>1, <2>2 DEF TypeOK, InitiatorFetch
  <2>4. requester_map' \in [Ptrs -> Initiators \cup {NULL}]
    BY <1>1, <2>1 DEF TypeOK, InitiatorFetch, Remember
  <2>5. request_fifo' \in [Initiators \cup Targets -> Seq(Ptrs)]
    BY <1>1, <2>1 DEF TypeOK, InitiatorFetch
  <2>6. halted' \in {halted, "dangling", "unmapped"}
    BY <1>1 DEF InitiatorFetch
  <2>7. UNCHANGED <<rst_ni, todo, txn, response_fifo, target_thread, serving,
                    request_in_flight2, coreVars, dmm_bus, wbVars>>
    BY <1>1 DEF InitiatorFetch
  <2> QED BY <2>3, <2>4, <2>5, <2>6, <2>7 DEF TypeOK, coreVars, wbVars
<1>2. CASE InitiatorDeliver(i)
  <2>1. initiator_thread[i].ptr \in Ptrs
    BY <1>2 DEF TypeOK, InitiatorDeliver, CanDeliver, Job
  <2>2. request_fifo' \in [Initiators \cup Targets -> Seq(Ptrs)]
    <3>1. /\ request_fifo \in [Initiators \cup Targets -> Seq(Ptrs)]
          /\ request_fifo' = [request_fifo EXCEPT ![initiator_thread[i].to] =
                                                    Append(@, initiator_thread[i].ptr)]
      BY <1>2 DEF TypeOK, InitiatorDeliver
    <3> QED BY <2>1, <3>1, AppendAnywhere
  <2>3. initiator_thread' \in [Initiators -> Job \cup {NULL}]
    BY <1>2 DEF TypeOK, InitiatorDeliver
  <2>4. UNCHANGED <<rst_ni, todo, halted, txn, requester_map, response_fifo, target_thread,
                    serving, request_in_flight2, coreVars, dmm_bus, wbVars>>
    BY <1>2 DEF InitiatorDeliver
  <2> QED BY <2>2, <2>3, <2>4 DEF TypeOK, coreVars, wbVars
<1> QED BY <1>1, <1>2

LEMMA ThreadTargetKeepsTypes ==
  ASSUME TypeOK, NEW t \in ThreadTargets, ThreadTargetServe(t) \/ ThreadTargetAnswer(t)
  PROVE  TypeOK'
<1>0. t \in Targets
  BY NodeFacts
<1>1. CASE ThreadTargetServe(t)
  <2>1. Head(request_fifo[t]) \in Ptrs /\ Tail(request_fifo[t]) \in Seq(Ptrs)
    BY <1>0, <1>1, HeadTailProperties DEF TypeOK, ThreadTargetServe, CanServe
  <2>2. /\ serving' \in [Targets -> Ptrs \cup {NULL}]
        /\ request_fifo' \in [Initiators \cup Targets -> Seq(Ptrs)]
    BY <1>0, <1>1, <2>1 DEF TypeOK, ThreadTargetServe
  <2>3. UNCHANGED <<rst_ni, todo, txn, requester_map, response_fifo, initiator_thread,
                    target_thread, request_in_flight2, coreVars, dmm_bus, wbVars>>
    BY <1>1 DEF ThreadTargetServe
  <2>4. halted' \in {halted, "bad_address"}
    BY <1>1 DEF ThreadTargetServe
  <2> QED BY <2>2, <2>3, <2>4 DEF TypeOK, coreVars, wbVars
<1>2. CASE ThreadTargetAnswer(t)
  <2>1. serving[t] \in Ptrs
    BY <1>0, <1>2 DEF TypeOK, ThreadTargetAnswer, CanAnswer
  <2>2. response_fifo' \in [Initiators \cup Targets -> Seq(Ptrs)]
    BY <1>0, <1>2, <2>1, AppendProperties DEF TypeOK, ThreadTargetAnswer
  <2>3. serving' \in [Targets -> Ptrs \cup {NULL}]
    BY <1>2 DEF TypeOK, ThreadTargetAnswer
  <2>4. UNCHANGED <<rst_ni, todo, halted, txn, requester_map, request_fifo, initiator_thread,
                    target_thread, request_in_flight2, coreVars, dmm_bus, wbVars>>
    BY <1>2 DEF ThreadTargetAnswer
  <2> QED BY <2>2, <2>3, <2>4 DEF TypeOK, coreVars, wbVars
<1> QED BY <1>1, <1>2

LEMMA TargetKeepsTypes ==
  ASSUME TypeOK, NEW t \in Targets, TargetTake(t) \/ TargetReturn(t) PROVE TypeOK'
<1>1. CASE TargetTake(t)
  <2> DEFINE p == Head(response_fifo[t])
             sound == TargetOf(p) = t /\ requester_map[p] # NULL
             job == [ptr |-> p, to |-> IF sound THEN requester_map[p] ELSE NULL]
  <2>1. p \in Ptrs /\ Tail(response_fifo[t]) \in Seq(Ptrs)
    BY <1>1, HeadTailProperties DEF TypeOK, TargetTake, CanTake
  <2>2. job \in Job
    BY <2>1 DEF Job, TypeOK
  <2>3. target_thread' \in [Targets -> Job \cup {NULL}]
    BY <1>1, <2>2 DEF TypeOK, TargetTake
  <2>4. response_fifo' \in [Initiators \cup Targets -> Seq(Ptrs)]
    BY <1>1, <2>1 DEF TypeOK, TargetTake
  <2>5. halted' \in {halted, "misrouted"}
    BY <1>1 DEF TargetTake
  <2>6. UNCHANGED <<rst_ni, todo, txn, requester_map, request_fifo, initiator_thread, serving,
                    request_in_flight2, coreVars, dmm_bus, wbVars>>
    BY <1>1 DEF TargetTake
  <2> QED BY <2>3, <2>4, <2>5, <2>6 DEF TypeOK, coreVars, wbVars
<1>2. CASE TargetReturn(t)
  <2>1. target_thread[t].ptr \in Ptrs
    BY <1>2 DEF TypeOK, TargetReturn, CanReturn, Job
  <2>2. response_fifo' \in [Initiators \cup Targets -> Seq(Ptrs)]
    <3>1. /\ response_fifo \in [Initiators \cup Targets -> Seq(Ptrs)]
          /\ response_fifo' = [response_fifo EXCEPT ![target_thread[t].to] =
                                                      Append(@, target_thread[t].ptr)]
      BY <1>2 DEF TypeOK, TargetReturn
    <3> QED BY <2>1, <3>1, AppendAnywhere
  <2>3. target_thread' \in [Targets -> Job \cup {NULL}]
    BY <1>2 DEF TypeOK, TargetReturn
  <2>4. UNCHANGED <<rst_ni, todo, halted, txn, requester_map, request_fifo, initiator_thread,
                    serving, request_in_flight2, coreVars, dmm_bus, wbVars>>
    BY <1>2 DEF TargetReturn
  <2> QED BY <2>2, <2>3, <2>4 DEF TypeOK, coreVars, wbVars
<1> QED BY <1>1, <1>2

\* No step breaks the types.
LEMMA TypesKept == TypeOK /\ [Next]_vars => TypeOK'
<1> SUFFICES ASSUME TypeOK, [Next]_vars PROVE TypeOK'
  OBVIOUS
<1>1. CASE ReleaseReset \/ Posedge
  <2>1. rst_ni' \in BOOLEAN /\ todo' \subseteq {Core, Debugger, Uart}
    BY <1>1 DEF TypeOK, ReleaseReset, Posedge
  <2>2. UNCHANGED <<halted, txn, requester_map, fifoVars, initiator_thread, target_thread, serving,
                    request_in_flight2, coreVars, dmm_bus, wbVars>>
    BY <1>1 DEF ReleaseReset, Posedge
  <2> QED BY <2>1, <2>2 DEF TypeOK, fifoVars, coreVars, wbVars
<1>2. CASE ThreadNext
  BY <1>2, InitiatorKeepsTypes, ThreadTargetKeepsTypes, TargetKeepsTypes DEF ThreadNext
<1>3. CASE UNCHANGED vars
  BY <1>3 DEF TypeOK, vars, fifoVars, coreVars, wbVars
<1> QED BY <1>1, <1>2, <1>3, CoreKeepsTypes, DebuggerKeepsTypes, UartKeepsTypes
        DEF Next, DebuggerNext, UartNext

LEMMA TypesInit == Init => TypeOK
<1> SUFFICES ASSUME Init PROVE TypeOK
  OBVIOUS
<1>1. <<>> \in Seq(Ptrs)
  OBVIOUS
<1>2. /\ request_fifo \in [Initiators \cup Targets -> Seq(Ptrs)]
      /\ response_fifo \in [Initiators \cup Targets -> Seq(Ptrs)]
  BY <1>1 DEF Init
<1>3. /\ txn \in [Ptrs -> Payload \cup {NULL}] /\ requester_map \in [Ptrs -> Initiators \cup {NULL}]
      /\ initiator_thread \in [Initiators -> Job \cup {NULL}]
      /\ target_thread \in [Targets -> Job \cup {NULL}]
      /\ serving \in [Targets -> Ptrs \cup {NULL}]
  BY DEF Init
<1>4. /\ rst_ni = FALSE /\ todo = {} /\ halted = "no" /\ request_in_flight2 = NULL
      /\ core_bus = "idle" /\ core_access = 0 /\ resp = FALSE /\ rdata = 0
      /\ request_in_flight = NULL /\ dmm_bus = "idle"
      /\ wb_stb = FALSE /\ wb_busy = FALSE /\ wb_ack = FALSE
  BY DEF Init
<1> QED BY <1>2, <1>3, <1>4 DEF TypeOK

-----------------------------------------------------------------------------
(* The invariant.                                                          *)

HeldAt(kind, x, requests, responses, delivering, returning, served, stage2) ==
  CASE kind = "request" -> requests[x]
    [] kind = "response" -> responses[x]
    [] kind = "initiator_thread" -> IF x \in Initiators THEN Held(delivering[x]) ELSE <<>>
    [] kind = "target_thread" -> IF x \in Targets THEN Held(returning[x]) ELSE <<>>
    [] kind = "serving" -> IF x \in Targets THEN Slot(served[x]) ELSE <<>>
    [] kind = "second" -> IF x = Dms THEN Slot(stage2) ELSE <<>>

StoreOf(requests, responses, delivering, returning, served, stage2) ==
  [c \in Places |-> HeldAt(c[1], c[2], requests, responses, delivering, returning, served, stage2)]

Store == StoreOf(request_fifo, response_fifo, initiator_thread, target_thread, serving,
                 request_in_flight2)

Live(heap) == {p \in Ptrs : heap[p] # NULL}

\* An initiator keeps transactions of its own; a target those made to it, with
\* requester_map naming the owner.
BelongsTo(heap, map) ==
  [x \in Nodes |->
     {p \in Ptrs : /\ x \in Initiators => heap[p].owner = x
                   /\ x \in Targets => map[p] = heap[p].owner /\ heap[p].target = x}]

InOrder == Orderly(Store, Live(txn), BelongsTo(txn, requester_map))

\* A thread on its way knows where to.
Sent(job, to) == job # NULL => job.to \in to /\ job.ptr \in BelongsTo(txn, requester_map)[job.to]
ThreadsBound ==
  Running => /\ \A i \in Initiators : Sent(initiator_thread[i], Targets)
             /\ \A t \in Targets : Sent(target_thread[t], Initiators)

\* The core has one transaction, that of its present access, or none.
CoreOK ==
  /\ \A p \in Live(txn) : txn[p].owner = Core => p = request_in_flight
  /\ request_in_flight # NULL =>
       /\ core_bus # "idle" /\ ~resp /\ request_in_flight \in Live(txn)
       /\ txn[request_in_flight].owner = Core
       /\ txn[request_in_flight].access = core_access
  /\ resp => core_bus # "idle" /\ rdata = core_access

\* Why the program may have ended.
Ended == halted \in {"no", "unmapped", "bad_address", "method_blocked"}

BusInv == TypeOK /\ InOrder /\ ThreadsBound /\ CoreOK /\ Ended

LEMMA PlaceNames ==
  /\ \A k \in Kinds, x \in Nodes : <<k, x>> \in Places /\ <<k, x>>[1] = k /\ <<k, x>>[2] = x
  /\ \A c \in Places : c[1] \in Kinds /\ c[2] \in Nodes /\ c = <<c[1], c[2]>>
  BY DEF Places

\* A store is known by what it holds, kind by kind.
Shows(store, x, rq, rs, de, re, se, s2) ==
  /\ store[<<"request", x>>] = rq[x] /\ store[<<"response", x>>] = rs[x]
  /\ store[<<"initiator_thread", x>>] = IF x \in Initiators THEN Held(de[x]) ELSE <<>>
  /\ store[<<"target_thread", x>>] = IF x \in Targets THEN Held(re[x]) ELSE <<>>
  /\ store[<<"serving", x>>] = IF x \in Targets THEN Slot(se[x]) ELSE <<>>
  /\ store[<<"second", x>>] = IF x = Dms THEN Slot(s2) ELSE <<>>

LEMMA SameStore ==
  ASSUME NEW rq, NEW rs, NEW de, NEW re, NEW se, NEW s2,
         NEW store \in [Places -> Seq(Ptrs)],
         \A x \in Nodes : Shows(store, x, rq, rs, de, re, se, s2)
  PROVE  StoreOf(rq, rs, de, re, se, s2) = store
<1> DEFINE T == StoreOf(rq, rs, de, re, se, s2)
<1>1. T = [c \in Places |-> T[c]] /\ store = [c \in Places |-> store[c]]
  BY DEF StoreOf
<1> HIDE DEF T
<1>2. ASSUME NEW c \in Places PROVE T[c] = store[c]
  <2>1. PICK k \in Kinds, x \in Nodes : c = <<k, x>>
    BY PlaceNames
  <2>2. k \in {"request", "response", "initiator_thread", "target_thread", "serving", "second"}
    BY DEF Kinds
  <2>3. /\ T[<<"request", x>>] = rq[x] /\ T[<<"response", x>>] = rs[x]
        /\ T[<<"initiator_thread", x>>] = IF x \in Initiators THEN Held(de[x]) ELSE <<>>
        /\ T[<<"target_thread", x>>] = IF x \in Targets THEN Held(re[x]) ELSE <<>>
        /\ T[<<"serving", x>>] = IF x \in Targets THEN Slot(se[x]) ELSE <<>>
        /\ T[<<"second", x>>] = IF x = Dms THEN Slot(s2) ELSE <<>>
    <3>1. \A l \in Kinds : T[<<l, x>>] = HeldAt(l, x, rq, rs, de, re, se, s2)
      BY PlaceNames DEF T, StoreOf
    <3> QED BY <3>1 DEF HeldAt, Kinds
  <2>4. /\ T[<<"request", x>>] = store[<<"request", x>>]
        /\ T[<<"response", x>>] = store[<<"response", x>>]
        /\ T[<<"initiator_thread", x>>] = store[<<"initiator_thread", x>>]
        /\ T[<<"target_thread", x>>] = store[<<"target_thread", x>>]
        /\ T[<<"serving", x>>] = store[<<"serving", x>>]
        /\ T[<<"second", x>>] = store[<<"second", x>>]
    BY <2>3 DEF Shows
  <2> QED BY <2>1, <2>2, <2>4
<1> QED BY <1>1, <1>2 DEF T

LEMMA StoreNow ==
  ASSUME NEW x \in Nodes
  PROVE  /\ Store[<<"request", x>>] = request_fifo[x]
         /\ Store[<<"response", x>>] = response_fifo[x]
         /\ Store[<<"initiator_thread", x>>] =
              IF x \in Initiators THEN Held(initiator_thread[x]) ELSE <<>>
         /\ Store[<<"target_thread", x>>] = IF x \in Targets THEN Held(target_thread[x]) ELSE <<>>
         /\ Store[<<"serving", x>>] = IF x \in Targets THEN Slot(serving[x]) ELSE <<>>
         /\ Store[<<"second", x>>] = IF x = Dms THEN Slot(request_in_flight2) ELSE <<>>
<1>1. \A k \in Kinds : Store[<<k, x>>] = HeldAt(k, x, request_fifo, response_fifo, initiator_thread,
                                              target_thread, serving, request_in_flight2)
  BY PlaceNames DEF Store, StoreOf
<1> QED BY <1>1 DEF HeldAt, Kinds

\* The places by name, and that they differ.
LEMMA NamedPlaces ==
  ASSUME NEW x \in Nodes
  PROVE  /\ <<"request", x>> \in Places /\ <<"response", x>> \in Places
         /\ <<"initiator_thread", x>> \in Places /\ <<"target_thread", x>> \in Places
         /\ <<"serving", x>> \in Places /\ <<"second", x>> \in Places
  BY DEF Places, Kinds

\* A slot holds one transaction or none.
LEMMA SlotFacts ==
  ASSUME NEW p \in Ptrs
  PROVE  /\ Slot(NULL) = <<>> /\ Slot(p) = <<p>> /\ <<p>> # <<>>
         /\ Append(<<>>, p) = <<p>> /\ Tail(<<p>>) = <<>> /\ Head(<<p>>) = p
  BY NodeFacts DEF Slot

LEMMA HeldFacts ==
  ASSUME NEW job \in Job
  PROVE  job.ptr \in Ptrs /\ Held(NULL) = <<>> /\ Held(job) = <<job.ptr>>
  BY NodeFacts DEF Held, Job

LEMMA CoreKept ==
  ASSUME CoreOK, UNCHANGED <<txn, coreVars>> PROVE CoreOK'
<1>1. /\ txn' = txn /\ core_bus' = core_bus /\ core_access' = core_access /\ resp' = resp
      /\ rdata' = rdata /\ request_in_flight' = request_in_flight
  BY DEF coreVars
<1> QED BY <1>1 DEF CoreOK, Live

\* A step of a thread: a transaction moves on, nothing else changes.
LEMMA MoveStep ==
  ASSUME InOrder, NEW c \in Places, NEW d \in Places, c # d, Store[c] # <<>>,
         Head(Store[c]) \in BelongsTo(txn, requester_map)[d[2]],
         Store' = Moved(Store, c, d), txn' = txn, requester_map' = requester_map
  PROVE  InOrder'
<1>1. Orderly(Moved(Store, c, d), Live(txn), BelongsTo(txn, requester_map))
  BY MoveKeeps DEF InOrder
<1> QED BY <1>1 DEF InOrder

LEMMA MoveValues ==
  ASSUME InOrder, NEW c \in Places, NEW d \in Places, c # d, Store[c] # <<>>,
         Head(Store[c]) \in BelongsTo(txn, requester_map)[d[2]]
  PROVE  /\ Moved(Store, c, d) \in [Places -> Seq(Ptrs)]
         /\ \A e \in Places : Moved(Store, c, d)[e] =
              IF e = c THEN Tail(Store[c])
              ELSE IF e = d THEN Append(Store[d], Head(Store[c])) ELSE Store[e]
<1>1. Moved(Store, c, d) \in [Places -> Seq(Ptrs)]
  BY MoveKeeps DEF InOrder, Orderly
<1>2. Store \in [Places -> Seq(Ptrs)]
  BY DEF InOrder, Orderly
<1> QED BY <1>1, <1>2 DEF Moved

\* What is at a place is live and belongs there.
LEMMA HeadBelongs ==
  ASSUME InOrder, NEW c \in Places, Store[c] # <<>>
  PROVE  /\ Head(Store[c]) \in Ptrs /\ Head(Store[c]) \in Live(txn)
         /\ Head(Store[c]) \in BelongsTo(txn, requester_map)[c[2]]
         /\ Store[c] \in Seq(Ptrs)
  BY LeaveKeeps DEF InOrder, Orderly

LEMMA StoreBecomes ==
  ASSUME NEW new \in [Places -> Seq(Ptrs)],
         \A x \in Nodes : Shows(new, x, request_fifo', response_fifo', initiator_thread',
                                target_thread', serving', request_in_flight2')
  PROVE  Store' = new
  BY SameStore DEF Store

\* A step that takes the oldest transaction of one place on to another.
Moves(c, d) ==
  /\ c \in Places /\ d \in Places /\ c # d /\ Store[c] # <<>>
  /\ Head(Store[c]) \in BelongsTo(txn, requester_map)[d[2]]
  /\ Store' = Moved(Store, c, d) /\ txn' = txn

LEMMA ServeKeeps ==
  ASSUME BusInv, NEW t \in ThreadTargets, ThreadTargetServe(t)
  PROVE  /\ InOrder' /\ ThreadsBound' /\ CoreOK' /\ Ended'
         /\ Moves(<<"request", t>>, <<"serving", t>>)
<1> DEFINE c == <<"request", t>>
           d == <<"serving", t>>
           p == Head(request_fifo[t])
           new == Moved(Store, c, d)
<1>1. t \in Targets /\ t \in Nodes /\ t \notin Initiators
  BY NodeFacts DEF Nodes
<1>2. c \in Places /\ d \in Places /\ c # d /\ c[2] = t /\ d[2] = t
  BY <1>1, NamedPlaces
<1>3. /\ Store[c] = request_fifo[t] /\ request_fifo[t] # <<>>
      /\ Store[d] = <<>>
  BY <1>1, StoreNow DEF ThreadTargetServe, CanServe, Slot
<1>4. p \in Ptrs /\ p \in BelongsTo(txn, requester_map)[t]
  BY <1>2, <1>3, HeadBelongs DEF BusInv
<1>5. /\ new \in [Places -> Seq(Ptrs)]
      /\ \A e \in Places : new[e] = IF e = c THEN Tail(request_fifo[t])
                                    ELSE IF e = d THEN <<p>> ELSE Store[e]
  <2> HIDE DEF c, d, new
  <2>1. /\ new \in [Places -> Seq(Ptrs)]
        /\ \A e \in Places : new[e] = IF e = c THEN Tail(Store[c])
                                      ELSE IF e = d THEN Append(Store[d], Head(Store[c])) ELSE Store[e]
    BY <1>2, <1>3, <1>4, MoveValues DEF BusInv, new
  <2>2. Append(<<>>, p) = <<p>>
    BY <1>4, SlotFacts
  <2> QED BY <1>3, <2>1, <2>2
<1>6. Store' = new
  <2> HIDE DEF new
  <2>1. ASSUME NEW x \in Nodes
        PROVE Shows(new, x, request_fifo', response_fifo', initiator_thread', target_thread',
                    serving', request_in_flight2')
    <3>1. /\ new[<<"request", x>>] = IF x = t THEN Tail(request_fifo[t]) ELSE request_fifo[x]
          /\ new[<<"serving", x>>] = IF x = t THEN <<p>> ELSE Store[<<"serving", x>>]
          /\ \A k \in Kinds \ {"request", "serving"} : new[<<k, x>>] = Store[<<k, x>>]
      BY <1>5, PlaceNames, NamedPlaces, StoreNow
    <3>2. /\ request_fifo'[x] = IF x = t THEN Tail(request_fifo[t]) ELSE request_fifo[x]
          /\ x \in Targets => serving'[x] = IF x = t THEN p ELSE serving[x]
          /\ UNCHANGED <<response_fifo, initiator_thread, target_thread, request_in_flight2>>
      BY DEF ThreadTargetServe, BusInv, TypeOK, Nodes
    <3>3. Slot(p) = <<p>>
      BY <1>4, SlotFacts
    <3> QED BY <1>1, <3>1, <3>2, <3>3, StoreNow DEF Kinds, Shows
  <2> QED BY <1>5, <2>1, StoreBecomes
<1>7. InOrder'
  BY <1>2, <1>3, <1>4, <1>6, MoveStep DEF BusInv, ThreadTargetServe
<1>8. ThreadsBound' /\ Ended'
  BY DEF ThreadsBound, Ended, BusInv, ThreadTargetServe, Running, Sent
<1>9. CoreOK'
  BY CoreKept DEF BusInv, ThreadTargetServe
<1>10. Moves(c, d)
  BY <1>2, <1>3, <1>4, <1>6 DEF Moves, ThreadTargetServe
<1> QED BY <1>7, <1>8, <1>9, <1>10

LEMMA AnswerKeeps ==
  ASSUME BusInv, NEW t \in ThreadTargets, ThreadTargetAnswer(t)
  PROVE  /\ InOrder' /\ ThreadsBound' /\ CoreOK' /\ Ended'
         /\ Moves(<<"serving", t>>, <<"response", t>>)
<1> DEFINE c == <<"serving", t>>
           d == <<"response", t>>
           p == serving[t]
           new == Moved(Store, c, d)
<1>1. t \in Targets /\ t \in Nodes /\ t \notin Initiators
  BY NodeFacts DEF Nodes
<1>2. c \in Places /\ d \in Places /\ c # d /\ c[2] = t /\ d[2] = t
  BY <1>1, NamedPlaces
<1>3. p \in Ptrs /\ Slot(p) = <<p>> /\ Tail(<<p>>) = <<>> /\ Head(<<p>>) = p /\ <<p>> # <<>>
      /\ Slot(NULL) = <<>>
  BY <1>1, SlotFacts DEF BusInv, TypeOK, ThreadTargetAnswer, CanAnswer
<1>4. Store[c] = <<p>> /\ Store[d] = response_fifo[t] /\ Store[c] # <<>> /\ Head(Store[c]) = p
  BY <1>1, <1>3, StoreNow
<1>5. p \in BelongsTo(txn, requester_map)[t]
  BY <1>2, <1>3, <1>4, HeadBelongs DEF BusInv
<1>6. /\ new \in [Places -> Seq(Ptrs)]
      /\ \A e \in Places : new[e] = IF e = c THEN <<>>
                                    ELSE IF e = d THEN Append(response_fifo[t], p) ELSE Store[e]
  <2> HIDE DEF c, d, p, new
  <2>1. /\ new \in [Places -> Seq(Ptrs)]
        /\ \A e \in Places : new[e] = IF e = c THEN Tail(Store[c])
                                      ELSE IF e = d THEN Append(Store[d], Head(Store[c])) ELSE Store[e]
    BY <1>2, <1>3, <1>4, <1>5, MoveValues DEF BusInv, new
  <2> QED BY <1>3, <1>4, <2>1
<1>7. Store' = new
  <2> HIDE DEF new
  <2>1. ASSUME NEW x \in Nodes
        PROVE Shows(new, x, request_fifo', response_fifo', initiator_thread', target_thread',
                    serving', request_in_flight2')
    <3>1. /\ new[<<"response", x>>] = IF x = t THEN Append(response_fifo[t], p) ELSE response_fifo[x]
          /\ new[<<"serving", x>>] = IF x = t THEN <<>> ELSE Store[<<"serving", x>>]
          /\ \A k \in Kinds \ {"response", "serving"} : new[<<k, x>>] = Store[<<k, x>>]
      BY <1>6, PlaceNames, NamedPlaces, StoreNow
    <3>2. /\ response_fifo'[x] = IF x = t THEN Append(response_fifo[t], p) ELSE response_fifo[x]
          /\ x \in Targets => serving'[x] = IF x = t THEN NULL ELSE serving[x]
          /\ UNCHANGED <<request_fifo, initiator_thread, target_thread, request_in_flight2>>
      BY DEF ThreadTargetAnswer, BusInv, TypeOK, Nodes
    <3> QED BY <1>1, <1>3, <3>1, <3>2, StoreNow DEF Kinds, Shows
  <2> QED BY <1>6, <2>1, StoreBecomes
<1>8. InOrder'
  BY <1>2, <1>3, <1>4, <1>5, <1>7, MoveStep DEF BusInv, ThreadTargetAnswer
<1>9. ThreadsBound' /\ Ended'
  BY DEF ThreadsBound, Ended, BusInv, ThreadTargetAnswer, Running, Sent
<1>10. CoreOK'
  BY CoreKept DEF BusInv, ThreadTargetAnswer
<1>11. Moves(c, d)
  BY <1>2, <1>4, <1>5, <1>7 DEF Moves, ThreadTargetAnswer
<1> QED BY <1>8, <1>9, <1>10, <1>11

LEMMA DeliverKeeps ==
  ASSUME BusInv, NEW i \in Initiators, InitiatorDeliver(i)
  PROVE  /\ InOrder' /\ ThreadsBound' /\ CoreOK' /\ Ended'
         /\ Moves(<<"initiator_thread", i>>, <<"request", initiator_thread[i].to>>)
         /\ initiator_thread[i].to \in Targets
<1> DEFINE t == initiator_thread[i].to
           p == initiator_thread[i].ptr
           c == <<"initiator_thread", i>>
           d == <<"request", t>>
           new == Moved(Store, c, d)
<1>1. i \in Nodes /\ i \notin Targets /\ initiator_thread[i] \in Job /\ initiator_thread[i] # NULL
  BY NodeFacts DEF Nodes, BusInv, TypeOK, InitiatorDeliver, CanDeliver
<1>2. t \in Targets /\ t \in Nodes /\ p \in BelongsTo(txn, requester_map)[t]
  BY <1>1 DEF BusInv, ThreadsBound, Sent, InitiatorDeliver, Nodes
<1>3. c \in Places /\ d \in Places /\ c # d /\ d[2] = t
  BY <1>1, <1>2, NamedPlaces
<1>4. p \in Ptrs /\ Held(initiator_thread[i]) = <<p>> /\ Held(NULL) = <<>>
      /\ Tail(<<p>>) = <<>> /\ Head(<<p>>) = p /\ <<p>> # <<>>
  BY <1>1, HeldFacts, SlotFacts
<1>5. Store[c] = <<p>> /\ Store[d] = request_fifo[t] /\ Store[c] # <<>> /\ Head(Store[c]) = p
  BY <1>1, <1>2, <1>4, StoreNow
<1>6. /\ new \in [Places -> Seq(Ptrs)]
      /\ \A e \in Places : new[e] = IF e = c THEN <<>>
                                    ELSE IF e = d THEN Append(request_fifo[t], p) ELSE Store[e]
  <2> HIDE DEF c, d, p, new
  <2>1. /\ new \in [Places -> Seq(Ptrs)]
        /\ \A e \in Places : new[e] = IF e = c THEN Tail(Store[c])
                                      ELSE IF e = d THEN Append(Store[d], Head(Store[c])) ELSE Store[e]
    BY <1>2, <1>3, <1>5, MoveValues DEF BusInv, new
  <2> QED BY <1>4, <1>5, <2>1
<1>7. Store' = new
  <2> HIDE DEF new
  <2>1. ASSUME NEW x \in Nodes
        PROVE Shows(new, x, request_fifo', response_fifo', initiator_thread', target_thread',
                    serving', request_in_flight2')
    <3>1. /\ new[<<"request", x>>] = IF x = t THEN Append(request_fifo[t], p) ELSE request_fifo[x]
          /\ new[<<"initiator_thread", x>>] = IF x = i THEN <<>> ELSE Store[<<"initiator_thread", x>>]
          /\ \A k \in Kinds \ {"request", "initiator_thread"} : new[<<k, x>>] = Store[<<k, x>>]
      BY <1>6, PlaceNames, NamedPlaces, StoreNow
    <3>2. /\ request_fifo'[x] = IF x = t THEN Append(request_fifo[t], p) ELSE request_fifo[x]
          /\ x \in Initiators => initiator_thread'[x] = IF x = i THEN NULL ELSE initiator_thread[x]
          /\ UNCHANGED <<response_fifo, serving, target_thread, request_in_flight2>>
      BY DEF InitiatorDeliver, BusInv, TypeOK, Nodes
    <3> QED BY <1>1, <1>4, <3>1, <3>2, StoreNow DEF Kinds, Shows
  <2> QED BY <1>6, <2>1, StoreBecomes
<1>8. InOrder'
  BY <1>2, <1>3, <1>5, <1>7, MoveStep DEF BusInv, InitiatorDeliver
<1>9. ThreadsBound' /\ Ended'
  <2>1. \A j \in Initiators : initiator_thread'[j] \in {initiator_thread[j], NULL}
    BY DEF InitiatorDeliver, BusInv, TypeOK
  <2> QED BY <2>1 DEF ThreadsBound, Ended, BusInv, InitiatorDeliver, Running, Sent
<1>10. CoreOK'
  BY CoreKept DEF BusInv, InitiatorDeliver
<1>11. Moves(c, d)
  BY <1>2, <1>3, <1>5, <1>7 DEF Moves, InitiatorDeliver
<1> QED BY <1>8, <1>9, <1>10, <1>2, <1>11

LEMMA ReturnKeeps ==
  ASSUME BusInv, NEW t \in Targets, TargetReturn(t)
  PROVE  /\ InOrder' /\ ThreadsBound' /\ CoreOK' /\ Ended'
         /\ Moves(<<"target_thread", t>>, <<"response", target_thread[t].to>>)
         /\ target_thread[t].to \in Initiators
<1> DEFINE i == target_thread[t].to
           p == target_thread[t].ptr
           c == <<"target_thread", t>>
           d == <<"response", i>>
           new == Moved(Store, c, d)
<1>1. t \in Nodes /\ t \notin Initiators /\ target_thread[t] \in Job /\ target_thread[t] # NULL
  BY NodeFacts DEF Nodes, BusInv, TypeOK, TargetReturn, CanReturn
<1>2. i \in Initiators /\ i \in Nodes /\ p \in BelongsTo(txn, requester_map)[i]
  BY <1>1 DEF BusInv, ThreadsBound, Sent, TargetReturn, Nodes
<1>3. c \in Places /\ d \in Places /\ c # d /\ d[2] = i
  BY <1>1, <1>2, NamedPlaces
<1>4. p \in Ptrs /\ Held(target_thread[t]) = <<p>> /\ Held(NULL) = <<>>
      /\ Tail(<<p>>) = <<>> /\ Head(<<p>>) = p /\ <<p>> # <<>>
  BY <1>1, HeldFacts, SlotFacts
<1>5. Store[c] = <<p>> /\ Store[d] = response_fifo[i] /\ Store[c] # <<>> /\ Head(Store[c]) = p
  BY <1>1, <1>2, <1>4, StoreNow
<1>6. /\ new \in [Places -> Seq(Ptrs)]
      /\ \A e \in Places : new[e] = IF e = c THEN <<>>
                                    ELSE IF e = d THEN Append(response_fifo[i], p) ELSE Store[e]
  <2> HIDE DEF c, d, p, new
  <2>1. /\ new \in [Places -> Seq(Ptrs)]
        /\ \A e \in Places : new[e] = IF e = c THEN Tail(Store[c])
                                      ELSE IF e = d THEN Append(Store[d], Head(Store[c])) ELSE Store[e]
    BY <1>2, <1>3, <1>5, MoveValues DEF BusInv, new
  <2> QED BY <1>4, <1>5, <2>1
<1>7. Store' = new
  <2> HIDE DEF new
  <2>1. ASSUME NEW x \in Nodes
        PROVE Shows(new, x, request_fifo', response_fifo', initiator_thread', target_thread',
                    serving', request_in_flight2')
    <3>1. /\ new[<<"response", x>>] = IF x = i THEN Append(response_fifo[i], p) ELSE response_fifo[x]
          /\ new[<<"target_thread", x>>] = IF x = t THEN <<>> ELSE Store[<<"target_thread", x>>]
          /\ \A k \in Kinds \ {"response", "target_thread"} : new[<<k, x>>] = Store[<<k, x>>]
      BY <1>6, PlaceNames, NamedPlaces, StoreNow
    <3>2. /\ response_fifo'[x] = IF x = i THEN Append(response_fifo[i], p) ELSE response_fifo[x]
          /\ x \in Targets => target_thread'[x] = IF x = t THEN NULL ELSE target_thread[x]
          /\ UNCHANGED <<request_fifo, serving, initiator_thread, request_in_flight2>>
      BY DEF TargetReturn, BusInv, TypeOK, Nodes
    <3> QED BY <1>1, <1>4, <3>1, <3>2, StoreNow DEF Kinds, Shows
  <2> QED BY <1>6, <2>1, StoreBecomes
<1>8. InOrder'
  BY <1>2, <1>3, <1>5, <1>7, MoveStep DEF BusInv, TargetReturn
<1>9. ThreadsBound' /\ Ended'
  <2>1. \A u \in Targets : target_thread'[u] \in {target_thread[u], NULL}
    BY DEF TargetReturn, BusInv, TypeOK
  <2> QED BY <2>1 DEF ThreadsBound, Ended, BusInv, TargetReturn, Running, Sent
<1>10. CoreOK'
  BY CoreKept DEF BusInv, TargetReturn
<1>11. Moves(c, d)
  BY <1>2, <1>3, <1>5, <1>7 DEF Moves, TargetReturn
<1> QED BY <1>8, <1>9, <1>10, <1>2, <1>11

\* target_thread always finds that the transaction was made to it, and whose
\* it is.
LEMMA TakeKeeps ==
  ASSUME BusInv, NEW t \in Targets, TargetTake(t)
  PROVE  /\ InOrder' /\ ThreadsBound' /\ CoreOK' /\ Ended'
         /\ Moves(<<"response", t>>, <<"target_thread", t>>)
<1> DEFINE c == <<"response", t>>
           d == <<"target_thread", t>>
           p == Head(response_fifo[t])
           new == Moved(Store, c, d)
<1>1. t \in Nodes /\ t \notin Initiators
  BY NodeFacts DEF Nodes
<1>2. c \in Places /\ d \in Places /\ c # d /\ c[2] = t /\ d[2] = t
  BY <1>1, NamedPlaces
<1>3. /\ Store[c] = response_fifo[t] /\ response_fifo[t] # <<>>
      /\ Store[d] = <<>>
  BY <1>1, StoreNow DEF TargetTake, CanTake, Held
<1>4. p \in Ptrs /\ p \in BelongsTo(txn, requester_map)[t] /\ p \in Live(txn)
  BY <1>2, <1>3, HeadBelongs DEF BusInv
<1>5. /\ TargetOf(p) = t /\ requester_map[p] = txn[p].owner /\ txn[p].owner \in Initiators
      /\ requester_map[p] # NULL /\ p \in BelongsTo(txn, requester_map)[txn[p].owner]
  <2>1. txn[p] # NULL /\ requester_map[p] = txn[p].owner /\ txn[p].target = t
    BY <1>1, <1>4 DEF Live, BelongsTo
  <2>2. txn[p].owner \in Initiators
    BY <1>4, <2>1, TargetOfTyped DEF BusInv
  <2>3. p \in BelongsTo(txn, requester_map)[txn[p].owner]
    BY <1>4, <2>2, NodeFacts DEF BelongsTo, Nodes
  <2> QED BY <2>1, <2>2, <2>3, NodeFacts DEF TargetOf
<1>6. /\ target_thread' = [target_thread EXCEPT ![t] = [ptr |-> p, to |-> txn[p].owner]]
      /\ halted' = halted /\ txn' = txn /\ requester_map' = requester_map
  BY <1>5 DEF TargetTake
<1>7. /\ new \in [Places -> Seq(Ptrs)]
      /\ \A e \in Places : new[e] = IF e = c THEN Tail(response_fifo[t])
                                    ELSE IF e = d THEN <<p>> ELSE Store[e]
  <2> HIDE DEF c, d, new
  <2>1. /\ new \in [Places -> Seq(Ptrs)]
        /\ \A e \in Places : new[e] = IF e = c THEN Tail(Store[c])
                                      ELSE IF e = d THEN Append(Store[d], Head(Store[c])) ELSE Store[e]
    BY <1>2, <1>3, <1>4, MoveValues DEF BusInv, new
  <2>2. Append(<<>>, p) = <<p>>
    BY <1>4, SlotFacts
  <2> QED BY <1>3, <2>1, <2>2
<1>8. Store' = new
  <2> HIDE DEF new
  <2>1. ASSUME NEW x \in Nodes
        PROVE Shows(new, x, request_fifo', response_fifo', initiator_thread', target_thread',
                    serving', request_in_flight2')
    <3>1. /\ new[<<"response", x>>] = IF x = t THEN Tail(response_fifo[t]) ELSE response_fifo[x]
          /\ new[<<"target_thread", x>>] = IF x = t THEN <<p>> ELSE Store[<<"target_thread", x>>]
          /\ \A k \in Kinds \ {"response", "target_thread"} : new[<<k, x>>] = Store[<<k, x>>]
      BY <1>7, PlaceNames, NamedPlaces, StoreNow
    <3>2. /\ response_fifo'[x] = IF x = t THEN Tail(response_fifo[t]) ELSE response_fifo[x]
          /\ x \in Targets => target_thread'[x] = IF x = t THEN [ptr |-> p, to |-> txn[p].owner]
                                                            ELSE target_thread[x]
          /\ UNCHANGED <<request_fifo, serving, initiator_thread, request_in_flight2>>
      BY <1>6 DEF TargetTake, BusInv, TypeOK, Nodes
    <3>3. Held([ptr |-> p, to |-> txn[p].owner]) = <<p>>
      <4>1. [ptr |-> p, to |-> txn[p].owner] \in Job
        BY <1>4, <1>5 DEF Job
      <4> QED BY <4>1, HeldFacts
    <3> QED BY <1>1, <3>1, <3>2, <3>3, StoreNow DEF Kinds, Shows
  <2> QED BY <1>7, <2>1, StoreBecomes
<1>9. InOrder'
  BY <1>2, <1>3, <1>4, <1>6, <1>8, MoveStep DEF BusInv
<1>10. ThreadsBound' /\ Ended'
  <2>1. \A u \in Targets : Sent(target_thread[u], Initiators) => Sent(target_thread[u], Initiators)'
    <3>1. \A u \in Targets : target_thread'[u] = IF u = t THEN [ptr |-> p, to |-> txn[p].owner]
                                                          ELSE target_thread[u]
      BY <1>6 DEF BusInv, TypeOK
    <3> QED BY <1>5, <1>6, <3>1 DEF Sent
  <2>2. Running /\ Running' /\ initiator_thread' = initiator_thread
    BY <1>6 DEF TargetTake, Running
  <2> QED BY <1>6, <2>1, <2>2 DEF ThreadsBound, Ended, BusInv, Sent
<1>11. CoreOK'
  BY CoreKept DEF BusInv, TargetTake
<1>12. Moves(c, d)
  BY <1>2, <1>3, <1>4, <1>6, <1>8 DEF Moves
<1> QED BY <1>9, <1>10, <1>11, <1>12

\* handle_initiator_req: from here on requester_map names the owner, also when
\* it held an entry for an older transaction at the same address.
LEMMA FetchKeeps ==
  ASSUME BusInv, NEW i \in Initiators, InitiatorFetch(i)
  PROVE  /\ InOrder' /\ ThreadsBound' /\ CoreOK' /\ Ended'
         /\ Moves(<<"request", i>>, <<"initiator_thread", i>>)
<1> DEFINE c == <<"request", i>>
           d == <<"initiator_thread", i>>
           p == Head(request_fifo[i])
           to == TargetOf(p)
           job == [ptr |-> p, to |-> to]
           new == Moved(Store, c, d)
<1>1. i \in Nodes /\ i \notin Targets
  BY NodeFacts DEF Nodes
<1>2. c \in Places /\ d \in Places /\ c # d /\ c[2] = i /\ d[2] = i
  BY <1>1, NamedPlaces
<1>3. /\ Store[c] = request_fifo[i] /\ request_fifo[i] # <<>>
      /\ Store[d] = <<>>
  BY <1>1, StoreNow DEF InitiatorFetch, CanFetch, Held
<1>4. p \in Ptrs /\ p \in BelongsTo(txn, requester_map)[i] /\ p \in Live(txn)
  BY <1>2, <1>3, HeadBelongs DEF BusInv
<1>5. /\ txn[p] # NULL /\ to = txn[p].target /\ txn[p].owner = i
      /\ to \in Targets \cup {NULL} /\ job \in Job
  BY <1>1, <1>4, TargetOfTyped DEF BusInv, Live, BelongsTo, TargetOf, Job
<1>6. /\ new \in [Places -> Seq(Ptrs)]
      /\ \A e \in Places : new[e] = IF e = c THEN Tail(request_fifo[i])
                                    ELSE IF e = d THEN <<p>> ELSE Store[e]
  <2> HIDE DEF c, d, new
  <2>1. /\ new \in [Places -> Seq(Ptrs)]
        /\ \A e \in Places : new[e] = IF e = c THEN Tail(Store[c])
                                      ELSE IF e = d THEN Append(Store[d], Head(Store[c])) ELSE Store[e]
    BY <1>2, <1>3, <1>4, MoveValues DEF BusInv, new
  <2>2. Append(<<>>, p) = <<p>>
    BY <1>4, SlotFacts
  <2> QED BY <1>3, <2>1, <2>2
<1>7. Store' = new
  <2> HIDE DEF new
  <2>1. ASSUME NEW x \in Nodes
        PROVE Shows(new, x, request_fifo', response_fifo', initiator_thread', target_thread',
                    serving', request_in_flight2')
    <3>1. /\ new[<<"request", x>>] = IF x = i THEN Tail(request_fifo[i]) ELSE request_fifo[x]
          /\ new[<<"initiator_thread", x>>] = IF x = i THEN <<p>> ELSE Store[<<"initiator_thread", x>>]
          /\ \A k \in Kinds \ {"request", "initiator_thread"} : new[<<k, x>>] = Store[<<k, x>>]
      BY <1>6, PlaceNames, NamedPlaces, StoreNow
    <3>2. /\ request_fifo'[x] = IF x = i THEN Tail(request_fifo[i]) ELSE request_fifo[x]
          /\ x \in Initiators => initiator_thread'[x] = IF x = i THEN job ELSE initiator_thread[x]
          /\ UNCHANGED <<response_fifo, serving, target_thread, request_in_flight2>>
      BY DEF InitiatorFetch, BusInv, TypeOK, Nodes
    <3>3. Held(job) = <<p>>
      BY <1>5, HeldFacts
    <3> HIDE DEF job
    <3> QED BY <1>1, <3>1, <3>2, <3>3, StoreNow DEF Kinds, Shows
  <2> QED BY <1>6, <2>1, StoreBecomes
<1>8. /\ txn' = txn /\ requester_map' \in [Ptrs -> Initiators \cup {NULL}]
      /\ \A q \in Ptrs : requester_map'[q] = IF q = p /\ to # NULL THEN i ELSE requester_map[q]
  <2>1. txn' = txn /\ requester_map' = IF to = NULL THEN requester_map ELSE Remember(p, i)
    BY DEF InitiatorFetch
  <2>2. requester_map \in [Ptrs -> Initiators \cup {NULL}]
    BY DEF BusInv, TypeOK
  <2> HIDE DEF to, p
  <2> QED BY <1>4, <2>1, <2>2 DEF Remember
<1>9. \A x \in Nodes : BelongsTo(txn, requester_map)[x] \subseteq BelongsTo(txn', requester_map')[x]
  BY <1>5, <1>8 DEF BelongsTo
<1>10. InOrder'
  <2>1. Orderly(new, Live(txn), BelongsTo(txn, requester_map))
    BY <1>2, <1>3, <1>4, MoveKeeps DEF BusInv, InOrder
  <2> HIDE DEF new
  <2>2. Orderly(new, Live(txn), BelongsTo(txn', requester_map'))
    BY <1>9, <2>1, OthersMayChange
  <2> QED BY <1>7, <1>8, <2>2 DEF InOrder
<1>11. ThreadsBound'
  <2> SUFFICES ASSUME Running' PROVE ThreadsBound'
    BY DEF ThreadsBound
  <2>1. to # NULL /\ Running /\ target_thread' = target_thread
    BY <1>5 DEF InitiatorFetch, Running
  <2>2. to \in Targets /\ to \in Nodes /\ p \in BelongsTo(txn', requester_map')[to]
    BY <1>4, <1>5, <1>8, <2>1, NodeFacts DEF BelongsTo, Nodes
  <2>3. ASSUME NEW j \in Initiators PROVE Sent(initiator_thread[j], Targets)'
    <3>1. CASE j = i
      <4>1. initiator_thread'[j] = job
        BY <3>1 DEF InitiatorFetch, BusInv, TypeOK
      <4> QED BY <2>2, <4>1 DEF Sent
    <3>2. CASE j # i
      <4>1. initiator_thread'[j] = initiator_thread[j] /\ Sent(initiator_thread[j], Targets)
        BY <2>1, <3>2 DEF InitiatorFetch, BusInv, TypeOK, ThreadsBound
      <4> QED BY <1>9, <4>1 DEF Sent, Nodes
    <3> QED BY <3>1, <3>2
  <2>4. ASSUME NEW u \in Targets PROVE Sent(target_thread[u], Initiators)'
    <3>1. Sent(target_thread[u], Initiators)
      BY <2>1 DEF BusInv, ThreadsBound
    <3> QED BY <1>9, <2>1, <3>1 DEF Sent, Nodes
  <2> QED BY <2>3, <2>4 DEF ThreadsBound
<1>12. Ended'
  BY <1>5 DEF InitiatorFetch, BusInv, Ended
<1>13. CoreOK'
  BY CoreKept DEF BusInv, InitiatorFetch
<1>14. Moves(c, d)
  BY <1>2, <1>3, <1>4, <1>7, <1>8 DEF Moves
<1> QED BY <1>10, <1>11, <1>12, <1>13, <1>14

\* A thread that waits, with nothing changed that it depends on.
LEMMA ThreadsKept ==
  ASSUME ThreadsBound, Running,
         UNCHANGED <<txn, requester_map, initiator_thread, target_thread>>
  PROVE  ThreadsBound'
  BY DEF ThreadsBound, Sent, Running

\* The uart's method answers one request and takes the next, at one edge.
AnsweredAt(store) ==
  IF UartAnswered THEN Shifted(store, <<"serving", Uart>>, <<"response", Uart>>) ELSE store
AcceptedAt(store) ==
  IF UartAccepts THEN Shifted(store, <<"request", Uart>>, <<"serving", Uart>>) ELSE store

LEMMA UartKeeps ==
  ASSUME BusInv, NEW ack \in BOOLEAN, UartClock(ack)
  PROVE  /\ InOrder' /\ ThreadsBound' /\ CoreOK' /\ Ended'
         /\ Store' = AcceptedAt(AnsweredAt(Store)) /\ txn' = txn
<1> DEFINE c == <<"request", Uart>>
           d == <<"serving", Uart>>
           e == <<"response", Uart>>
           mid == IF UartAnswered THEN Shifted(Store, d, e) ELSE Store
           new == IF UartAccepts THEN Shifted(mid, c, d) ELSE mid
           B == BelongsTo(txn, requester_map)
<1>1. Uart \in Targets /\ Uart \in Nodes /\ Uart \notin Initiators
  BY NodeFacts DEF Nodes
<1>2. /\ c \in Places /\ d \in Places /\ e \in Places /\ c # d /\ d # e /\ c # e
      /\ c[2] = d[2] /\ d[2] = e[2]
  BY <1>1, NamedPlaces
<1>3. /\ Store[c] = request_fifo[Uart] /\ Store[d] = Slot(serving[Uart])
      /\ Store[e] = response_fifo[Uart] /\ Orderly(Store, Live(txn), B)
  BY <1>1, StoreNow DEF BusInv, InOrder
<1>4. serving[Uart] # NULL => /\ serving[Uart] \in Ptrs /\ Slot(serving[Uart]) = <<serving[Uart]>>
                              /\ Tail(<<serving[Uart]>>) = <<>> /\ <<serving[Uart]>> # <<>>
                              /\ Head(<<serving[Uart]>>) = serving[Uart]
  BY <1>1, SlotFacts DEF BusInv, TypeOK
<1>5. Slot(NULL) = <<>>
  BY DEF Slot
<1>6. /\ Orderly(mid, Live(txn), B)
      /\ \A x \in Places : mid[x] =
           IF UartAnswered /\ x = d THEN <<>>
           ELSE IF UartAnswered /\ x = e THEN Append(response_fifo[Uart], serving[Uart])
           ELSE Store[x]
  <2>1. CASE ~UartAnswered
    BY <1>3, <2>1
  <2>2. CASE UartAnswered
    <3> HIDE DEF c, d, e, B
    <3>1. mid = Shifted(Store, d, e) /\ Store[d] = <<serving[Uart]>> /\ serving[Uart] # NULL
      BY <1>3, <1>4, <2>2 DEF UartAnswered
    <3>2. Orderly(mid, Live(txn), B)
      BY <1>2, <1>3, <3>1, ShiftKeeps
    <3>3. \A x \in Places : mid[x] = IF Store[d] = <<>> THEN Store[x]
                                     ELSE IF x = d THEN Tail(Store[d])
                                     ELSE IF x = e THEN Append(Store[e], Head(Store[d])) ELSE Store[x]
      BY <1>2, <1>3, <3>1 DEF Orderly, Shifted, Moved
    <3> HIDE DEF mid
    <3> QED BY <1>3, <1>4, <2>2, <3>1, <3>2, <3>3
  <2> QED BY <2>1, <2>2
<1>7. UartAccepts => /\ request_fifo[Uart] # <<>> /\ mid[c] = request_fifo[Uart] /\ mid[d] = <<>>
                     /\ Head(request_fifo[Uart]) \in Ptrs
  <2> SUFFICES ASSUME UartAccepts
               PROVE /\ request_fifo[Uart] # <<>> /\ mid[c] = request_fifo[Uart] /\ mid[d] = <<>>
                     /\ Head(request_fifo[Uart]) \in Ptrs
    OBVIOUS
  <2> HIDE DEF mid
  <2>1. request_fifo[Uart] # <<>> /\ (serving[Uart] = NULL \/ UartAnswered)
    BY DEF UartAccepts, UartAnswered
  <2>2. Head(request_fifo[Uart]) \in Ptrs
    BY <1>2, <1>3, <2>1, HeadBelongs DEF BusInv
  <2> QED BY <1>2, <1>3, <1>5, <1>6, <2>1, <2>2
<1>8. /\ Orderly(new, Live(txn), B)
      /\ \A x \in Places : new[x] =
           IF UartAccepts /\ x = c THEN Tail(request_fifo[Uart])
           ELSE IF UartAccepts /\ x = d THEN <<Head(request_fifo[Uart])>>
           ELSE mid[x]
  <2> HIDE DEF mid
  <2>1. CASE ~UartAccepts
    BY <1>6, <2>1
  <2>2. CASE UartAccepts
    <3> HIDE DEF c, d, e, B
    <3>1. new = Shifted(mid, c, d) /\ mid[c] # <<>>
      BY <1>7, <2>2
    <3>2. Orderly(new, Live(txn), B)
      BY <1>2, <1>6, <3>1, ShiftKeeps
    <3>3. \A x \in Places : new[x] = IF mid[c] = <<>> THEN mid[x]
                                     ELSE IF x = c THEN Tail(mid[c])
                                     ELSE IF x = d THEN Append(mid[d], Head(mid[c])) ELSE mid[x]
      BY <1>2, <1>6, <3>1 DEF Orderly, Shifted, Moved
    <3>4. Append(<<>>, Head(request_fifo[Uart])) = <<Head(request_fifo[Uart])>>
      BY <1>7, <2>2, SlotFacts
    <3> HIDE DEF new
    <3> QED BY <1>7, <2>2, <3>1, <3>2, <3>3, <3>4
  <2> QED BY <2>1, <2>2
<1>9. Store' = new
  <2> HIDE DEF new, mid
  <2>1. ASSUME NEW x \in Nodes
        PROVE Shows(new, x, request_fifo', response_fifo', initiator_thread', target_thread',
                    serving', request_in_flight2')
    <3>1. /\ new[<<"request", x>>] = IF UartAccepts /\ x = Uart THEN Tail(request_fifo[Uart])
                                                               ELSE request_fifo[x]
          /\ new[<<"response", x>>] = IF UartAnswered /\ x = Uart
                                        THEN Append(response_fifo[Uart], serving[Uart])
                                        ELSE response_fifo[x]
          /\ new[<<"serving", x>>] = IF UartAccepts /\ x = Uart THEN <<Head(request_fifo[Uart])>>
                                     ELSE IF UartAnswered /\ x = Uart THEN <<>>
                                     ELSE Store[<<"serving", x>>]
          /\ \A k \in Kinds \ {"request", "response", "serving"} : new[<<k, x>>] = Store[<<k, x>>]
      <4>1. \A k \in Kinds : /\ <<k, x>> \in Places /\ (<<k, x>> = c <=> k = "request" /\ x = Uart)
                             /\ (<<k, x>> = d <=> k = "serving" /\ x = Uart)
                             /\ (<<k, x>> = e <=> k = "response" /\ x = Uart)
        BY PlaceNames
      <4>2. "request" \in Kinds /\ "response" \in Kinds /\ "serving" \in Kinds
        BY DEF Kinds
      <4> HIDE DEF c, d, e
      <4> QED BY <1>6, <1>8, <4>1, <4>2, StoreNow
    <3>2. /\ request_fifo'[x] = IF UartAccepts /\ x = Uart THEN Tail(request_fifo[Uart])
                                                           ELSE request_fifo[x]
          /\ response_fifo'[x] = IF UartAnswered /\ x = Uart
                                   THEN Append(response_fifo[Uart], serving[Uart])
                                   ELSE response_fifo[x]
          /\ x \in Targets => serving'[x] = IF UartAccepts /\ x = Uart THEN Head(request_fifo[Uart])
                                            ELSE IF UartAnswered /\ x = Uart THEN NULL
                                            ELSE serving[x]
          /\ UNCHANGED <<initiator_thread, target_thread, request_in_flight2>>
      BY <1>1 DEF UartClock, BusInv, TypeOK, Nodes
    <3>3. UartAccepts => Slot(Head(request_fifo[Uart])) = <<Head(request_fifo[Uart])>>
      BY <1>7, SlotFacts
    <3> QED BY <1>1, <1>5, <3>1, <3>2, <3>3, StoreNow DEF Kinds, Shows
  <2>2. new \in [Places -> Seq(Ptrs)]
    BY <1>8 DEF Orderly
  <2> QED BY <2>1, <2>2, StoreBecomes
<1>10. InOrder'
  BY <1>8, <1>9 DEF InOrder, UartClock
<1>11. ThreadsBound' /\ Ended' /\ CoreOK'
  BY ThreadsKept, CoreKept DEF BusInv, Ended, UartClock, EndIf
<1>12. Store' = AcceptedAt(AnsweredAt(Store)) /\ txn' = txn
  BY <1>9 DEF UartClock, AnsweredAt, AcceptedAt
<1> QED BY <1>10, <1>11, <1>12

\* A transaction in the hands of a thread is live.
LEMMA ThreadPtrs ==
  ASSUME NEW rq, NEW rs, NEW de, NEW re, NEW se, NEW s2, NEW live, NEW belongs,
         Orderly(StoreOf(rq, rs, de, re, se, s2), live, belongs)
  PROVE  /\ \A i \in Initiators : de[i] \in Job => de[i].ptr \in live
         /\ \A t \in Targets : re[t] \in Job => re[t].ptr \in live
<1> DEFINE S == StoreOf(rq, rs, de, re, se, s2)
<1>1. ASSUME NEW c \in Places, NEW j \in Job, S[c] = Held(j) PROVE j.ptr \in live
  <2>1. S[c] = <<j.ptr>> /\ j.ptr \in Ptrs
    BY <1>1, HeldFacts
  <2>2. S[c] # <<>> /\ Head(S[c]) = j.ptr
    BY <2>1, SlotFacts
  <2> HIDE DEF S
  <2> QED BY <2>2, LeaveKeeps DEF S
<1>2. ASSUME NEW i \in Initiators PROVE S[<<"initiator_thread", i>>] = Held(de[i])
  BY <1>2, PlaceNames DEF StoreOf, HeldAt, Kinds, Nodes
<1>3. ASSUME NEW t \in Targets PROVE S[<<"target_thread", t>>] = Held(re[t])
  BY <1>3, PlaceNames DEF StoreOf, HeldAt, Kinds, Nodes
<1>4. /\ \A i \in Initiators : <<"initiator_thread", i>> \in Places
      /\ \A t \in Targets : <<"target_thread", t>> \in Places
  BY NamedPlaces DEF Nodes
<1> HIDE DEF S
<1> QED BY <1>1, <1>2, <1>3, <1>4

\* A waiting thread is not disturbed by transactions that come and go.
LEMMA ThreadsStill ==
  ASSUME BusInv, Running, InOrder', UNCHANGED <<initiator_thread, target_thread>>,
         \A x \in Nodes : BelongsTo(txn, requester_map)[x] \cap Live(txn) \cap Live(txn')
                            \subseteq BelongsTo(txn', requester_map')[x]
  PROVE  ThreadsBound'
<1>1. /\ \A i \in Initiators : initiator_thread[i] \in Job \cup {NULL}
      /\ \A t \in Targets : target_thread[t] \in Job \cup {NULL}
  BY DEF BusInv, TypeOK
<1>2. /\ \A i \in Initiators : initiator_thread[i] \in Job => initiator_thread[i].ptr \in Live(txn)
      /\ \A t \in Targets : target_thread[t] \in Job => target_thread[t].ptr \in Live(txn)
  BY ThreadPtrs DEF BusInv, InOrder, Store
<1>3. /\ \A i \in Initiators : initiator_thread'[i] \in Job => initiator_thread'[i].ptr \in Live(txn')
      /\ \A t \in Targets : target_thread'[t] \in Job => target_thread'[t].ptr \in Live(txn')
  BY ThreadPtrs DEF InOrder, Store
<1>4. ASSUME NEW i \in Initiators PROVE Sent(initiator_thread[i], Targets)'
  BY <1>1, <1>2, <1>3 DEF BusInv, ThreadsBound, Sent, Nodes
<1>5. ASSUME NEW t \in Targets PROVE Sent(target_thread[t], Initiators)'
  BY <1>1, <1>2, <1>3 DEF BusInv, ThreadsBound, Sent, Nodes
<1> QED BY <1>4, <1>5 DEF ThreadsBound

LEMMA IssueKeeps ==
  ASSUME BusInv, CoreClock, NEW p \in Ptrs, CoreIssue(p)
  PROVE  /\ InOrder' /\ ThreadsBound' /\ CoreOK' /\ Ended'
         /\ p \in Ptrs /\ p \notin Live(txn) /\ core_bus \in Destinations
         /\ Store' = Entered(Store, <<"request", Core>>, p)
         /\ \A q \in Ptrs : txn'[q] =
              IF q = p THEN [owner |-> Core, target |-> core_bus, access |-> core_access] ELSE txn[q]
<1> DEFINE d == <<"request", Core>>
           new == Entered(Store, d, p)
           load == [owner |-> Core, target |-> core_bus, access |-> core_access]
           B == BelongsTo(txn', requester_map')
<1>1. Core \in Initiators /\ Core \in Nodes /\ Core \notin Targets /\ NULL \notin Ptrs
  BY NodeFacts DEF Nodes
<1>2. d \in Places /\ d[2] = Core /\ Store[d] = request_fifo[Core]
  BY <1>1, NamedPlaces, StoreNow
<1>3. p \notin Live(txn) /\ txn[p] = NULL
  BY DEF CoreIssue, Free, Live
<1>4. /\ \A q \in Ptrs : txn'[q] = IF q = p THEN load ELSE txn[q]
      /\ load # NULL /\ requester_map' = requester_map
  <2>1. load \in Payload
    BY <1>1, NodeFacts DEF BusInv, TypeOK, CoreIssue, CoreIssues, Payload
  <2>2. load # NULL
    BY <2>1, NodeFacts
  <2> QED BY <2>2 DEF CoreIssue, CoreClock, BusInv, TypeOK
<1>5. Live(txn') = Live(txn) \cup {p}
  BY <1>3, <1>4 DEF Live
<1>6. \A x \in Nodes : BelongsTo(txn, requester_map)[x] \cap Live(txn) \subseteq B[x]
  <2> SUFFICES ASSUME NEW x \in Nodes, NEW q \in BelongsTo(txn, requester_map)[x], q \in Live(txn)
               PROVE q \in B[x]
    OBVIOUS
  <2>1. q \in Ptrs /\ q # p /\ txn'[q] = txn[q]
    BY <1>3, <1>4 DEF Live
  <2> QED BY <1>4, <2>1 DEF BelongsTo
<1>7. p \in B[Core]
  BY <1>1, <1>4 DEF BelongsTo
<1>8. Orderly(new, Live(txn'), B)
  <2> HIDE DEF d, B
  <2>1. Orderly(Store, Live(txn), B)
    BY <1>6, OthersMayChange DEF BusInv, InOrder
  <2> QED BY <1>2, <1>3, <1>5, <1>7, <2>1, EnterKeeps
<1>9. \A e \in Places : new[e] = IF e = d THEN Append(request_fifo[Core], p) ELSE Store[e]
  BY <1>2 DEF Entered, BusInv, InOrder, Orderly
<1>10. Store' = new
  <2> HIDE DEF new
  <2>1. ASSUME NEW x \in Nodes
        PROVE Shows(new, x, request_fifo', response_fifo', initiator_thread', target_thread',
                    serving', request_in_flight2')
    <3>1. /\ new[<<"request", x>>] = IF x = Core THEN Append(request_fifo[Core], p) ELSE request_fifo[x]
          /\ \A k \in Kinds \ {"request"} : new[<<k, x>>] = Store[<<k, x>>]
      BY <1>9, PlaceNames, NamedPlaces, StoreNow
    <3>2. /\ request_fifo'[x] = IF x = Core THEN Append(request_fifo[Core], p) ELSE request_fifo[x]
          /\ UNCHANGED <<response_fifo, initiator_thread, target_thread, serving, request_in_flight2>>
      BY DEF CoreIssue, CoreClock, BusInv, TypeOK, Nodes
    <3> QED BY <3>1, <3>2, StoreNow DEF Kinds, Shows
  <2>2. new \in [Places -> Seq(Ptrs)]
    BY <1>8 DEF Orderly
  <2> QED BY <2>1, <2>2, StoreBecomes
<1>11. InOrder'
  BY <1>8, <1>10 DEF InOrder
<1>12. ThreadsBound'
  BY <1>6, <1>11, ThreadsStill DEF CoreClock
<1>13. CoreOK'
  <2>1. core_bus # "idle" /\ ~resp /\ core_bus' = core_bus /\ core_access' = core_access
        /\ request_in_flight = NULL /\ request_in_flight' = p /\ resp' = FALSE
    BY DEF CoreIssue, CoreIssues, CoreClock, VcoreStep
  <2>2. ASSUME NEW q \in Live(txn'), txn'[q].owner = Core PROVE q = p
    <3> SUFFICES ASSUME q # p PROVE FALSE
      OBVIOUS
    <3>1. q \in Live(txn) /\ txn'[q] = txn[q] /\ q \in Ptrs
      BY <1>4, <1>5 DEF Live
    <3> QED BY <1>1, <2>1, <2>2, <3>1 DEF BusInv, CoreOK
  <2>3. p \in Live(txn') /\ txn'[p].owner = Core /\ txn'[p].access = core_access
    BY <1>4, <1>5
  <2> QED BY <2>1, <2>2, <2>3 DEF CoreOK
<1>14. Ended'
  BY DEF BusInv, Ended, CoreIssue, EndIf
<1>15. core_bus \in Destinations
  BY DEF BusInv, TypeOK, CoreIssue, CoreIssues
<1> QED BY <1>11, <1>12, <1>13, <1>14, <1>3, <1>4, <1>10, <1>15

\* The response rv_core receives is the one it waits for.
LEMMA ReceiveKeeps ==
  ASSUME BusInv, CoreClock, CoreReceive
  PROVE  /\ InOrder' /\ ThreadsBound' /\ CoreOK' /\ Ended'
         /\ Store[<<"response", Core>>] # <<>> /\ Store' = Left(Store, <<"response", Core>>)
         /\ Head(Store[<<"response", Core>>]) \in Live(txn)
         /\ txn[Head(Store[<<"response", Core>>])].owner = Core
         /\ \A q \in Ptrs :
              txn'[q] = IF q = Head(Store[<<"response", Core>>]) THEN NULL ELSE txn[q]
<1> DEFINE c == <<"response", Core>>
           p == Head(response_fifo[Core])
           new == Left(Store, c)
           B == BelongsTo(txn', requester_map')
<1>1. Core \in Initiators /\ Core \in Nodes /\ Core \notin Targets /\ NULL \notin Ptrs
  BY NodeFacts DEF Nodes
<1>2. c \in Places /\ c[2] = Core /\ Store[c] = response_fifo[Core] /\ response_fifo[Core] # <<>>
  BY <1>1, NamedPlaces, StoreNow DEF CoreReceive
<1>3. p \in Ptrs /\ p \in Live(txn) /\ txn[p].owner = Core /\ txn[p] # NULL
  <2>1. p \in Ptrs /\ p \in Live(txn) /\ p \in BelongsTo(txn, requester_map)[Core]
    BY <1>2, HeadBelongs DEF BusInv
  <2> QED BY <1>1, <2>1 DEF BelongsTo, Live
<1>4. /\ p = request_in_flight /\ request_in_flight # NULL /\ core_bus # "idle" /\ ~resp
      /\ txn[p].access = core_access
  BY <1>1, <1>3 DEF BusInv, CoreOK
<1>5. /\ halted' = halted /\ resp' = TRUE /\ rdata' = core_access /\ request_in_flight' = NULL
      /\ core_bus' = core_bus /\ core_access' = core_access /\ requester_map' = requester_map
  BY <1>3, <1>4 DEF CoreReceive, CoreIssues, CoreClock, VcoreStep
<1>6. \A q \in Ptrs : txn'[q] = IF q = p THEN NULL ELSE txn[q]
  BY DEF CoreReceive, BusInv, TypeOK
<1>7. Live(txn') = Live(txn) \ {p}
  BY <1>6 DEF Live
<1>8. \A x \in Nodes : BelongsTo(txn, requester_map)[x] \cap Live(txn') \subseteq B[x]
  <2> SUFFICES ASSUME NEW x \in Nodes, NEW q \in BelongsTo(txn, requester_map)[x], q \in Live(txn')
               PROVE q \in B[x]
    OBVIOUS
  <2>1. q \in Ptrs /\ q # p /\ txn'[q] = txn[q]
    BY <1>6 DEF Live
  <2> QED BY <1>5, <2>1 DEF BelongsTo
<1>9. Orderly(new, Live(txn'), B)
  <2> HIDE DEF c, B
  <2>1. Orderly(Left(Store, c), Live(txn) \ {Head(Store[c])}, BelongsTo(txn, requester_map))
    BY <1>2, LeaveKeeps DEF BusInv, InOrder
  <2>2. Orderly(new, Live(txn'), BelongsTo(txn, requester_map))
    BY <1>2, <1>7, <2>1
  <2> HIDE DEF new
  <2> QED BY <1>8, <2>2, OthersMayChange
<1>10. \A e \in Places : new[e] = IF e = c THEN Tail(response_fifo[Core]) ELSE Store[e]
  BY <1>2 DEF Left, BusInv, InOrder, Orderly
<1>11. Store' = new
  <2> HIDE DEF new
  <2>1. ASSUME NEW x \in Nodes
        PROVE Shows(new, x, request_fifo', response_fifo', initiator_thread', target_thread',
                    serving', request_in_flight2')
    <3>1. /\ new[<<"response", x>>] = IF x = Core THEN Tail(response_fifo[Core]) ELSE response_fifo[x]
          /\ \A k \in Kinds \ {"response"} : new[<<k, x>>] = Store[<<k, x>>]
      BY <1>10, PlaceNames, NamedPlaces, StoreNow
    <3>2. /\ response_fifo'[x] = IF x = Core THEN Tail(response_fifo[Core]) ELSE response_fifo[x]
          /\ UNCHANGED <<request_fifo, initiator_thread, target_thread, serving, request_in_flight2>>
      BY DEF CoreReceive, CoreClock, BusInv, TypeOK, Nodes
    <3> QED BY <3>1, <3>2, StoreNow DEF Kinds, Shows
  <2>2. new \in [Places -> Seq(Ptrs)]
    BY <1>9 DEF Orderly
  <2> QED BY <2>1, <2>2, StoreBecomes
<1>12. InOrder'
  BY <1>9, <1>11 DEF InOrder
<1>13. ThreadsBound'
  BY <1>8, <1>12, ThreadsStill DEF CoreClock
<1>14. CoreOK'
  <2>1. ASSUME NEW q \in Live(txn'), txn'[q].owner = Core PROVE FALSE
    <3>1. q \in Live(txn) /\ q # p /\ txn'[q] = txn[q]
      BY <1>6, <1>7 DEF Live
    <3> QED BY <1>4, <2>1, <3>1 DEF BusInv, CoreOK
  <2> QED BY <1>4, <1>5, <2>1 DEF CoreOK
<1>15. Ended'
  BY <1>5 DEF BusInv, Ended
<1> QED BY <1>12, <1>13, <1>14, <1>15, <1>2, <1>3, <1>6, <1>11

LEMMA CoreKeeps ==
  ASSUME BusInv, CoreClock
  PROVE  InOrder' /\ ThreadsBound' /\ CoreOK' /\ Ended'
<1>1. CASE CoreWait
  <2>1. /\ UNCHANGED <<halted, txn, requester_map, request_fifo, response_fifo, initiator_thread,
                       target_thread, serving, request_in_flight2, request_in_flight>>
        /\ resp' = FALSE
    BY <1>1 DEF CoreWait, CoreClock, fifoVars
  <2>2. InOrder'
    BY <2>1 DEF BusInv, InOrder, Store
  <2>3. ThreadsBound' /\ Ended'
    BY <2>1, ThreadsKept DEF BusInv, Ended, CoreClock
  <2>4. request_in_flight # NULL => core_bus' = core_bus /\ core_access' = core_access
    BY DEF BusInv, CoreOK, CoreClock, VcoreStep
  <2>5. CoreOK'
    BY <2>1, <2>4 DEF BusInv, CoreOK
  <2> QED BY <2>2, <2>3, <2>5
<1> QED BY <1>1, IssueKeeps, ReceiveKeeps DEF CoreClock

\* First and Rest take a fifo apart; a slot is a fifo of at most one.
LEMMA FirstRest ==
  ASSUME NEW s \in Seq(Ptrs), NEW t \in Seq(Ptrs), NEW p \in Ptrs \cup {NULL}
  PROVE  /\ s = <<>> => t \o Slot(First(s)) = t /\ Rest(s) = s
         /\ s # <<>> => t \o Slot(First(s)) = Append(t, Head(s)) /\ Rest(s) = Tail(s)
         /\ First(Slot(p)) = p /\ Rest(Slot(p)) = <<>> /\ <<>> \o Slot(p) = Slot(p)
         /\ p = NULL => t \o Slot(p) = t
         /\ p # NULL => t \o Slot(p) = Append(t, p)
<1>1. \A q \in Ptrs : t \o <<q>> = Append(t, q) /\ Slot(q) = <<q>> /\ q # NULL
  BY NodeFacts, AppendIsConcat DEF Slot
<1>2. Slot(NULL) = <<>> /\ t \o <<>> = t
  BY ConcatEmptySeq DEF Slot
<1>3. s # <<>> => Head(s) \in Ptrs
  BY HeadTailProperties
<1>4. Slot(p) \in Seq(Ptrs) /\ <<>> \o Slot(p) = Slot(p)
  <2>1. Slot(p) \in Seq(Ptrs)
    BY NodeFacts, SlotTyped
  <2> QED BY <2>1, ConcatEmptySeq
<1>5. First(Slot(p)) = p /\ Rest(Slot(p)) = <<>>
  <2>1. CASE p = NULL
    BY <1>2, <2>1 DEF First, Rest
  <2>2. CASE p \in Ptrs
    <3>1. Slot(p) = <<p>> /\ <<p>> # <<>> /\ Tail(<<p>>) = <<>> /\ Head(<<p>>) = p
      BY <2>2, SlotFacts
    <3> QED BY <3>1 DEF First, Rest
  <2> QED BY <2>1, <2>2
<1>6. /\ s = <<>> => First(s) = NULL /\ Rest(s) = s
      /\ s # <<>> => First(s) = Head(s) /\ Rest(s) = Tail(s)
  BY DEF First, Rest
<1> QED BY <1>1, <1>2, <1>3, <1>4, <1>5, <1>6

LEMMA ShiftValues ==
  ASSUME NEW store, NEW live, NEW belongs, Orderly(store, live, belongs),
         NEW c \in Places, NEW d \in Places, c # d
  PROVE  \A e \in Places : Shifted(store, c, d)[e] =
           IF e = c THEN Rest(store[c])
           ELSE IF e = d THEN store[d] \o Slot(First(store[c])) ELSE store[e]
<1>1. /\ store \in [Places -> Seq(Ptrs)] /\ store[c] \in Seq(Ptrs) /\ store[d] \in Seq(Ptrs)
  BY DEF Orderly
<1>2. CASE store[c] = <<>>
  <2>1. Shifted(store, c, d) = store
    BY <1>2 DEF Shifted
  <2>2. NULL \in Ptrs \cup {NULL}
    OBVIOUS
  <2>3. store[d] \o Slot(First(store[c])) = store[d] /\ Rest(store[c]) = store[c]
    BY <1>1, <1>2, <2>2, FirstRest
  <2> QED BY <2>1, <2>3
<1>3. CASE store[c] # <<>>
  <2>1. \A e \in Places : Shifted(store, c, d)[e] =
          IF e = c THEN Tail(store[c])
          ELSE IF e = d THEN Append(store[d], Head(store[c])) ELSE store[e]
    BY <1>1, <1>3 DEF Shifted, Moved
  <2> QED BY <1>1, <1>3, <2>1, FirstRest
<1> QED BY <1>2, <1>3

\* What a clock of the debugger does to the places: it frees what came back,
\* allocates at most one transaction, and shifts its pipeline from the far end.
FreedAt(store) ==
  LET c == <<"response", Debugger>> IN IF store[c] = <<>> THEN store ELSE Left(store, c)
StrobedAt(store, p) == IF p = NULL THEN store ELSE Entered(store, <<"request", Debugger>>, p)
PipelineShifted(store) ==
  Shifted(Shifted(Shifted(store, <<"second", Dms>>, <<"response", Dms>>),
                  <<"serving", Dms>>, <<"second", Dms>>),
          <<"request", Dms>>, <<"serving", Dms>>)

LEMMA PipelineKeeps ==
  ASSUME NEW store, NEW live, NEW belongs, Orderly(store, live, belongs)
  PROVE  Orderly(PipelineShifted(store), live, belongs)
<1> DEFINE a == <<"request", Dms>>
           b == <<"serving", Dms>>
           c == <<"second", Dms>>
           d == <<"response", Dms>>
<1>1. /\ a \in Places /\ b \in Places /\ c \in Places /\ d \in Places
      /\ c # d /\ b # c /\ a # b /\ c[2] = d[2] /\ b[2] = c[2] /\ a[2] = b[2]
  BY NodeFacts, NamedPlaces DEF Nodes
<1> HIDE DEF a, b, c, d
<1>2. Orderly(Shifted(store, c, d), live, belongs)
  BY <1>1, ShiftKeeps
<1>3. Orderly(Shifted(Shifted(store, c, d), b, c), live, belongs)
  BY <1>1, <1>2, ShiftKeeps
<1>4. Orderly(Shifted(Shifted(Shifted(store, c, d), b, c), a, b), live, belongs)
  BY <1>1, <1>3, ShiftKeeps
<1> QED BY <1>4 DEF PipelineShifted, a, b, c, d

LEMMA PipelineValues ==
  ASSUME NEW store, NEW live, NEW belongs, Orderly(store, live, belongs),
         NEW u \in Ptrs \cup {NULL}, NEW v \in Ptrs \cup {NULL},
         store[<<"serving", Dms>>] = Slot(u), store[<<"second", Dms>>] = Slot(v)
  PROVE  \A e \in Places : PipelineShifted(store)[e] =
           CASE e = <<"request", Dms>> -> Rest(store[e])
             [] e = <<"serving", Dms>> -> Slot(First(store[<<"request", Dms>>]))
             [] e = <<"second", Dms>> -> Slot(u)
             [] e = <<"response", Dms>> -> store[e] \o Slot(v)
             [] OTHER -> store[e]
<1> DEFINE a == <<"request", Dms>>
           b == <<"serving", Dms>>
           c == <<"second", Dms>>
           d == <<"response", Dms>>
           S3 == Shifted(store, c, d)
           S4 == Shifted(S3, b, c)
           S5 == Shifted(S4, a, b)
<1>1. /\ a \in Places /\ b \in Places /\ c \in Places /\ d \in Places
      /\ a # b /\ a # c /\ a # d /\ b # c /\ b # d /\ c # d
      /\ c[2] = d[2] /\ b[2] = c[2] /\ a[2] = b[2]
  BY NodeFacts, NamedPlaces DEF Nodes
<1>2. store[b] = Slot(u) /\ store[c] = Slot(v)
  OBVIOUS
<1>3. PipelineShifted(store) = S5
  BY DEF PipelineShifted
<1> HIDE DEF a, b, c, d
<1>4. Orderly(S3, live, belongs)
  BY <1>1, ShiftKeeps
<1>5. Orderly(S4, live, belongs)
  <2> HIDE DEF S3
  <2> QED BY <1>1, <1>4, ShiftKeeps
<1>6. store \in [Places -> Seq(Ptrs)]
  BY DEF Orderly
<1>7. store[a] \in Seq(Ptrs) /\ First(store[a]) \in Ptrs \cup {NULL}
  BY <1>1, <1>6, FirstTyped
<1>8. /\ First(Slot(v)) = v /\ Rest(Slot(v)) = <<>> /\ First(Slot(u)) = u /\ Rest(Slot(u)) = <<>>
      /\ <<>> \o Slot(u) = Slot(u) /\ <<>> \o Slot(First(store[a])) = Slot(First(store[a]))
  BY <1>7, FirstRest
<1>9. \A e \in Places : S3[e] = IF e = c THEN <<>>
                                ELSE IF e = d THEN store[d] \o Slot(v) ELSE store[e]
  <2>1. \A e \in Places : S3[e] = IF e = c THEN Rest(store[c])
                                  ELSE IF e = d THEN store[d] \o Slot(First(store[c])) ELSE store[e]
    BY <1>1, ShiftValues
  <2> HIDE DEF S3
  <2> QED BY <1>2, <1>8, <2>1
<1>10. \A e \in Places : S4[e] = IF e = b THEN <<>> ELSE IF e = c THEN Slot(u) ELSE S3[e]
  <2> HIDE DEF S3
  <2>1. S3[b] = Slot(u) /\ S3[c] = <<>>
    BY <1>1, <1>2, <1>9
  <2>2. \A e \in Places : S4[e] = IF e = b THEN Rest(S3[b])
                                  ELSE IF e = c THEN S3[c] \o Slot(First(S3[b])) ELSE S3[e]
    BY <1>1, <1>4, ShiftValues
  <2> HIDE DEF S4
  <2> QED BY <1>8, <2>1, <2>2
<1>11. \A e \in Places : S5[e] = IF e = a THEN Rest(store[a])
                                 ELSE IF e = b THEN Slot(First(store[a])) ELSE S4[e]
  <2> HIDE DEF S3, S4
  <2>1. S4[a] = store[a] /\ S4[b] = <<>>
    BY <1>1, <1>9, <1>10
  <2>2. \A e \in Places : S5[e] = IF e = a THEN Rest(S4[a])
                                  ELSE IF e = b THEN S4[b] \o Slot(First(S4[a])) ELSE S4[e]
    BY <1>1, <1>5, ShiftValues
  <2> HIDE DEF S5
  <2> QED BY <1>8, <2>1, <2>2
<1> HIDE DEF S3, S4, S5
<1>12. \A e \in Places : S5[e] = CASE e = a -> Rest(store[e])
                                   [] e = b -> Slot(First(store[a]))
                                   [] e = c -> Slot(u)
                                   [] e = d -> store[e] \o Slot(v)
                                   [] OTHER -> store[e]
  <2> SUFFICES ASSUME NEW e \in Places
               PROVE S5[e] = CASE e = a -> Rest(store[e])
                               [] e = b -> Slot(First(store[a]))
                               [] e = c -> Slot(u)
                               [] e = d -> store[e] \o Slot(v)
                               [] OTHER -> store[e]
    OBVIOUS
  <2>1. CASE e = a
    BY <1>1, <1>11, <2>1
  <2>2. CASE e = b
    BY <1>1, <1>11, <2>2
  <2>3. CASE e = c
    BY <1>1, <1>10, <1>11, <2>3
  <2>4. CASE e = d
    BY <1>1, <1>9, <1>10, <1>11, <2>4
  <2>5. CASE e # a /\ e # b /\ e # c /\ e # d
    BY <1>9, <1>10, <1>11, <2>5
  <2> QED BY <2>1, <2>2, <2>3, <2>4, <2>5
<1> QED BY <1>3, <1>12 DEF a, b, c, d

LEMMA FreedKeeps ==
  ASSUME NEW store, NEW live, NEW belongs, Orderly(store, live, belongs)
  PROVE  /\ Orderly(FreedAt(store), live \ {First(store[<<"response", Debugger>>])}, belongs)
         /\ \A e \in Places : FreedAt(store)[e] =
              IF e = <<"response", Debugger>> THEN Rest(store[e]) ELSE store[e]
         /\ First(store[<<"response", Debugger>>]) # NULL =>
              /\ First(store[<<"response", Debugger>>]) \in live \cap Ptrs
              /\ First(store[<<"response", Debugger>>]) \in belongs[Debugger]
<1> DEFINE c == <<"response", Debugger>>
<1>1. c \in Places /\ c[2] = Debugger
  BY NodeFacts, NamedPlaces DEF Nodes
<1>2. FreedAt(store) = IF store[c] = <<>> THEN store ELSE Left(store, c)
  BY DEF FreedAt
<1> HIDE DEF c
<1>3. store \in [Places -> Seq(Ptrs)] /\ \A p \in live : p \in Ptrs
  <2>1. ASSUME NEW p \in live PROVE p \in Ptrs
    <3>1. PICK e \in Places : p \in ToSet(store[e])
      BY DEF Orderly
    <3>2. store[e] \in Seq(Ptrs)
      BY DEF Orderly
    <3>3. DOMAIN store[e] = 1 .. Len(store[e]) /\ \A n \in 1 .. Len(store[e]) : store[e][n] \in Ptrs
      BY <3>2, ElementOfSeq, LenProperties
    <3> QED BY <3>1, <3>3 DEF ToSet
  <2> QED BY <2>1 DEF Orderly
<1>4. CASE store[c] = <<>>
  <2>1. First(store[c]) = NULL /\ Rest(store[c]) = store[c] /\ FreedAt(store) = store
    BY <1>2, <1>4 DEF First, Rest
  <2>2. live \ {NULL} = live
    BY <1>3, NodeFacts
  <2> QED BY <2>1, <2>2 DEF c
<1>5. CASE store[c] # <<>>
  <2>1. First(store[c]) = Head(store[c]) /\ Rest(store[c]) = Tail(store[c])
        /\ FreedAt(store) = Left(store, c)
    BY <1>2, <1>5 DEF First, Rest
  <2>2. /\ Orderly(Left(store, c), live \ {Head(store[c])}, belongs)
        /\ Head(store[c]) \in live \cap Ptrs /\ Head(store[c]) \in belongs[Debugger]
    BY <1>1, <1>5, LeaveKeeps
  <2>3. \A e \in Places : Left(store, c)[e] = IF e = c THEN Tail(store[c]) ELSE store[e]
    BY <1>1, <1>3 DEF Left
  <2> QED BY <2>1, <2>2, <2>3 DEF c
<1> QED BY <1>4, <1>5

LEMMA StrobeKeeps ==
  ASSUME NEW store, NEW live, NEW belongs, Orderly(store, live, belongs),
         NEW p \in Ptrs \cup {NULL}, p # NULL => p \notin live /\ p \in belongs[Debugger]
  PROVE  /\ Orderly(StrobedAt(store, p), IF p = NULL THEN live ELSE live \cup {p}, belongs)
         /\ \A e \in Places : StrobedAt(store, p)[e] =
              IF e = <<"request", Debugger>> THEN store[e] \o Slot(p) ELSE store[e]
<1> DEFINE d == <<"request", Debugger>>
<1>1. d \in Places /\ d[2] = Debugger
  BY NodeFacts, NamedPlaces DEF Nodes
<1>2. StrobedAt(store, p) = IF p = NULL THEN store ELSE Entered(store, d, p)
  BY DEF StrobedAt
<1> HIDE DEF d
<1>3. store \in [Places -> Seq(Ptrs)] /\ store[d] \in Seq(Ptrs)
  BY <1>1 DEF Orderly
<1>4. /\ p = NULL => store[d] \o Slot(p) = store[d]
      /\ p # NULL => store[d] \o Slot(p) = Append(store[d], p)
  BY <1>3, FirstRest
<1>5. CASE p = NULL
  BY <1>2, <1>4, <1>5 DEF d
<1>6. CASE p # NULL
  <2>1. Orderly(Entered(store, d, p), live \cup {p}, belongs)
    BY <1>1, <1>6, EnterKeeps
  <2>2. \A e \in Places : Entered(store, d, p)[e] =
          IF e = d THEN Append(store[d], p) ELSE store[e]
    BY <1>1, <1>3 DEF Entered
  <2> QED BY <1>2, <1>4, <1>6, <2>1, <2>2 DEF d
<1> QED BY <1>5, <1>6

\* The debugger, with every overlap of its master and slave ports.
LEMMA DebuggerKeeps ==
  ASSUME BusInv, NEW p \in Ptrs \cup {NULL}, DebuggerClock(p)
  PROVE  /\ InOrder' /\ ThreadsBound' /\ CoreOK' /\ Ended'
         /\ Store' = PipelineShifted(StrobedAt(FreedAt(Store), p))
         /\ First(response_fifo[Debugger]) # NULL =>
              /\ First(response_fifo[Debugger]) \in Live(txn)
              /\ txn[First(response_fifo[Debugger])].owner = Debugger
         /\ p # NULL => p \in Ptrs /\ p \notin Live(txn) /\ dmm_bus \in Destinations
         /\ Orderly(StrobedAt(FreedAt(Store), p), Live(txn'), BelongsTo(txn', requester_map'))
         /\ \A q \in Ptrs : txn'[q] =
              IF q = First(response_fifo[Debugger]) THEN NULL
              ELSE IF q = p THEN [owner |-> Debugger, target |-> dmm_bus, access |-> 0] ELSE txn[q]
<1> DEFINE h == First(response_fifo[Debugger])
           load == [owner |-> Debugger, target |-> dmm_bus, access |-> 0]
           S1 == FreedAt(Store)
           S2 == StrobedAt(S1, p)
           new == PipelineShifted(S2)
           A == BelongsTo(txn, requester_map)
           B == BelongsTo(txn', requester_map')
<1>1. /\ Debugger \in Initiators /\ Debugger \in Nodes /\ Debugger \notin Targets
      /\ Dms \in Targets /\ Dms \in Nodes /\ Dms \notin Initiators /\ NULL \notin Ptrs
      /\ Core # Debugger /\ Debugger # Dms
  BY NodeFacts DEF Nodes
<1>2. /\ Store[<<"response", Debugger>>] = response_fifo[Debugger]
      /\ Store[<<"request", Dms>>] = request_fifo[Dms]
      /\ Store[<<"serving", Dms>>] = Slot(serving[Dms])
      /\ Store[<<"second", Dms>>] = Slot(request_in_flight2)
      /\ serving[Dms] \in Ptrs \cup {NULL} /\ request_in_flight2 \in Ptrs \cup {NULL}
  BY <1>1, StoreNow DEF BusInv, TypeOK
<1>3. /\ Orderly(S1, Live(txn) \ {h}, A)
      /\ \A e \in Places : S1[e] = IF e = <<"response", Debugger>> THEN Rest(Store[e]) ELSE Store[e]
      /\ h # NULL => h \in Live(txn) \cap Ptrs /\ h \in A[Debugger]
  BY <1>2, FreedKeeps DEF BusInv, InOrder
<1>4. p # NULL => p \in Ptrs /\ p \notin Live(txn) /\ dmm_bus # "idle" /\ load # NULL
  <2> SUFFICES ASSUME p # NULL PROVE p \in Ptrs /\ p \notin Live(txn) /\ dmm_bus # "idle" /\ load # NULL
    OBVIOUS
  <2>1. dmm_bus # "idle" /\ p \in Free
    BY DEF DebuggerClock
  <2>2. load \in Payload
    BY <1>1, <2>1 DEF Payload, BusInv, TypeOK
  <2> QED BY <2>1, <2>2, NodeFacts DEF Free, Live
<1>5. \A q \in Ptrs : txn'[q] = IF q = h THEN NULL ELSE IF q = p THEN load ELSE txn[q]
  <2> SUFFICES ASSUME NEW q \in Ptrs
               PROVE txn'[q] = IF q = h THEN NULL ELSE IF q = p THEN load ELSE txn[q]
    OBVIOUS
  <2>1. txn'[q] = CASE q = h -> NULL [] q = p -> load [] OTHER -> txn[q]
    BY DEF DebuggerClock
  <2> HIDE DEF h, load
  <2>2. q = h => q # p
    BY <1>1, <1>3, <1>4
  <2> QED BY <2>1, <2>2
<1>6. /\ Live(txn') = IF p = NULL THEN Live(txn) \ {h} ELSE (Live(txn) \ {h}) \cup {p}
      /\ p # NULL => p # h
  <2> HIDE DEF h, load
  <2>1. p # NULL => p # h
    BY <1>3, <1>4
  <2> QED BY <1>1, <1>4, <1>5, <2>1 DEF Live
<1>7. requester_map' = requester_map
  BY DEF DebuggerClock
<1>8. \A x \in Nodes : A[x] \cap (Live(txn) \ {h}) \subseteq B[x]
  <2> SUFFICES ASSUME NEW x \in Nodes, NEW q \in A[x], q \in Live(txn) \ {h} PROVE q \in B[x]
    OBVIOUS
  <2> HIDE DEF h, load
  <2>1. q \in Ptrs /\ q # h /\ q # p
    BY <1>1, <1>4 DEF Live
  <2>2. txn'[q] = txn[q]
    BY <1>5, <2>1
  <2> QED BY <1>7, <2>1, <2>2 DEF BelongsTo
<1>9. p # NULL => p \in B[Debugger]
  <2> HIDE DEF h
  <2>1. p # NULL => txn'[p] = load /\ p \in Ptrs
    BY <1>4, <1>5, <1>6
  <2> QED BY <1>1, <2>1 DEF BelongsTo
<1>10. /\ Orderly(S2, Live(txn'), B)
       /\ \A e \in Places : S2[e] = IF e = <<"request", Debugger>> THEN S1[e] \o Slot(p) ELSE S1[e]
  <2> HIDE DEF S1, A, B, h, load
  <2>1. Orderly(S1, Live(txn) \ {h}, B)
    BY <1>3, <1>8, OthersMayChange
  <2>2. p # NULL => p \notin Live(txn) \ {h} /\ p \in B[Debugger]
    BY <1>4, <1>9
  <2>3. /\ Orderly(S2, IF p = NULL THEN Live(txn) \ {h} ELSE (Live(txn) \ {h}) \cup {p}, B)
        /\ \A e \in Places : S2[e] = IF e = <<"request", Debugger>> THEN S1[e] \o Slot(p) ELSE S1[e]
    BY <2>1, <2>2, StrobeKeeps
  <2> HIDE DEF S2
  <2> QED BY <1>6, <2>3
<1>11. Orderly(new, Live(txn'), B)
  <2> HIDE DEF S2, B
  <2> QED BY <1>10, PipelineKeeps
<1>12. \A x \in Nodes : \A k \in Kinds :
         S2[<<k, x>>] = IF k = "response" /\ x = Debugger THEN Rest(response_fifo[Debugger])
                        ELSE IF k = "request" /\ x = Debugger THEN Store[<<k, x>>] \o Slot(p)
                        ELSE Store[<<k, x>>]
  <2> SUFFICES ASSUME NEW x \in Nodes, NEW k \in Kinds
               PROVE S2[<<k, x>>] = IF k = "response" /\ x = Debugger THEN Rest(response_fifo[Debugger])
                                    ELSE IF k = "request" /\ x = Debugger THEN Store[<<k, x>>] \o Slot(p)
                                    ELSE Store[<<k, x>>]
    OBVIOUS
  <2>1. /\ <<k, x>> \in Places
        /\ <<k, x>> = <<"response", Debugger>> <=> k = "response" /\ x = Debugger
        /\ <<k, x>> = <<"request", Debugger>> <=> k = "request" /\ x = Debugger
    BY PlaceNames
  <2> HIDE DEF S1, S2
  <2> QED BY <1>2, <1>3, <1>10, <2>1
<1>13. /\ S2[<<"serving", Dms>>] = Slot(serving[Dms])
       /\ S2[<<"second", Dms>>] = Slot(request_in_flight2)
       /\ S2[<<"request", Dms>>] = request_fifo[Dms]
  <2>1. "serving" \in Kinds /\ "second" \in Kinds /\ "request" \in Kinds
    BY DEF Kinds
  <2> HIDE DEF S2
  <2> QED BY <1>1, <1>2, <1>12, <2>1
<1>14. \A x \in Nodes : \A k \in Kinds :
         new[<<k, x>>] = IF k = "request" /\ x = Dms THEN Rest(S2[<<k, x>>])
                         ELSE IF k = "serving" /\ x = Dms THEN Slot(First(request_fifo[Dms]))
                         ELSE IF k = "second" /\ x = Dms THEN Slot(serving[Dms])
                         ELSE IF k = "response" /\ x = Dms THEN S2[<<k, x>>] \o Slot(request_in_flight2)
                         ELSE S2[<<k, x>>]
  <2> SUFFICES ASSUME NEW x \in Nodes, NEW k \in Kinds
      PROVE new[<<k, x>>] = IF k = "request" /\ x = Dms THEN Rest(S2[<<k, x>>])
                            ELSE IF k = "serving" /\ x = Dms THEN Slot(First(request_fifo[Dms]))
                            ELSE IF k = "second" /\ x = Dms THEN Slot(serving[Dms])
                            ELSE IF k = "response" /\ x = Dms THEN S2[<<k, x>>] \o Slot(request_in_flight2)
                            ELSE S2[<<k, x>>]
    OBVIOUS
  <2> HIDE DEF S2, B
  <2>1. /\ <<k, x>> \in Places
        /\ <<k, x>> = <<"request", Dms>> <=> k = "request" /\ x = Dms
        /\ <<k, x>> = <<"serving", Dms>> <=> k = "serving" /\ x = Dms
        /\ <<k, x>> = <<"second", Dms>> <=> k = "second" /\ x = Dms
        /\ <<k, x>> = <<"response", Dms>> <=> k = "response" /\ x = Dms
    BY PlaceNames
  <2>2. \A e \in Places : new[e] =
          CASE e = <<"request", Dms>> -> Rest(S2[e])
            [] e = <<"serving", Dms>> -> Slot(First(S2[<<"request", Dms>>]))
            [] e = <<"second", Dms>> -> Slot(serving[Dms])
            [] e = <<"response", Dms>> -> S2[e] \o Slot(request_in_flight2)
            [] OTHER -> S2[e]
    BY <1>2, <1>10, <1>13, PipelineValues
  <2>3. new[<<k, x>>] =
          CASE <<k, x>> = <<"request", Dms>> -> Rest(S2[<<k, x>>])
            [] <<k, x>> = <<"serving", Dms>> -> Slot(First(request_fifo[Dms]))
            [] <<k, x>> = <<"second", Dms>> -> Slot(serving[Dms])
            [] <<k, x>> = <<"response", Dms>> -> S2[<<k, x>>] \o Slot(request_in_flight2)
            [] OTHER -> S2[<<k, x>>]
    <3> HIDE DEF new
    <3> QED BY <1>13, <2>1, <2>2
  <2> HIDE DEF new
  <2>4. CASE k = "request" /\ x = Dms
    BY <2>1, <2>3, <2>4
  <2>5. CASE k = "serving" /\ x = Dms
    BY <2>1, <2>3, <2>5
  <2>6. CASE k = "second" /\ x = Dms
    BY <2>1, <2>3, <2>6
  <2>7. CASE k = "response" /\ x = Dms
    BY <2>1, <2>3, <2>7
  <2>8. CASE ~(k \in {"request", "serving", "second", "response"} /\ x = Dms)
    BY <2>1, <2>3, <2>8
  <2> QED BY <2>4, <2>5, <2>6, <2>7, <2>8
<1>15. Store' = new
  <2> HIDE DEF new, S2
  <2>1. ASSUME NEW x \in Nodes
        PROVE Shows(new, x, request_fifo', response_fifo', initiator_thread', target_thread',
                    serving', request_in_flight2')
    <3>1. /\ new[<<"request", x>>] = IF x = Dms THEN Rest(request_fifo[Dms])
                                     ELSE IF x = Debugger THEN request_fifo[Debugger] \o Slot(p)
                                     ELSE request_fifo[x]
          /\ new[<<"response", x>>] =
               IF x = Dms THEN response_fifo[Dms] \o Slot(request_in_flight2)
               ELSE IF x = Debugger THEN Rest(response_fifo[Debugger]) ELSE response_fifo[x]
          /\ new[<<"serving", x>>] = IF x = Dms THEN Slot(First(request_fifo[Dms]))
                                     ELSE Store[<<"serving", x>>]
          /\ new[<<"second", x>>] = IF x = Dms THEN Slot(serving[Dms]) ELSE Store[<<"second", x>>]
          /\ new[<<"initiator_thread", x>>] = Store[<<"initiator_thread", x>>]
          /\ new[<<"target_thread", x>>] = Store[<<"target_thread", x>>]
      <4>1. \A k \in {"request", "response", "serving", "second", "initiator_thread", "target_thread"} :
              k \in Kinds
        BY DEF Kinds
      <4>2. CASE x = Dms
        <5>1. /\ S2[<<"request", x>>] = request_fifo[Dms]
              /\ S2[<<"response", x>>] = response_fifo[Dms]
              /\ S2[<<"initiator_thread", x>>] = Store[<<"initiator_thread", x>>]
              /\ S2[<<"target_thread", x>>] = Store[<<"target_thread", x>>]
          BY <1>1, <1>12, <4>1, <4>2, StoreNow
        <5> QED BY <1>1, <1>14, <4>1, <4>2, <5>1
      <4>3. CASE x = Debugger
        <5>1. \A k \in Kinds : new[<<k, x>>] = S2[<<k, x>>]
          BY <1>1, <1>14, <4>3
        <5>2. /\ S2[<<"request", x>>] = request_fifo[Debugger] \o Slot(p)
              /\ S2[<<"response", x>>] = Rest(response_fifo[Debugger])
              /\ \A k \in Kinds \ {"request", "response"} : S2[<<k, x>>] = Store[<<k, x>>]
          BY <1>1, <1>12, <4>1, <4>3, StoreNow
        <5> QED BY <1>1, <4>1, <4>3, <5>1, <5>2
      <4>4. CASE x # Dms /\ x # Debugger
        BY <1>12, <1>14, <4>1, <4>4, StoreNow
      <4> QED BY <1>1, <4>2, <4>3, <4>4
    <3>2. /\ request_fifo'[x] = IF x = Dms THEN Rest(request_fifo[Dms])
                                ELSE IF x = Debugger THEN request_fifo[Debugger] \o Slot(p)
                                ELSE request_fifo[x]
          /\ response_fifo'[x] = IF x = Dms THEN response_fifo[Dms] \o Slot(request_in_flight2)
                                 ELSE IF x = Debugger THEN Rest(response_fifo[Debugger])
                                 ELSE response_fifo[x]
          /\ x \in Targets => serving'[x] = IF x = Dms THEN First(request_fifo[Dms]) ELSE serving[x]
          /\ request_in_flight2' = serving[Dms]
          /\ UNCHANGED <<initiator_thread, target_thread>>
      BY <1>1 DEF DebuggerClock, ShiftStage, BusInv, TypeOK, Nodes
    <3> QED BY <1>1, <3>1, <3>2, StoreNow DEF Shows
  <2>2. new \in [Places -> Seq(Ptrs)]
    BY <1>11 DEF Orderly
  <2> QED BY <2>1, <2>2, StoreBecomes
<1>16. InOrder'
  <2> HIDE DEF new
  <2> QED BY <1>11, <1>15 DEF InOrder
<1>17. ThreadsBound'
  <2>1. \A x \in Nodes : A[x] \cap Live(txn) \cap Live(txn') \subseteq B[x]
    <3> HIDE DEF A, B, h
    <3>1. Live(txn) \cap Live(txn') \subseteq Live(txn) \ {h}
      BY <1>4, <1>6
    <3> QED BY <1>8, <3>1
  <2> QED BY <1>16, <2>1, ThreadsStill DEF DebuggerClock
<1>18. CoreOK'
  <2> HIDE DEF h, load
  <2>1. UNCHANGED <<core_bus, core_access, resp, rdata, request_in_flight>>
    BY DEF DebuggerClock, coreVars
  <2>2. ASSUME NEW q \in Live(txn'), txn'[q].owner = Core PROVE q = request_in_flight
    <3>1. q \in Ptrs /\ q # h /\ (q = p => txn'[q] = load)
      BY <1>5, <1>6 DEF Live
    <3>2. q # p
      BY <1>1, <2>2, <3>1 DEF load
    <3>3. txn'[q] = txn[q] /\ q \in Live(txn)
      BY <1>5, <2>2, <3>1, <3>2 DEF Live
    <3> QED BY <2>2, <3>3 DEF BusInv, CoreOK
  <2>3. ASSUME request_in_flight # NULL
        PROVE request_in_flight \in Live(txn') /\ txn'[request_in_flight] = txn[request_in_flight]
    <3>1. request_in_flight \in Live(txn) /\ txn[request_in_flight].owner = Core
      BY <2>3 DEF BusInv, CoreOK
    <3>2. request_in_flight # h
      <4>1. h # NULL => txn[h].owner = Debugger
        BY <1>1, <1>3 DEF BelongsTo
      <4> QED BY <1>1, <2>3, <3>1, <4>1
    <3>3. request_in_flight # p /\ request_in_flight \in Ptrs
      BY <1>1, <1>4, <3>1 DEF Live
    <3> QED BY <1>5, <1>6, <3>1, <3>2, <3>3
  <2> QED BY <2>1, <2>2, <2>3 DEF BusInv, CoreOK
<1>19. Ended'
  BY DEF BusInv, Ended, DebuggerClock, EndIf
<1>20. h # NULL => h \in Live(txn) /\ txn[h].owner = Debugger
  <2> HIDE DEF h
  <2> QED BY <1>1, <1>3 DEF BelongsTo
<1>21. p # NULL => dmm_bus \in Destinations
  BY <1>4 DEF BusInv, TypeOK
<1> QED BY <1>16, <1>17, <1>18, <1>19, <1>4, <1>5, <1>10, <1>15, <1>20, <1>21

-----------------------------------------------------------------------------
(* The invariant holds.                                                    *)

\* What is left alone stays as it should be.
LEMMA NothingMoves ==
  ASSUME BusInv,
         UNCHANGED <<halted, txn, requester_map, fifoVars, initiator_thread, target_thread,
                     serving, request_in_flight2, coreVars>>
  PROVE  InOrder' /\ ThreadsBound' /\ CoreOK' /\ Ended'
<1>1. UNCHANGED <<request_fifo, response_fifo>>
  BY DEF fifoVars
<1>2. InOrder'
  BY <1>1 DEF BusInv, InOrder, Store
<1>3. ThreadsBound'
  BY DEF BusInv, ThreadsBound, Sent, Running
<1>4. CoreOK' /\ Ended'
  BY CoreKept DEF BusInv, Ended
<1> QED BY <1>2, <1>3, <1>4

LEMMA ThreadKeeps ==
  ASSUME BusInv, ThreadNext
  PROVE  InOrder' /\ ThreadsBound' /\ CoreOK' /\ Ended'
<1>1. CASE \E i \in Initiators : InitiatorFetch(i) \/ InitiatorDeliver(i)
  BY <1>1, FetchKeeps, DeliverKeeps
<1>2. CASE \E t \in ThreadTargets : ThreadTargetServe(t) \/ ThreadTargetAnswer(t)
  BY <1>2, ServeKeeps, AnswerKeeps
<1>3. CASE \E t \in Targets : TargetTake(t) \/ TargetReturn(t)
  BY <1>3, TakeKeeps, ReturnKeeps
<1> QED BY <1>1, <1>2, <1>3 DEF ThreadNext

LEMMA BusKept == BusInv /\ [Next]_vars => BusInv'
<1> SUFFICES ASSUME BusInv, [Next]_vars PROVE BusInv'
  OBVIOUS
<1>1. TypeOK'
  BY TypesKept DEF BusInv
<1>2. InOrder' /\ ThreadsBound' /\ CoreOK' /\ Ended'
  <2>1. CASE ReleaseReset \/ Posedge
    BY <2>1, NothingMoves DEF ReleaseReset, Posedge
  <2>2. CASE UNCHANGED vars
    BY <2>2, NothingMoves DEF vars
  <2>3. CASE DebuggerNext
    BY <2>3, DebuggerKeeps DEF DebuggerNext
  <2>4. CASE UartNext
    BY <2>4, UartKeeps DEF UartNext
  <2> QED BY <2>1, <2>2, <2>3, <2>4, CoreKeeps, ThreadKeeps DEF Next
<1> QED BY <1>1, <1>2 DEF BusInv

\* At first there is no transaction anywhere.
LEMMA BusInit == Init => BusInv
<1> SUFFICES ASSUME Init PROVE BusInv
  OBVIOUS
<1>1. Live(txn) = {}
  BY DEF Init, Live
<1>2. \A c \in Places : Store[c] = <<>>
  <2> SUFFICES ASSUME NEW k \in Kinds, NEW x \in Nodes PROVE Store[<<k, x>>] = <<>>
    BY PlaceNames
  <2>1. /\ request_fifo[x] = <<>> /\ response_fifo[x] = <<>> /\ request_in_flight2 = NULL
        /\ x \in Initiators => initiator_thread[x] = NULL
        /\ x \in Targets => target_thread[x] = NULL /\ serving[x] = NULL
    BY DEF Init, Nodes
  <2>2. Held(NULL) = <<>> /\ Slot(NULL) = <<>>
    BY DEF Held, Slot
  <2>3. /\ Store[<<"request", x>>] = <<>> /\ Store[<<"response", x>>] = <<>>
        /\ Store[<<"initiator_thread", x>>] = <<>> /\ Store[<<"target_thread", x>>] = <<>>
        /\ Store[<<"serving", x>>] = <<>> /\ Store[<<"second", x>>] = <<>>
    BY <2>1, <2>2, StoreNow
  <2> QED BY <2>3 DEF Kinds
<1>3. InOrder
  <2>1. ToSet(<<>>) = {} /\ Distinct(<<>>) /\ <<>> \in Seq(Ptrs)
    BY EmptyFacts
  <2>2. Store \in [Places -> Seq(Ptrs)]
    <3>1. Store = [c \in Places |-> Store[c]]
      BY DEF Store, StoreOf
    <3> QED BY <1>2, <2>1, <3>1
  <2> QED BY <1>1, <1>2, <2>1, <2>2 DEF InOrder, Orderly
<1>4. ThreadsBound /\ Ended /\ CoreOK
  BY <1>1 DEF Init, ThreadsBound, Sent, Ended, CoreOK
<1> QED BY <1>3, <1>4, TypesInit DEF BusInv

THEOREM Invariance == Spec => []BusInv
BY BusInit, BusKept, PTL DEF Spec

-----------------------------------------------------------------------------
(* What it means for the properties that the runs check.                   *)

Apart(s, t) == ToSet(s) \cap ToSet(t) = {}

\* Fifos without repetition and without common elements, one behind another.
LEMMA ThreeInLine ==
  ASSUME NEW a \in Seq(Ptrs), NEW b \in Seq(Ptrs), NEW c \in Seq(Ptrs),
         Distinct(a), Distinct(b), Distinct(c), Apart(a, b), Apart(a, c), Apart(b, c)
  PROVE  /\ a \o (b \o c) \in Seq(Ptrs) /\ Distinct(a \o (b \o c))
         /\ ToSet(a \o (b \o c)) = ToSet(a) \cup ToSet(b) \cup ToSet(c)
<1> DEFINE s == b \o c
<1>1. s \in Seq(Ptrs) /\ Distinct(s) /\ ToSet(s) = ToSet(b) \cup ToSet(c)
  BY ConcatFacts DEF Apart
<1> HIDE DEF s
<1>2. ToSet(a) \cap ToSet(s) = {}
  BY <1>1 DEF Apart
<1>3. a \o s \in Seq(Ptrs) /\ Distinct(a \o s) /\ ToSet(a \o s) = ToSet(a) \cup ToSet(s)
  BY <1>1, <1>2, ConcatFacts
<1>4. ToSet(a \o s) = ToSet(a) \cup ToSet(b) \cup ToSet(c)
  BY <1>1, <1>3
<1> QED BY <1>3, <1>4 DEF s

LEMMA FiveInLine ==
  ASSUME NEW a \in Seq(Ptrs), NEW b \in Seq(Ptrs), NEW c \in Seq(Ptrs), NEW d \in Seq(Ptrs),
         NEW e \in Seq(Ptrs), Distinct(a), Distinct(b), Distinct(c), Distinct(d), Distinct(e),
         Apart(a, b), Apart(a, c), Apart(a, d), Apart(a, e), Apart(b, c), Apart(b, d),
         Apart(b, e), Apart(c, d), Apart(c, e), Apart(d, e)
  PROVE  /\ a \o b \o c \o d \o e \in Seq(Ptrs) /\ Distinct(a \o b \o c \o d \o e)
         /\ ToSet(a \o b \o c \o d \o e)
              = ToSet(a) \cup ToSet(b) \cup ToSet(c) \cup ToSet(d) \cup ToSet(e)
<1> DEFINE s == a \o b
           t == s \o c
           u == t \o d
<1>1. s \in Seq(Ptrs) /\ Distinct(s) /\ ToSet(s) = ToSet(a) \cup ToSet(b)
  BY ConcatFacts DEF Apart
<1> HIDE DEF s
<1>2. t \in Seq(Ptrs) /\ Distinct(t) /\ ToSet(t) = ToSet(s) \cup ToSet(c)
  <2>1. ToSet(s) \cap ToSet(c) = {}
    BY <1>1 DEF Apart
  <2> QED BY <1>1, <2>1, ConcatFacts
<1> HIDE DEF t
<1>3. u \in Seq(Ptrs) /\ Distinct(u) /\ ToSet(u) = ToSet(t) \cup ToSet(d)
  <2>1. ToSet(t) \cap ToSet(d) = {}
    BY <1>1, <1>2 DEF Apart
  <2> QED BY <1>2, <2>1, ConcatFacts
<1> HIDE DEF u
<1>4. u \o e \in Seq(Ptrs) /\ Distinct(u \o e) /\ ToSet(u \o e) = ToSet(u) \cup ToSet(e)
  <2>1. ToSet(u) \cap ToSet(e) = {}
    BY <1>1, <1>2, <1>3 DEF Apart
  <2> QED BY <1>3, <2>1, ConcatFacts
<1>5. u \o e \in Seq(Ptrs) /\ Distinct(u \o e)
      /\ ToSet(u \o e) = ToSet(a) \cup ToSet(b) \cup ToSet(c) \cup ToSet(d) \cup ToSet(e)
  BY <1>1, <1>2, <1>3, <1>4
<1> QED BY <1>5 DEF s, t, u

\* The line of a node holds what its places hold.
LEMMA LineHolds ==
  ASSUME BusInv, NEW x \in Nodes
  PROVE  /\ Line(x) \in Seq(Ptrs) /\ Distinct(Line(x))
         /\ \A p : p \in ToSet(Line(x)) <=> \E k \in Kinds : p \in ToSet(Store[<<k, x>>])
<1> DEFINE S(k) == Store[<<k, x>>]
<1>1. \A k \in Kinds : S(k) \in Seq(Ptrs) /\ Distinct(S(k))
  BY PlaceNames DEF BusInv, InOrder, Orderly
<1>2. ASSUME NEW k \in Kinds, NEW l \in Kinds, k # l PROVE Apart(S(k), S(l))
  <2>1. <<k, x>> \in Places /\ <<l, x>> \in Places /\ <<k, x>> # <<l, x>>
    BY <1>2, PlaceNames
  <2> QED BY <2>1 DEF Apart, BusInv, InOrder, Orderly
<1>3. /\ S("request") = request_fifo[x] /\ S("response") = response_fifo[x]
      /\ S("initiator_thread") = IF x \in Initiators THEN Held(initiator_thread[x]) ELSE <<>>
      /\ S("target_thread") = IF x \in Targets THEN Held(target_thread[x]) ELSE <<>>
      /\ S("serving") = IF x \in Targets THEN Slot(serving[x]) ELSE <<>>
      /\ S("second") = IF x = Dms THEN Slot(request_in_flight2) ELSE <<>>
  BY StoreNow
<1>4. /\ "request" \in Kinds /\ "response" \in Kinds /\ "initiator_thread" \in Kinds
      /\ "target_thread" \in Kinds /\ "serving" \in Kinds /\ "second" \in Kinds
      /\ \A p : (\E k \in Kinds : p \in ToSet(S(k))) <=>
           \/ p \in ToSet(S("request")) \/ p \in ToSet(S("response"))
           \/ p \in ToSet(S("initiator_thread")) \/ p \in ToSet(S("target_thread"))
           \/ p \in ToSet(S("serving")) \/ p \in ToSet(S("second"))
  <2> HIDE DEF S
  <2> QED BY DEF Kinds
<1>5. ToSet(<<>>) = {}
  BY EmptyFacts
<1> HIDE DEF S
<1>6. CASE x \in Initiators
  <2>1. x \notin Targets /\ x # Dms
    BY <1>6, NodeFacts
  <2>2. Line(x) = S("response") \o (S("initiator_thread") \o S("request"))
    BY <1>3, <1>6 DEF Line, AtInitiator
  <2>3. S("target_thread") = <<>> /\ S("serving") = <<>> /\ S("second") = <<>>
    BY <1>3, <2>1
  <2>4. /\ Line(x) \in Seq(Ptrs) /\ Distinct(Line(x))
        /\ ToSet(Line(x)) = ToSet(S("response")) \cup ToSet(S("initiator_thread"))
                              \cup ToSet(S("request"))
    <3>1. /\ Apart(S("response"), S("initiator_thread")) /\ Apart(S("response"), S("request"))
          /\ Apart(S("initiator_thread"), S("request"))
      BY <1>2, <1>4
    <3> QED BY <1>1, <1>4, <2>2, <3>1, ThreeInLine
  <2>5. \A p : p \in ToSet(Line(x)) <=> \E k \in Kinds : p \in ToSet(S(k))
    BY <1>4, <1>5, <2>3, <2>4
  <2> QED BY <2>4, <2>5 DEF S
<1>7. CASE x \in Targets
  <2>1. x \notin Initiators
    BY <1>7, NodeFacts
  <2>2. Line(x) = S("target_thread") \o S("response") \o S("second") \o S("serving") \o S("request")
    BY <1>3, <1>7, <2>1 DEF Line, AtTarget
  <2>3. S("initiator_thread") = <<>>
    BY <1>3, <2>1
  <2>4. /\ Line(x) \in Seq(Ptrs) /\ Distinct(Line(x))
        /\ ToSet(Line(x)) = ToSet(S("target_thread")) \cup ToSet(S("response"))
             \cup ToSet(S("second")) \cup ToSet(S("serving")) \cup ToSet(S("request"))
    <3>1. /\ Apart(S("target_thread"), S("response")) /\ Apart(S("target_thread"), S("second"))
          /\ Apart(S("target_thread"), S("serving")) /\ Apart(S("target_thread"), S("request"))
          /\ Apart(S("response"), S("second")) /\ Apart(S("response"), S("serving"))
          /\ Apart(S("response"), S("request")) /\ Apart(S("second"), S("serving"))
          /\ Apart(S("second"), S("request")) /\ Apart(S("serving"), S("request"))
      BY <1>2, <1>4
    <3>2. /\ S("target_thread") \in Seq(Ptrs) /\ S("response") \in Seq(Ptrs)
          /\ S("second") \in Seq(Ptrs) /\ S("serving") \in Seq(Ptrs) /\ S("request") \in Seq(Ptrs)
          /\ Distinct(S("target_thread")) /\ Distinct(S("response")) /\ Distinct(S("second"))
          /\ Distinct(S("serving")) /\ Distinct(S("request"))
      BY <1>1, <1>4
    <3> QED BY <2>2, <3>1, <3>2, FiveInLine
  <2>5. \A p : p \in ToSet(Line(x)) <=> \E k \in Kinds : p \in ToSet(S(k))
    BY <1>4, <1>5, <2>3, <2>4
  <2> QED BY <2>4, <2>5 DEF S
<1> QED BY <1>6, <1>7 DEF Nodes

LEMMA InvPlaces == BusInv => EachInOnePlace
<1> SUFFICES ASSUME BusInv, NEW p \in Ptrs
             PROVE Cardinality(Positions(p)) = IF txn[p] = NULL THEN 0 ELSE 1
  BY DEF EachInOnePlace
<1>1. \A q \in Positions(p) : \E x \in Nodes : \E n \in DOMAIN Line(x) : q = <<x, n>> /\ Line(x)[n] = p
  BY DEF Positions, Nodes
<1>2. ASSUME NEW x \in Nodes, NEW n \in DOMAIN Line(x), Line(x)[n] = p
      PROVE <<x, n>> \in Positions(p) /\ p \in ToSet(Line(x))
  BY <1>2 DEF Positions, Nodes, ToSet
<1>3. \A x \in Nodes : p \in ToSet(Line(x)) => \E k \in Kinds : p \in ToSet(Store[<<k, x>>])
  BY LineHolds
<1>4. CASE txn[p] = NULL
  <2>1. \A c \in Places : p \notin ToSet(Store[c])
    BY <1>4 DEF BusInv, InOrder, Orderly, Live
  <2>2. \A x \in Nodes : p \notin ToSet(Line(x))
    BY <1>3, <2>1, PlaceNames
  <2>3. Positions(p) = {}
    BY <1>1, <1>2, <2>2
  <2> QED BY <1>4, <2>3, FS_EmptySet
<1>5. CASE txn[p] # NULL
  <2>1. p \in Live(txn)
    BY <1>5 DEF Live
  <2>2. PICK c \in Places : p \in ToSet(Store[c])
    BY <2>1 DEF BusInv, InOrder, Orderly
  <2>3. PICK k \in Kinds, x \in Nodes : c = <<k, x>>
    BY PlaceNames
  <2>4. p \in ToSet(Line(x)) /\ Distinct(Line(x))
    BY <2>2, <2>3, LineHolds
  <2>5. PICK n \in DOMAIN Line(x) : Line(x)[n] = p
    BY <2>4 DEF ToSet
  <2>6. ASSUME NEW y \in Nodes, NEW m \in DOMAIN Line(y), Line(y)[m] = p PROVE y = x /\ m = n
    <3>1. PICK l \in Kinds : p \in ToSet(Store[<<l, y>>])
      BY <1>2, <1>3, <2>6
    <3>2. <<l, y>> = <<k, x>>
      <4>1. <<l, y>> \in Places
        BY PlaceNames
      <4> QED BY <2>2, <2>3, <3>1, <4>1 DEF BusInv, InOrder, Orderly
    <3>3. y = x
      BY <3>2
    <3> QED BY <2>4, <2>5, <2>6, <3>3 DEF Distinct
  <2>7. Positions(p) = {<<x, n>>}
    BY <1>1, <1>2, <2>5, <2>6
  <2> QED BY <1>5, <2>7, FS_Singleton
<1> QED BY <1>4, <1>5

LEMMA InvRouted == BusInv => RoutedToRequester
<1> SUFFICES ASSUME BusInv PROVE RoutedToRequester
  OBVIOUS
<1>1. ASSUME NEW x \in Nodes, NEW p \in ToSet(Line(x)) PROVE p \in BelongsTo(txn, requester_map)[x]
  <2>1. PICK k \in Kinds : p \in ToSet(Store[<<k, x>>])
    BY LineHolds
  <2>2. <<k, x>> \in Places /\ <<k, x>>[2] = x
    BY PlaceNames
  <2> QED BY <2>1, <2>2 DEF BusInv, InOrder, Orderly
<1>2. ASSUME NEW t \in Targets, NEW p \in ToSet(AtTarget(t))
      PROVE requester_map[p] = txn[p].owner /\ txn[p].target = t
  <2>1. t \in Nodes /\ t \notin Initiators /\ Line(t) = AtTarget(t)
    BY NodeFacts DEF Nodes, Line
  <2> QED BY <1>1, <2>1 DEF BelongsTo
<1>3. ASSUME NEW i \in Initiators, NEW p \in ToSet(response_fifo[i]) PROVE txn[p].owner = i
  <2>1. i \in Nodes /\ <<"response", i>> \in Places /\ Store[<<"response", i>>] = response_fifo[i]
        /\ <<"response", i>>[2] = i
    BY NamedPlaces, StoreNow DEF Nodes
  <2>2. p \in BelongsTo(txn, requester_map)[i]
    BY <2>1 DEF BusInv, InOrder, Orderly
  <2> QED BY <2>1, <2>2 DEF BelongsTo
<1> QED BY <1>2, <1>3 DEF RoutedToRequester

\* Every variable keeps its type: no fifo, stage or thread ever holds anything
\* but a heap address, and the heap nothing but well-formed payloads.
THEOREM TypeCorrect == Spec => []TypeOK
<1>1. BusInv => TypeOK
  BY DEF BusInv
<1> QED BY <1>1, Invariance, PTL

\* Every transaction that was allocated and not deleted is in exactly one
\* fifo, stage or thread of the system, and no deleted one is in any, however
\* many there are and however the processes interleave.
THEOREM OnePlace == Spec => []EachInOnePlace
BY Invariance, InvPlaces, PTL

\* A transaction at a target is one made to that target, and requester_map
\* names who made it; what comes back to an initiator is its own.
THEOREM Routed == Spec => []RoutedToRequester
BY Invariance, InvRouted, PTL

\* When Vcore sees resp, rdata is the answer to the access it is making.
THEOREM AnswersMatch == Spec => []AnswerMatchesAccess
<1>1. BusInv => AnswerMatchesAccess
  BY DEF BusInv, CoreOK, AnswerMatchesAccess
<1> QED BY <1>1, Invariance, PTL

\* The assertions of rv_core and of handle_target_resp never fail and no
\* thread reads a deleted payload: the program ends, if at all, at an unmapped
\* address, at a hole of the vga or at a method that writes to a full fifo.
THEOREM AssertionsHold ==
  Spec => [](halted \notin {"out_of_order", "misrouted", "dangling"})
<1>1. BusInv => halted \notin {"out_of_order", "misrouted", "dangling"}
  BY DEF BusInv, Ended
<1> QED BY <1>1, Invariance, PTL

-----------------------------------------------------------------------------
(* Room in the fifos.  A full fifo that a method would write to at an edge *)
(* keeps a thread waiting, which waits for another full fifo: with what    *)
(* the method has in hand these are more transactions than there are.      *)

LEMMA HowMany ==
  ASSUME NEW s \in Seq(Ptrs), Distinct(s)
  PROVE  IsFiniteSet(ToSet(s)) /\ Cardinality(ToSet(s)) = Len(s)
<1>1. s \in [1 .. Len(s) -> Ptrs] /\ Len(s) \in Nat /\ DOMAIN s = 1 .. Len(s)
  BY LenProperties
<1>2. s \in Bijection(1 .. Len(s), ToSet(s))
  BY <1>1 DEF Bijection, Injection, IsInjective, Surjection, Distinct, ToSet
<1>3. ExistsBijection(1 .. Len(s), ToSet(s))
  BY <1>2 DEF ExistsBijection
<1> QED BY <1>1, <1>3, FS_NatBijection, FS_CountingElements

LEMMA UnionCount ==
  ASSUME NEW S, NEW T, IsFiniteSet(S), IsFiniteSet(T), S \cap T = {}
  PROVE  /\ IsFiniteSet(S \cup T) /\ Cardinality(S \cup T) = Cardinality(S) + Cardinality(T)
         /\ Cardinality(S \cup T) \in Nat
<1>1. Cardinality(S) \in Nat /\ Cardinality(T) \in Nat
  BY FS_CardinalityType
<1>2. /\ IsFiniteSet(S \cup T)
      /\ Cardinality(S \cup T) = Cardinality(S) + Cardinality(T) - Cardinality(S \cap T)
  BY FS_Union
<1>3. Cardinality(S \cap T) = 0
  BY FS_EmptySet
<1> QED BY <1>1, <1>2, <1>3

\* The debugger's transactions are counted; with one to come there is one less.
Few ==
  /\ IsFiniteSet(InFlight(txn, Debugger))
  /\ Cardinality(InFlight(txn, Debugger)) <= MaxDebug
  /\ dmm_bus # "idle" => Cardinality(InFlight(txn, Debugger)) < MaxDebug

\* A method that has yet to run at this edge finds room for what it writes.
Room ==
  /\ Debugger \in todo => /\ dmm_bus # "idle" => ~Full(request_fifo[Debugger])
                          /\ request_in_flight2 # NULL => ~Full(response_fifo[Dms])
  /\ Uart \in todo => (serving[Uart] # NULL => ~Full(response_fifo[Uart]))

RoomInv == BusInv /\ Few /\ Room /\ halted # "method_blocked"

\* What two full fifos and two more places hold.
LEMMA Crowd ==
  ASSUME BusInv, Few, NEW c \in Places, NEW d \in Places, NEW e \in Places,
         c # d, c # e, d # e, Full(Store[c]), Full(Store[d]), Store[e] # <<>>
  PROVE  /\ 2 * FifoSize <= Cardinality(InFlight(txn, Debugger))
         /\ \A f \in Places : f \notin {c, d, e} /\ Store[f] # <<>> =>
              2 * FifoSize + 1 <= Cardinality(InFlight(txn, Debugger))
<1> DEFINE H(x) == ToSet(Store[x])
           F == InFlight(txn, Debugger)
<1>1. \A x \in Places : /\ Store[x] \in Seq(Ptrs) /\ IsFiniteSet(H(x)) /\ Cardinality(H(x)) = Len(Store[x])
                        /\ Len(Store[x]) \in Nat /\ (Store[x] # <<>> => Len(Store[x]) >= 1)
                        /\ H(x) \subseteq Live(txn)
  <2> SUFFICES ASSUME NEW x \in Places
      PROVE /\ Store[x] \in Seq(Ptrs) /\ IsFiniteSet(H(x)) /\ Cardinality(H(x)) = Len(Store[x])
            /\ Len(Store[x]) \in Nat /\ (Store[x] # <<>> => Len(Store[x]) >= 1)
            /\ H(x) \subseteq Live(txn)
    OBVIOUS
  <2>1. Store[x] \in Seq(Ptrs) /\ Distinct(Store[x]) /\ H(x) \subseteq Live(txn)
    BY DEF BusInv, InOrder, Orderly
  <2>2. Len(Store[x]) \in Nat /\ (Store[x] # <<>> => Len(Store[x]) >= 1)
    BY <2>1, EmptySeq, LenProperties
  <2> QED BY <2>1, <2>2, HowMany
<1>2. \A x, y \in Places : x # y => H(x) \cap H(y) = {}
  BY DEF BusInv, InOrder, Orderly
<1>3. IsFiniteSet(Live(txn)) /\ Cardinality(Live(txn)) <= Cardinality(F) + 1 /\ Cardinality(F) \in Nat
      /\ Cardinality(Live(txn)) \in Nat
  <2>1. Live(txn) \subseteq F \cup {request_in_flight}
    <3> SUFFICES ASSUME NEW p \in Live(txn), p \notin F PROVE p = request_in_flight
      OBVIOUS
    <3>1. p \in Ptrs /\ txn[p] # NULL
      BY DEF Live
    <3>2. txn[p].owner \in {Core, Debugger}
      BY <3>1, TargetOfTyped DEF BusInv, Initiators
    <3>3. txn[p].owner = Core
      BY <3>1, <3>2 DEF InFlight
    <3> QED BY <3>3 DEF BusInv, CoreOK
  <2>2. IsFiniteSet(F)
    BY DEF Few
  <2> HIDE DEF F
  <2>3. /\ Cardinality(F) \in Nat /\ IsFiniteSet(F \cup {request_in_flight})
        /\ Cardinality(F \cup {request_in_flight}) <= Cardinality(F) + 1
        /\ Cardinality(F \cup {request_in_flight}) \in Nat
    <3>1. Cardinality(F) \in Nat
      BY <2>2, FS_CardinalityType
    <3>2. /\ IsFiniteSet(F \cup {request_in_flight})
          /\ Cardinality(F \cup {request_in_flight}) =
               IF request_in_flight \in F THEN Cardinality(F) ELSE Cardinality(F) + 1
      BY <2>2, FS_AddElement
    <3> QED BY <3>1, <3>2
  <2>4. /\ IsFiniteSet(Live(txn)) /\ Cardinality(Live(txn)) \in Nat
        /\ Cardinality(Live(txn)) <= Cardinality(F \cup {request_in_flight})
    BY <2>1, <2>3, FS_Subset, FS_CardinalityType
  <2> QED BY <2>3, <2>4
<1>4. FifoSize \in Nat /\ Len(Store[c]) >= FifoSize /\ Len(Store[d]) >= FifoSize
  BY SchoolBusAssumption DEF Full
<1> HIDE DEF H, F
<1>5. /\ IsFiniteSet(H(c) \cup H(d))
      /\ Cardinality(H(c) \cup H(d)) = Cardinality(H(c)) + Cardinality(H(d))
  BY <1>1, <1>2, UnionCount
<1>6. /\ IsFiniteSet((H(c) \cup H(d)) \cup H(e))
      /\ Cardinality((H(c) \cup H(d)) \cup H(e)) = Cardinality(H(c)) + Cardinality(H(d)) + Cardinality(H(e))
  <2>1. (H(c) \cup H(d)) \cap H(e) = {}
    BY <1>2
  <2> QED BY <1>1, <1>5, <2>1, UnionCount
<1> DEFINE U == (H(c) \cup H(d)) \cup H(e)
<1>7. /\ IsFiniteSet(U) /\ Cardinality(U) \in Nat /\ Cardinality(U) >= 2 * FifoSize + 1
      /\ U \in SUBSET Live(txn)
  <2>1. /\ Cardinality(H(c)) \in Nat /\ Cardinality(H(d)) \in Nat /\ Cardinality(H(e)) \in Nat
        /\ Cardinality(H(c)) >= FifoSize /\ Cardinality(H(d)) >= FifoSize
        /\ Cardinality(H(e)) >= 1
    BY <1>1, <1>4
  <2>2. IsFiniteSet(U) /\ Cardinality(U) = Cardinality(H(c)) + Cardinality(H(d)) + Cardinality(H(e))
    BY <1>6
  <2>3. U \in SUBSET Live(txn)
    BY <1>1
  <2> HIDE DEF U
  <2> QED BY <1>4, <2>1, <2>2, <2>3
<1>8. 2 * FifoSize <= Cardinality(F)
  <2> HIDE DEF U
  <2>1. Cardinality(U) <= Cardinality(Live(txn))
    BY <1>3, <1>7, FS_Subset
  <2> QED BY <1>3, <1>4, <1>7, <2>1
<1>9. ASSUME NEW f \in Places, f \notin {c, d, e}, Store[f] # <<>>
      PROVE  2 * FifoSize + 1 <= Cardinality(F)
  <2> DEFINE W == U \cup H(f)
  <2>1. IsFiniteSet(H(f)) /\ Cardinality(H(f)) = Len(Store[f]) /\ Cardinality(H(f)) \in Nat
        /\ Cardinality(H(f)) >= 1
    BY <1>1, <1>9
  <2>2. U \cap H(f) = {} /\ W \in SUBSET Live(txn)
    BY <1>1, <1>2, <1>9
  <2> HIDE DEF U
  <2>3. Cardinality(W) = Cardinality(U) + Cardinality(H(f))
    BY <1>7, <2>1, <2>2, UnionCount
  <2>4. Cardinality(W) <= Cardinality(Live(txn))
    BY <1>3, <2>2, FS_Subset
  <2> HIDE DEF W
  <2> QED BY <1>3, <1>4, <1>7, <2>1, <2>3, <2>4
<1> QED BY <1>8, <1>9 DEF F

LEMMA FullHolds ==
  ASSUME NEW s, Full(s) PROVE s # <<>>
<1>1. Len(<<>>) = 0 /\ FifoSize \in Nat \ {0}
  BY SchoolBusAssumption
<1> QED BY <1>1 DEF Full

\* A target that cannot hand over its answer.
LEMMA AnswerHasRoom ==
  ASSUME MaxDebug <= 2 * FifoSize, BusInv, Few, Running, Quiescent,
         NEW t \in Targets, NEW k \in {"serving", "second"}, Store[<<k, t>>] # <<>>,
         Full(response_fifo[t])
  PROVE  FALSE
<1> DEFINE i == target_thread[t].to
           c == <<"response", t>>
           d == <<"response", i>>
           e == <<"target_thread", t>>
           f == <<k, t>>
<1>1. target_thread[t] # NULL /\ Full(response_fifo[i])
  BY FullHolds DEF Quiescent, CanTake, CanReturn
<1>2. target_thread[t] \in Job /\ i \in Initiators
  BY <1>1 DEF BusInv, TypeOK, ThreadsBound, Sent
<1>3. t \in Nodes /\ i \in Nodes /\ t # i
  BY <1>2, NodeFacts DEF Nodes
<1>4. c \in Places /\ d \in Places /\ e \in Places /\ f \in Places
  BY <1>3, NamedPlaces
<1>5. c # d /\ c # e /\ d # e /\ f \notin {c, d, e}
  BY <1>3
<1>6. Store[c] = response_fifo[t] /\ Store[d] = response_fifo[i] /\ Store[e] # <<>>
  <2>1. Store[c] = response_fifo[t] /\ Store[d] = response_fifo[i]
        /\ Store[e] = Held(target_thread[t])
    BY <1>3, StoreNow
  <2>2. Held(target_thread[t]) = <<target_thread[t].ptr>> /\ target_thread[t].ptr \in Ptrs
    BY <1>2, HeldFacts
  <2>3. <<target_thread[t].ptr>> # <<>>
    BY <2>2, SlotFacts
  <2> QED BY <2>1, <2>2, <2>3
<1> HIDE DEF c, d, e
<1>7. 2 * FifoSize + 1 <= Cardinality(InFlight(txn, Debugger))
  BY <1>1, <1>4, <1>5, <1>6, Crowd
<1>8. Cardinality(InFlight(txn, Debugger)) <= MaxDebug /\ Cardinality(InFlight(txn, Debugger)) \in Nat
      /\ FifoSize \in Nat /\ MaxDebug \in Nat
  BY SchoolBusAssumption, FS_CardinalityType DEF Few
<1> QED BY <1>7, <1>8

\* The debugger finds room for the transaction it strobes.
LEMMA StrobeHasRoom ==
  ASSUME MaxDebug <= 2 * FifoSize, BusInv, Few, Running, Quiescent, dmm_bus # "idle",
         Full(request_fifo[Debugger])
  PROVE  FALSE
<1> DEFINE t == initiator_thread[Debugger].to
           c == <<"request", Debugger>>
           d == <<"request", t>>
           e == <<"initiator_thread", Debugger>>
<1>0. Debugger \in Initiators
  BY NodeFacts
<1>1. initiator_thread[Debugger] # NULL /\ Full(request_fifo[t])
  BY <1>0, FullHolds DEF Quiescent, CanFetch, CanDeliver
<1>2. initiator_thread[Debugger] \in Job /\ t \in Targets
  BY <1>0, <1>1 DEF BusInv, TypeOK, ThreadsBound, Sent
<1>3. t \in Nodes /\ Debugger \in Nodes /\ t # Debugger
  BY <1>2, NodeFacts DEF Nodes
<1>4. c \in Places /\ d \in Places /\ e \in Places
  BY <1>3, NamedPlaces
<1>5. c # d /\ c # e /\ d # e
  BY <1>3
<1>6. Store[c] = request_fifo[Debugger] /\ Store[d] = request_fifo[t] /\ Store[e] # <<>>
  <2>1. Store[c] = request_fifo[Debugger] /\ Store[d] = request_fifo[t]
        /\ Store[e] = Held(initiator_thread[Debugger])
    BY <1>0, <1>3, StoreNow
  <2>2. Held(initiator_thread[Debugger]) = <<initiator_thread[Debugger].ptr>>
        /\ initiator_thread[Debugger].ptr \in Ptrs
    BY <1>2, HeldFacts
  <2>3. <<initiator_thread[Debugger].ptr>> # <<>>
    BY <2>2, SlotFacts
  <2> QED BY <2>1, <2>2, <2>3
<1> HIDE DEF c, d, e
<1>7. 2 * FifoSize <= Cardinality(InFlight(txn, Debugger))
  BY <1>1, <1>4, <1>5, <1>6, Crowd
<1>8. Cardinality(InFlight(txn, Debugger)) < MaxDebug /\ Cardinality(InFlight(txn, Debugger)) \in Nat
      /\ FifoSize \in Nat /\ MaxDebug \in Nat
  BY SchoolBusAssumption, FS_CardinalityType DEF Few
<1> QED BY <1>7, <1>8

\* The core has one transaction, and issues when it has none.
LEMMA CoreHasRoom ==
  ASSUME BusInv, request_in_flight = NULL
  PROVE  ~Full(request_fifo[Core])
<1> SUFFICES ASSUME Full(request_fifo[Core]) PROVE FALSE
  OBVIOUS
<1> DEFINE c == <<"request", Core>>
           p == Head(Store[c])
<1>1. Core \in Initiators /\ Core \in Nodes /\ NULL \notin Ptrs
  BY NodeFacts DEF Nodes
<1>2. c \in Places /\ c[2] = Core /\ Store[c] # <<>>
  BY <1>1, NamedPlaces, StoreNow, FullHolds
<1> HIDE DEF c
<1>3. p \in Ptrs /\ p \in Live(txn) /\ p \in BelongsTo(txn, requester_map)[Core]
  BY <1>2, HeadBelongs DEF BusInv
<1>4. txn[p].owner = Core
  BY <1>1, <1>3 DEF BelongsTo
<1> QED BY <1>1, <1>3, <1>4 DEF BusInv, CoreOK

LEMMA RoomAtEdge ==
  ASSUME MaxDebug <= 2 * FifoSize, BusInv, Few, Posedge
  PROVE  Room'
<1>1. /\ UNCHANGED <<dmm_bus, request_fifo, response_fifo, serving, request_in_flight2>>
      /\ Running /\ Quiescent
  BY DEF Posedge, fifoVars
<1>2. dmm_bus # "idle" => ~Full(request_fifo[Debugger])
  BY <1>1, StrobeHasRoom
<1>3. /\ Dms \in Targets /\ Uart \in Targets /\ Dms \in Nodes /\ Uart \in Nodes
      /\ serving[Uart] \in Ptrs \cup {NULL} /\ request_in_flight2 \in Ptrs \cup {NULL}
  BY NodeFacts DEF Nodes, BusInv, TypeOK
<1>4. ASSUME request_in_flight2 # NULL PROVE ~Full(response_fifo[Dms])
  <2>1. Store[<<"second", Dms>>] # <<>>
    BY <1>3, <1>4, StoreNow, SlotFacts
  <2> QED BY <1>1, <1>3, <2>1, AnswerHasRoom
<1>5. ASSUME serving[Uart] # NULL PROVE ~Full(response_fifo[Uart])
  <2>1. Store[<<"serving", Uart>>] # <<>>
    BY <1>3, <1>5, StoreNow, SlotFacts
  <2> QED BY <1>1, <1>3, <2>1, AnswerHasRoom
<1> QED BY <1>1, <1>2, <1>4, <1>5 DEF Room, Full

LEMMA FewShrinks ==
  ASSUME Few, dmm_bus' = dmm_bus, InFlight(txn', Debugger) \subseteq InFlight(txn, Debugger)
  PROVE  Few'
<1> DEFINE F == InFlight(txn, Debugger)
           G == InFlight(txn', Debugger)
<1>1. /\ IsFiniteSet(F) /\ Cardinality(F) <= MaxDebug /\ G \in SUBSET F
      /\ dmm_bus # "idle" => Cardinality(F) < MaxDebug
  BY DEF Few
<1> HIDE DEF F, G
<1>2. IsFiniteSet(G) /\ Cardinality(G) <= Cardinality(F)
  BY <1>1, FS_Subset
<1>3. Cardinality(F) \in Nat /\ Cardinality(G) \in Nat /\ MaxDebug \in Nat
  BY <1>1, <1>2, FS_CardinalityType, SchoolBusAssumption
<1>4. /\ IsFiniteSet(G) /\ Cardinality(G) <= MaxDebug
      /\ dmm_bus # "idle" => Cardinality(G) < MaxDebug
  BY <1>1, <1>2, <1>3
<1> QED BY <1>4 DEF Few, G

LEMMA DebuggerKeepsFew ==
  ASSUME BusInv, Few, NEW p \in Ptrs \cup {NULL}, DebuggerClock(p)
  PROVE  Few'
<1> DEFINE F == InFlight(txn, Debugger)
           G == InFlight(txn', Debugger)
<1>1. /\ IsFiniteSet(F) /\ Cardinality(F) <= MaxDebug
      /\ dmm_bus # "idle" => Cardinality(F) < MaxDebug
  BY DEF Few
<1>2. p # NULL => dmm_bus # "idle"
  BY DEF DebuggerClock
<1>3. G \in SUBSET (IF p = NULL THEN F ELSE F \cup {p})
  <2> SUFFICES ASSUME NEW q \in G, q # p PROVE q \in F
    BY NodeFacts DEF InFlight
  <2>1. q \in Ptrs /\ txn'[q] # NULL /\ txn'[q].owner = Debugger
    BY DEF InFlight
  <2>2. txn'[q] = CASE q = First(response_fifo[Debugger]) -> NULL
                    [] q = p -> [owner |-> Debugger, target |-> dmm_bus, access |-> 0]
                    [] OTHER -> txn[q]
    BY <2>1 DEF DebuggerClock
  <2>3. txn'[q] = txn[q]
    BY <2>1, <2>2
  <2> QED BY <2>1, <2>3 DEF InFlight
<1>4. dmm_bus' # "idle" => Cardinality(G) < MaxDebug
  BY DEF DebuggerClock, DebugModuleStep
<1> HIDE DEF F, G
<1>5. IsFiniteSet(G) /\ Cardinality(G) <= MaxDebug
  <2>1. Cardinality(F) \in Nat /\ MaxDebug \in Nat
    BY <1>1, FS_CardinalityType, SchoolBusAssumption
  <2>2. CASE p = NULL
    <3>1. IsFiniteSet(G) /\ Cardinality(G) <= Cardinality(F)
      BY <1>1, <1>3, <2>2, FS_Subset
    <3>2. Cardinality(G) \in Nat
      BY <3>1, FS_CardinalityType
    <3> QED BY <1>1, <2>1, <3>1, <3>2
  <2>3. CASE p # NULL
    <3>1. IsFiniteSet(F \cup {p}) /\ Cardinality(F \cup {p}) <= Cardinality(F) + 1
          /\ Cardinality(F \cup {p}) \in Nat
      <4>1. /\ IsFiniteSet(F \cup {p})
            /\ Cardinality(F \cup {p}) = IF p \in F THEN Cardinality(F) ELSE Cardinality(F) + 1
        BY <1>1, FS_AddElement
      <4> QED BY <2>1, <4>1
    <3>2. IsFiniteSet(G) /\ Cardinality(G) <= Cardinality(F \cup {p})
      BY <1>3, <2>3, <3>1, FS_Subset
    <3>3. Cardinality(G) \in Nat
      BY <3>2, FS_CardinalityType
    <3> QED BY <1>1, <1>2, <2>1, <2>3, <3>1, <3>2, <3>3
  <2> QED BY <2>2, <2>3
<1> QED BY <1>4, <1>5 DEF Few, G

LEMMA RoomKept ==
  ASSUME MaxDebug <= 2 * FifoSize
  PROVE  RoomInv /\ [Next]_vars => RoomInv'
<1> SUFFICES ASSUME RoomInv, [Next]_vars PROVE RoomInv'
  OBVIOUS
<1>1. BusInv'
  BY BusKept DEF RoomInv
<1>2. CASE CoreClock
  <2>1. /\ todo' = todo \ {Core} /\ dmm_bus' = dmm_bus
        /\ UNCHANGED <<serving, request_in_flight2>>
        /\ Core # Debugger /\ Core # Dms /\ Core # Uart
    BY <1>2, NodeFacts DEF CoreClock
  <2>2. /\ InFlight(txn', Debugger) \subseteq InFlight(txn, Debugger)
        /\ \A x \in Nodes \ {Core} :
             request_fifo'[x] = request_fifo[x] /\ response_fifo'[x] = response_fifo[x]
        /\ halted' # "method_blocked"
    <3>1. CASE \E p \in Ptrs : CoreIssue(p)
      <4>1. PICK p \in Ptrs : CoreIssue(p)
        BY <3>1
      <4>2. \A q \in Ptrs : q # p => txn'[q] = txn[q]
        BY <4>1 DEF CoreIssue, RoomInv, BusInv, TypeOK
      <4>3. txn'[p].owner = Core
        BY <4>1 DEF CoreIssue, RoomInv, BusInv, TypeOK
      <4>4. InFlight(txn', Debugger) \subseteq InFlight(txn, Debugger)
        BY <2>1, <4>2, <4>3 DEF InFlight
      <4>5. halted' = halted
        BY <4>1, CoreHasRoom DEF CoreIssue, CoreIssues, EndIf, RoomInv
      <4> QED BY <4>1, <4>4, <4>5 DEF CoreIssue, RoomInv, BusInv, TypeOK, Nodes
    <3>2. CASE CoreReceive
      <4>1. \A q \in Ptrs : txn'[q] = NULL \/ txn'[q] = txn[q]
        BY <3>2 DEF CoreReceive, RoomInv, BusInv, TypeOK
      <4>2. InFlight(txn', Debugger) \subseteq InFlight(txn, Debugger)
        BY <4>1 DEF InFlight
      <4>3. halted' # "method_blocked"
        BY <3>2 DEF CoreReceive, RoomInv
      <4> QED BY <3>2, <4>2, <4>3 DEF CoreReceive, RoomInv, BusInv, TypeOK, Nodes
    <3>3. CASE CoreWait
      BY <3>3 DEF CoreWait, fifoVars, RoomInv
    <3> QED BY <1>2, <3>1, <3>2, <3>3 DEF CoreClock
  <2>3. Few'
    BY <2>1, <2>2, FewShrinks DEF RoomInv
  <2>4. Room'
    <3>1. Debugger \in Nodes /\ Dms \in Nodes /\ Uart \in Nodes
      BY NodeFacts DEF Nodes
    <3> QED BY <2>1, <2>2, <3>1 DEF RoomInv, Room, Full
  <2> QED BY <1>1, <2>2, <2>3, <2>4 DEF RoomInv
<1>3. CASE DebuggerNext
  <2>1. PICK p \in Ptrs \cup {NULL} : DebuggerClock(p)
    BY <1>3 DEF DebuggerNext
  <2>2. Few'
    BY <2>1, DebuggerKeepsFew DEF RoomInv
  <2>3. /\ Debugger \in todo /\ todo' = todo \ {Debugger} /\ (p # NULL => dmm_bus # "idle")
        /\ serving'[Uart] = serving[Uart] /\ response_fifo'[Uart] = response_fifo[Uart]
    BY <2>1, NodeFacts DEF DebuggerClock, RoomInv, BusInv, TypeOK
  <2>4. halted' # "method_blocked"
    BY <2>1, <2>3 DEF DebuggerClock, EndIf, RoomInv, Room
  <2>5. Room'
    BY <2>3 DEF RoomInv, Room, Full
  <2> QED BY <1>1, <2>2, <2>4, <2>5 DEF RoomInv
<1>4. CASE UartNext
  <2>1. PICK ack \in BOOLEAN : UartClock(ack)
    BY <1>4 DEF UartNext
  <2>2. /\ Uart \in todo /\ todo' = todo \ {Uart} /\ dmm_bus' = dmm_bus /\ txn' = txn
        /\ request_in_flight2' = request_in_flight2
        /\ response_fifo'[Dms] = response_fifo[Dms] /\ request_fifo'[Debugger] = request_fifo[Debugger]
    <3>1. Uart # Dms /\ Uart # Debugger
      BY NodeFacts
    <3> QED BY <2>1, <3>1 DEF UartClock
  <2>3. Few'
    BY <2>2, FewShrinks DEF RoomInv
  <2>4. halted' # "method_blocked"
    BY <2>1, <2>2 DEF UartClock, UartAnswered, EndIf, RoomInv, Room
  <2>5. Room'
    BY <2>2 DEF RoomInv, Room, Full
  <2> QED BY <1>1, <2>3, <2>4, <2>5 DEF RoomInv
<1>5. CASE Posedge
  <2>1. Few'
    BY <1>5, FewShrinks DEF Posedge, RoomInv
  <2> QED BY <1>1, <1>5, <2>1, RoomAtEdge DEF RoomInv, Posedge
<1>6. CASE ReleaseReset \/ ThreadNext
  <2>1. /\ todo = {} /\ todo' = todo /\ txn' = txn /\ dmm_bus' = dmm_bus
        /\ halted' \in {halted, "unmapped", "bad_address", "dangling", "misrouted"}
    BY <1>6 DEF ReleaseReset, Quiescent, ThreadNext, InitiatorFetch, InitiatorDeliver,
                ThreadTargetServe, ThreadTargetAnswer, TargetTake, TargetReturn
  <2>2. Few'
    BY <2>1, FewShrinks DEF RoomInv
  <2> QED BY <1>1, <2>1, <2>2 DEF RoomInv, Room
<1>7. CASE UNCHANGED vars
  <2>1. UNCHANGED <<todo, halted, txn, request_fifo, response_fifo, serving, request_in_flight2,
                    dmm_bus>>
    BY <1>7 DEF vars, fifoVars
  <2>2. Few'
    BY <2>1, FewShrinks DEF RoomInv
  <2> QED BY <1>1, <2>1, <2>2 DEF RoomInv, Room, Full
<1> QED BY <1>2, <1>3, <1>4, <1>5, <1>6, <1>7 DEF Next

LEMMA RoomInit == Init => RoomInv
<1> SUFFICES ASSUME Init PROVE RoomInv
  OBVIOUS
<1>1. InFlight(txn, Debugger) = {}
  BY DEF Init, InFlight
<1>2. Few
  <2>1. IsFiniteSet({}) /\ Cardinality({}) = 0
    BY FS_EmptySet
  <2>2. dmm_bus = "idle" /\ 0 <= MaxDebug
    BY SchoolBusAssumption DEF Init
  <2> QED BY <1>1, <2>1, <2>2 DEF Few
<1>3. Room /\ halted # "method_blocked"
  BY DEF Init, Room
<1> QED BY <1>2, <1>3, BusInit DEF RoomInv

\* As long as the debugger has at most twice as many transactions under way as
\* a fifo holds, only an access to an unmapped address or to a hole between the
\* arrays of the vga ends the program: no SC_METHOD writes to a full fifo and no
\* other assertion of the processes modelled here fails.
THEOREM RunsOn ==
  ASSUME MaxDebug <= 2 * FifoSize
  PROVE  Spec => []NeverAborts
<1>1. RoomInv => NeverAborts
  BY DEF RoomInv, BusInv, Ended, NeverAborts
<1>2. RoomInv /\ [Next]_vars => RoomInv'
  BY RoomKept
<1> QED BY <1>1, <1>2, RoomInit, PTL DEF Spec

-----------------------------------------------------------------------------
(* The bus implements OrderedBus.  What is pending from an initiator to a  *)
(* destination is spread over eight places, one behind another.            *)

InLine(a, b, c, d, e, f, g, h) == a \o (b \o (c \o (d \o (e \o (f \o (g \o h))))))

\* What moves from the front of b to the end of a, with r behind them.
Carries(a, u, b, r) == (a \o u) \o (b \o r) = a \o ((u \o b) \o r)

LEMMA Carry ==
  ASSUME NEW S, NEW a \in Seq(S), NEW u \in Seq(S), NEW b \in Seq(S), NEW r \in Seq(S)
  PROVE  Carries(a, u, b, r)
<1>1. b \o r \in Seq(S)
  BY ConcatProperties
<1>2. (a \o u) \o (b \o r) = a \o (u \o (b \o r))
  BY <1>1, ConcatAssociative
<1>3. u \o (b \o r) = (u \o b) \o r
  BY ConcatAssociative
<1> QED BY <1>2, <1>3 DEF Carries

\* Nothing changes when what is first in one place becomes the last of the
\* place before it.
HandsOn(a, b, c, d, e, f, g, h, u) ==
  /\ InLine(a \o u, b, c, d, e, f, g, h) = InLine(a, u \o b, c, d, e, f, g, h)
  /\ InLine(a, b \o u, c, d, e, f, g, h) = InLine(a, b, u \o c, d, e, f, g, h)
  /\ InLine(a, b, c \o u, d, e, f, g, h) = InLine(a, b, c, u \o d, e, f, g, h)
  /\ InLine(a, b, c, d \o u, e, f, g, h) = InLine(a, b, c, d, u \o e, f, g, h)
  /\ InLine(a, b, c, d, e \o u, f, g, h) = InLine(a, b, c, d, e, u \o f, g, h)
  /\ InLine(a, b, c, d, e, f \o u, g, h) = InLine(a, b, c, d, e, f, u \o g, h)
  /\ InLine(a, b, c, d, e, f, g \o u, h) = InLine(a, b, c, d, e, f, g, u \o h)
  /\ d = <<>> =>
       InLine(a, b, c \o u, d, e, f, g, h) = InLine(a, b, c, d, u \o e, f, g, h)

LEMMA HandedOn ==
  ASSUME NEW S, NEW a \in Seq(S), NEW b \in Seq(S), NEW c \in Seq(S), NEW d \in Seq(S),
         NEW e \in Seq(S), NEW f \in Seq(S), NEW g \in Seq(S), NEW h \in Seq(S), NEW u \in Seq(S)
  PROVE  HandsOn(a, b, c, d, e, f, g, h, u)
<1> DEFINE r7 == g \o h
           r6 == f \o r7
           r5 == e \o r6
           r4 == d \o r5
           r3 == c \o r4
<1>1. r7 \in Seq(S)
  BY ConcatProperties
<1> HIDE DEF r7
<1>2. r6 \in Seq(S)
  BY <1>1, ConcatProperties
<1> HIDE DEF r6
<1>3. r5 \in Seq(S)
  BY <1>2, ConcatProperties
<1> HIDE DEF r5
<1>4. r4 \in Seq(S)
  BY <1>3, ConcatProperties
<1> HIDE DEF r4
<1>5. r3 \in Seq(S)
  BY <1>4, ConcatProperties
<1> HIDE DEF r3
<1>6. Carries(a, u, b, r3)
  BY <1>5, Carry
<1>7. Carries(b, u, c, r4)
  BY <1>4, Carry
<1>8. Carries(c, u, d, r5)
  BY <1>3, Carry
<1>9. Carries(d, u, e, r6)
  BY <1>2, Carry
<1>10. Carries(e, u, f, r7)
  BY <1>1, Carry
<1>11. Carries(f, u, g, h)
  BY Carry
<1>12. Carries(g, u, h, <<>>)
  <2>1. <<>> \in Seq(S)
    OBVIOUS
  <2> QED BY <2>1, Carry
<1>14. (g \o u) \o h = g \o (u \o h)
  <2>1. h \o <<>> = h /\ (u \o h) \o <<>> = u \o h
    BY ConcatProperties, ConcatEmptySeq
  <2> QED BY <1>12, <2>1 DEF Carries
<1>13. ASSUME d = <<>> PROVE (c \o u) \o (d \o r5) = c \o (d \o ((u \o e) \o r6))
  <2>1. Carries(c, u, e, r6)
    BY <1>2, Carry
  <2>2. (u \o e) \o r6 \in Seq(S)
    BY <1>2, ConcatProperties
  <2>3. <<>> \o r5 = r5 /\ <<>> \o ((u \o e) \o r6) = (u \o e) \o r6
    BY <1>3, <2>2, ConcatEmptySeq
  <2> QED BY <1>13, <2>1, <2>3 DEF r5, Carries
<1> QED BY <1>6, <1>7, <1>8, <1>9, <1>10, <1>11, <1>13, <1>14 DEF HandsOn, Carries, InLine, r3, r4, r5, r6, r7

\* What of a place is of interest, and how that changes.
PartOf(store, K, c) == IF c \in Places THEN Only(store[c], K) ELSE <<>>
Loses(store, new, K, c, u) == PartOf(store, K, c) = u \o PartOf(new, K, c)
Gains(store, new, K, d, u) == PartOf(new, K, d) = PartOf(store, K, d) \o u
Others(store, new, K, D) == \A x : x \notin D => PartOf(new, K, x) = PartOf(store, K, x)
PartAlone(p, K) == Only(<<p>>, K)

LEMMA PartTyped ==
  ASSUME NEW store \in [Places -> Seq(Ptrs)], NEW K, NEW c
  PROVE  PartOf(store, K, c) \in Seq(K)
<1>1. c \in Places => Only(store[c], K) \in Seq(K)
  BY OnlyTyped
<1>2. <<>> \in Seq(K)
  OBVIOUS
<1> QED BY <1>1, <1>2 DEF PartOf

LEMMA AloneIs ==
  ASSUME NEW p \in Ptrs, NEW K
  PROVE  /\ PartAlone(p, K) \in Seq(K)
         /\ p \in K => PartAlone(p, K) = <<p>>
         /\ p \notin K => PartAlone(p, K) = <<>>
<1>1. PartAlone(p, K) = IF p \in K THEN <<p>> ELSE <<>>
  BY OnlySingle DEF PartAlone
<1>2. <<>> \in Seq(K) /\ (p \in K => <<p>> \in Seq(K))
  BY Singleton
<1> QED BY <1>1, <1>2

LEMMA PartsLeft ==
  ASSUME NEW store \in [Places -> Seq(Ptrs)], NEW K, NEW c \in Places, store[c] # <<>>
  PROVE  /\ Left(store, c) \in [Places -> Seq(Ptrs)] /\ Head(store[c]) \in Ptrs
         /\ Loses(store, Left(store, c), K, c, PartAlone(Head(store[c]), K))
         /\ Others(store, Left(store, c), K, {c})
<1> DEFINE p == Head(store[c])
           t == Tail(store[c])
           u == <<p>>
<1>1. p \in Ptrs /\ t \in Seq(Ptrs) /\ u \in Seq(Ptrs) /\ u \o t = store[c]
  BY HeadTailProperties, Singleton, HeadThenTail
<1>2. /\ Left(store, c)[c] = t /\ \A x \in Places : x # c => Left(store, c)[x] = store[x]
      /\ Left(store, c) \in [Places -> Seq(Ptrs)]
  BY <1>1 DEF Left
<1> HIDE DEF u
<1>3. Only(u \o t, K) = Only(u, K) \o Only(t, K)
  <2> HIDE DEF p, t
  <2>1. t \in Seq(Ptrs) /\ u \in Seq(Ptrs)
    BY <1>1
  <2> QED BY <2>1, OnlyConcat
<1>4. Only(store[c], K) = PartAlone(p, K) \o Only(t, K)
  BY <1>1, <1>3 DEF u, PartAlone
<1> HIDE DEF p, t
<1>5. Loses(store, Left(store, c), K, c, PartAlone(p, K)) /\ Others(store, Left(store, c), K, {c})
  BY <1>2, <1>4 DEF Loses, Others, PartOf
<1> QED BY <1>1, <1>2, <1>5 DEF p

LEMMA PartsEntered ==
  ASSUME NEW store \in [Places -> Seq(Ptrs)], NEW K, NEW d \in Places, NEW p \in Ptrs
  PROVE  /\ Entered(store, d, p) \in [Places -> Seq(Ptrs)]
         /\ Gains(store, Entered(store, d, p), K, d, PartAlone(p, K))
         /\ Others(store, Entered(store, d, p), K, {d})
<1>1. /\ Entered(store, d, p)[d] = Append(store[d], p)
      /\ \A x \in Places : x # d => Entered(store, d, p)[x] = store[x]
      /\ store[d] \in Seq(Ptrs)
  BY DEF Entered
<1> DEFINE u == <<p>>
<1>2. Append(store[d], p) = store[d] \o u /\ u \in Seq(Ptrs)
  BY <1>1, AppendIsConcat, Singleton
<1> HIDE DEF u
<1>3. Only(store[d] \o u, K) = Only(store[d], K) \o Only(u, K)
  BY <1>1, <1>2, OnlyConcat
<1>4. Only(u, K) = PartAlone(p, K)
  BY DEF PartAlone, u
<1>5. Entered(store, d, p) \in [Places -> Seq(Ptrs)]
  BY <1>1, AppendProperties DEF Entered
<1> QED BY <1>1, <1>2, <1>3, <1>4, <1>5 DEF Gains, Others, PartOf

LEMMA PartsMoved ==
  ASSUME NEW store \in [Places -> Seq(Ptrs)], NEW K, NEW c \in Places, NEW d \in Places, c # d,
         store[c] # <<>>
  PROVE  /\ Moved(store, c, d) \in [Places -> Seq(Ptrs)] /\ Head(store[c]) \in Ptrs
         /\ Loses(store, Moved(store, c, d), K, c, PartAlone(Head(store[c]), K))
         /\ Gains(store, Moved(store, c, d), K, d, PartAlone(Head(store[c]), K))
         /\ Others(store, Moved(store, c, d), K, {c, d})
<1> DEFINE p == Head(store[c])
           left == Left(store, c)
           u == PartAlone(p, K)
<1>1. p \in Ptrs /\ Moved(store, c, d) = Entered(left, d, p)
  BY HeadTailProperties DEF Moved, Left, Entered
<1>2. /\ left \in [Places -> Seq(Ptrs)] /\ Loses(store, left, K, c, u) /\ Others(store, left, K, {c})
  BY PartsLeft
<1> HIDE DEF p, left, u
<1>3. /\ Entered(left, d, p) \in [Places -> Seq(Ptrs)]
      /\ Gains(left, Entered(left, d, p), K, d, PartAlone(p, K))
      /\ Others(left, Entered(left, d, p), K, {d})
  BY <1>1, <1>2, PartsEntered
<1> DEFINE new == Entered(left, d, p)
<1> HIDE DEF new
<1>4. Loses(store, new, K, c, u) /\ Gains(store, new, K, d, u) /\ Others(store, new, K, {c, d})
  BY <1>2, <1>3 DEF new, u, Loses, Gains, Others
<1> QED BY <1>1, <1>3, <1>4 DEF p, new, u

\* Eight places, one behind another, from the last to the first that a
\* transaction goes through.
InRow(a, b, c, d, e, f, g, h) ==
  /\ a \notin {b, c, d, e, f, g, h} /\ b \notin {c, d, e, f, g, h} /\ c \notin {d, e, f, g, h}
  /\ d \notin {e, f, g, h} /\ e \notin {f, g, h} /\ f \notin {g, h} /\ g # h
ChainAt(store, K, a, b, c, d, e, f, g, h) ==
  InLine(PartOf(store, K, a), PartOf(store, K, b), PartOf(store, K, c), PartOf(store, K, d),
         PartOf(store, K, e), PartOf(store, K, f), PartOf(store, K, g), PartOf(store, K, h))

\* Where a transaction at y goes next: to x.
Follows(store, x, y, a, b, c, d, e, f, g, h) ==
  \/ x = a /\ y = b
  \/ x = b /\ y = c
  \/ x = c /\ y = d
  \/ x = d /\ y = e
  \/ x = e /\ y = f
  \/ x = f /\ y = g
  \/ x = g /\ y = h
  \/ x = c /\ y = e /\ d \in Places /\ store[d] = <<>>

\* What is put in front of the first or behind the last.
Follow(a, b, u) == a \o b \o u = a \o (b \o u)
Ends(a, b, c, d, e, f, g, h, u) ==
  /\ InLine(u \o a, b, c, d, e, f, g, h) = u \o InLine(a, b, c, d, e, f, g, h)
  /\ InLine(a, b, c, d, e, f, g, h \o u) = InLine(a, b, c, d, e, f, g, h) \o u

LEMMA Following ==
  ASSUME NEW S, NEW a \in Seq(S), NEW b \in Seq(S), NEW u \in Seq(S)
  PROVE  a \o b \in Seq(S) /\ Follow(a, b, u)
<1>1. a \o b \in Seq(S)
  BY ConcatProperties
<1>2. a \o (b \o u) = (a \o b) \o u
  BY ConcatAssociative
<1> QED BY <1>1, <1>2 DEF Follow

LEMMA InLineTyped ==
  ASSUME NEW S, NEW a \in Seq(S), NEW b \in Seq(S), NEW c \in Seq(S), NEW d \in Seq(S),
         NEW e \in Seq(S), NEW f \in Seq(S), NEW g \in Seq(S), NEW h \in Seq(S), NEW u \in Seq(S)
  PROVE  InLine(a, b, c, d, e, f, g, h) \in Seq(S) /\ Ends(a, b, c, d, e, f, g, h, u)
<1> DEFINE r7 == g \o h
           r6 == f \o r7
           r5 == e \o r6
           r4 == d \o r5
           r3 == c \o r4
           r2 == b \o r3
<1>1. r7 \in Seq(S) /\ Follow(g, h, u)
  BY Following
<1> HIDE DEF r7
<1>2. r6 \in Seq(S) /\ Follow(f, r7, u)
  BY <1>1, Following
<1> HIDE DEF r6
<1>3. r5 \in Seq(S) /\ Follow(e, r6, u)
  BY <1>2, Following
<1> HIDE DEF r5
<1>4. r4 \in Seq(S) /\ Follow(d, r5, u)
  BY <1>3, Following
<1> HIDE DEF r4
<1>5. r3 \in Seq(S) /\ Follow(c, r4, u)
  BY <1>4, Following
<1> HIDE DEF r3
<1>6. r2 \in Seq(S) /\ Follow(b, r3, u)
  BY <1>5, Following
<1> HIDE DEF r2
<1>7. a \o r2 \in Seq(S) /\ Follow(a, r2, u) /\ Follow(u, a, r2)
  BY <1>6, Following
<1>8. u \o a \o r2 = u \o (a \o r2) /\ a \o (r2 \o u) = a \o r2 \o u
  BY <1>7 DEF Follow
<1>9. /\ InLine(a, b, c, d, e, f, g, h) = a \o r2
      /\ InLine(u \o a, b, c, d, e, f, g, h) = (u \o a) \o r2
  BY DEF InLine, r2, r3, r4, r5, r6, r7
<1>10. InLine(a, b, c, d, e, f, g, h \o u) = a \o (r2 \o u)
  <2>1. /\ g \o (h \o u) = r7 \o u /\ f \o (r7 \o u) = r6 \o u /\ e \o (r6 \o u) = r5 \o u
        /\ d \o (r5 \o u) = r4 \o u /\ c \o (r4 \o u) = r3 \o u /\ b \o (r3 \o u) = r2 \o u
    BY <1>1, <1>2, <1>3, <1>4, <1>5, <1>6 DEF Follow, r2, r3, r4, r5, r6, r7
  <2> QED BY <2>1 DEF InLine
<1> QED BY <1>7, <1>8, <1>9, <1>10 DEF Ends

RowKept(store, new, K, a, b, c, d, e, f, g, h) ==
  ChainAt(new, K, a, b, c, d, e, f, g, h) = ChainAt(store, K, a, b, c, d, e, f, g, h)
RowShorter(store, new, K, u, a, b, c, d, e, f, g, h) ==
  ChainAt(store, K, a, b, c, d, e, f, g, h) = u \o ChainAt(new, K, a, b, c, d, e, f, g, h)
RowLonger(store, new, K, u, a, b, c, d, e, f, g, h) ==
  ChainAt(new, K, a, b, c, d, e, f, g, h) = ChainAt(store, K, a, b, c, d, e, f, g, h) \o u

LEMMA ChainMoves ==
  ASSUME NEW store \in [Places -> Seq(Ptrs)], NEW new \in [Places -> Seq(Ptrs)], NEW K,
         NEW a, NEW b, NEW c, NEW d, NEW e, NEW f, NEW g, NEW h,
         InRow(a, b, c, d, e, f, g, h), NEW x, NEW y, NEW u \in Seq(K), x # y,
         Loses(store, new, K, y, u), Gains(store, new, K, x, u), Others(store, new, K, {x, y}),
         u = <<>> \/ Follows(store, x, y, a, b, c, d, e, f, g, h)
  PROVE  RowKept(store, new, K, a, b, c, d, e, f, g, h)
<1> DEFINE O(z) == PartOf(store, K, z)
           N(z) == PartOf(new, K, z)
<1>1. \A z : O(z) \in Seq(K) /\ N(z) \in Seq(K)
  BY PartTyped
<1>2. /\ O(y) = u \o N(y) /\ N(x) = O(x) \o u
      /\ \A z : z \notin {x, y} => N(z) = O(z)
  BY DEF Loses, Gains, Others
<1>3. /\ ChainAt(new, K, a, b, c, d, e, f, g, h)
           = InLine(N(a), N(b), N(c), N(d), N(e), N(f), N(g), N(h))
      /\ ChainAt(store, K, a, b, c, d, e, f, g, h)
           = InLine(O(a), O(b), O(c), O(d), O(e), O(f), O(g), O(h))
  BY DEF ChainAt
<1> USE DEF RowKept
<1>4. CASE u = <<>>
  <2>1. \A z : N(z) = O(z)
    <3>1. <<>> \o N(y) = N(y) /\ O(x) \o <<>> = O(x)
      BY <1>1, ConcatEmptySeq
    <3> QED BY <1>2, <1>4, <3>1
  <2> QED BY <1>3, <2>1
<1>5. d \in Places /\ store[d] = <<>> => O(d) = <<>>
  BY OnlyEmpty DEF PartOf
<1> HIDE DEF O, N
<1>6. CASE x = a /\ y = b
  <2>1. /\ N(c) = O(c) /\ N(d) = O(d) /\ N(e) = O(e) /\ N(f) = O(f) /\ N(g) = O(g) /\ N(h) = O(h)
        /\ N(a) = O(a) \o u /\ O(b) = u \o N(b)
    BY <1>2, <1>6 DEF InRow
  <2>2. HandsOn(O(a), N(b), O(c), O(d), O(e), O(f), O(g), O(h), u)
    BY <1>1, HandedOn
  <2> QED BY <1>3, <2>1, <2>2 DEF HandsOn
<1>7. CASE x = b /\ y = c
  <2>1. /\ N(a) = O(a) /\ N(d) = O(d) /\ N(e) = O(e) /\ N(f) = O(f) /\ N(g) = O(g) /\ N(h) = O(h)
        /\ N(b) = O(b) \o u /\ O(c) = u \o N(c)
    BY <1>2, <1>7 DEF InRow
  <2>2. HandsOn(O(a), O(b), N(c), O(d), O(e), O(f), O(g), O(h), u)
    BY <1>1, HandedOn
  <2> QED BY <1>3, <2>1, <2>2 DEF HandsOn
<1>8. CASE x = c /\ y = d
  <2>1. /\ N(a) = O(a) /\ N(b) = O(b) /\ N(e) = O(e) /\ N(f) = O(f) /\ N(g) = O(g) /\ N(h) = O(h)
        /\ N(c) = O(c) \o u /\ O(d) = u \o N(d)
    BY <1>2, <1>8 DEF InRow
  <2>2. HandsOn(O(a), O(b), O(c), N(d), O(e), O(f), O(g), O(h), u)
    BY <1>1, HandedOn
  <2> QED BY <1>3, <2>1, <2>2 DEF HandsOn
<1>9. CASE x = d /\ y = e
  <2>1. /\ N(a) = O(a) /\ N(b) = O(b) /\ N(c) = O(c) /\ N(f) = O(f) /\ N(g) = O(g) /\ N(h) = O(h)
        /\ N(d) = O(d) \o u /\ O(e) = u \o N(e)
    BY <1>2, <1>9 DEF InRow
  <2>2. HandsOn(O(a), O(b), O(c), O(d), N(e), O(f), O(g), O(h), u)
    BY <1>1, HandedOn
  <2> QED BY <1>3, <2>1, <2>2 DEF HandsOn
<1>10. CASE x = e /\ y = f
  <2>1. /\ N(a) = O(a) /\ N(b) = O(b) /\ N(c) = O(c) /\ N(d) = O(d) /\ N(g) = O(g) /\ N(h) = O(h)
        /\ N(e) = O(e) \o u /\ O(f) = u \o N(f)
    BY <1>2, <1>10 DEF InRow
  <2>2. HandsOn(O(a), O(b), O(c), O(d), O(e), N(f), O(g), O(h), u)
    BY <1>1, HandedOn
  <2> QED BY <1>3, <2>1, <2>2 DEF HandsOn
<1>11. CASE x = f /\ y = g
  <2>1. /\ N(a) = O(a) /\ N(b) = O(b) /\ N(c) = O(c) /\ N(d) = O(d) /\ N(e) = O(e) /\ N(h) = O(h)
        /\ N(f) = O(f) \o u /\ O(g) = u \o N(g)
    BY <1>2, <1>11 DEF InRow
  <2>2. HandsOn(O(a), O(b), O(c), O(d), O(e), O(f), N(g), O(h), u)
    BY <1>1, HandedOn
  <2> QED BY <1>3, <2>1, <2>2 DEF HandsOn
<1>12. CASE x = g /\ y = h
  <2>1. /\ N(a) = O(a) /\ N(b) = O(b) /\ N(c) = O(c) /\ N(d) = O(d) /\ N(e) = O(e) /\ N(f) = O(f)
        /\ N(g) = O(g) \o u /\ O(h) = u \o N(h)
    BY <1>2, <1>12 DEF InRow
  <2>2. HandsOn(O(a), O(b), O(c), O(d), O(e), O(f), O(g), N(h), u)
    BY <1>1, HandedOn
  <2> QED BY <1>3, <2>1, <2>2 DEF HandsOn
<1>13. CASE x = c /\ y = e /\ d \in Places /\ store[d] = <<>>
  <2>1. /\ N(a) = O(a) /\ N(b) = O(b) /\ N(d) = O(d) /\ N(f) = O(f) /\ N(g) = O(g) /\ N(h) = O(h)
        /\ N(c) = O(c) \o u /\ O(e) = u \o N(e) /\ O(d) = <<>>
    BY <1>2, <1>5, <1>13 DEF InRow
  <2>2. HandsOn(O(a), O(b), O(c), O(d), N(e), O(f), O(g), O(h), u)
    BY <1>1, <2>1, HandedOn
  <2> QED BY <1>3, <2>1, <2>2 DEF HandsOn
<1> QED BY <1>4, <1>6, <1>7, <1>8, <1>9, <1>10, <1>11, <1>12, <1>13 DEF Follows

LEMMA ChainLeft ==
  ASSUME NEW store \in [Places -> Seq(Ptrs)], NEW new \in [Places -> Seq(Ptrs)], NEW K,
         NEW a, NEW b, NEW c, NEW d, NEW e, NEW f, NEW g, NEW h,
         InRow(a, b, c, d, e, f, g, h), NEW x, NEW u \in Seq(K),
         Loses(store, new, K, x, u), Others(store, new, K, {x}), u = <<>> \/ x = a
  PROVE  RowShorter(store, new, K, u, a, b, c, d, e, f, g, h)
<1> DEFINE O(z) == PartOf(store, K, z)
           N(z) == PartOf(new, K, z)
<1>1. \A z : O(z) \in Seq(K) /\ N(z) \in Seq(K)
  BY PartTyped
<1>2. O(x) = u \o N(x) /\ \A z : z # x => N(z) = O(z)
  BY DEF Loses, Others
<1>3. /\ ChainAt(new, K, a, b, c, d, e, f, g, h)
           = InLine(N(a), N(b), N(c), N(d), N(e), N(f), N(g), N(h))
      /\ ChainAt(store, K, a, b, c, d, e, f, g, h)
           = InLine(O(a), O(b), O(c), O(d), O(e), O(f), O(g), O(h))
  BY DEF ChainAt
<1>4. \A z : <<>> \o N(z) = N(z)
  BY <1>1, ConcatEmptySeq
<1> HIDE DEF O, N
<1>5. /\ O(a) = u \o N(a) /\ O(b) = N(b) /\ O(c) = N(c) /\ O(d) = N(d) /\ O(e) = N(e)
      /\ O(f) = N(f) /\ O(g) = N(g) /\ O(h) = N(h)
  <2>1. CASE x = a
    BY <1>2, <2>1 DEF InRow
  <2>2. CASE u = <<>>
    BY <1>2, <1>4, <2>2
  <2> QED BY <2>1, <2>2
<1>6. Ends(N(a), N(b), N(c), N(d), N(e), N(f), N(g), N(h), u)
  BY <1>1, InLineTyped
<1> QED BY <1>3, <1>5, <1>6 DEF Ends, RowShorter

LEMMA ChainEntered ==
  ASSUME NEW store \in [Places -> Seq(Ptrs)], NEW new \in [Places -> Seq(Ptrs)], NEW K,
         NEW a, NEW b, NEW c, NEW d, NEW e, NEW f, NEW g, NEW h,
         InRow(a, b, c, d, e, f, g, h), NEW x, NEW u \in Seq(K),
         Gains(store, new, K, x, u), Others(store, new, K, {x}), u = <<>> \/ x = h
  PROVE  RowLonger(store, new, K, u, a, b, c, d, e, f, g, h)
<1> DEFINE O(z) == PartOf(store, K, z)
           N(z) == PartOf(new, K, z)
<1>1. \A z : O(z) \in Seq(K) /\ N(z) \in Seq(K)
  BY PartTyped
<1>2. N(x) = O(x) \o u /\ \A z : z # x => N(z) = O(z)
  BY DEF Gains, Others
<1>3. /\ ChainAt(new, K, a, b, c, d, e, f, g, h)
           = InLine(N(a), N(b), N(c), N(d), N(e), N(f), N(g), N(h))
      /\ ChainAt(store, K, a, b, c, d, e, f, g, h)
           = InLine(O(a), O(b), O(c), O(d), O(e), O(f), O(g), O(h))
  BY DEF ChainAt
<1>4. \A z : O(z) \o <<>> = O(z)
  BY <1>1, ConcatEmptySeq
<1> HIDE DEF O, N
<1>5. /\ N(h) = O(h) \o u /\ O(a) = N(a) /\ O(b) = N(b) /\ O(c) = N(c) /\ O(d) = N(d)
      /\ O(e) = N(e) /\ O(f) = N(f) /\ O(g) = N(g)
  <2>1. CASE x = h
    BY <1>2, <2>1 DEF InRow
  <2>2. CASE u = <<>>
    BY <1>2, <1>4, <2>2
  <2> QED BY <2>1, <2>2
<1>6. Ends(O(a), O(b), O(c), O(d), O(e), O(f), O(g), O(h), u)
  BY <1>1, InLineTyped
<1> QED BY <1>3, <1>5, <1>6 DEF Ends, RowLonger

-----------------------------------------------------------------------------
(* What is pending is a chain of places.                                   *)

ChainOf(store, K, i, d) ==
  ChainAt(store, K, <<"response", i>>, <<"target_thread", d>>, <<"response", d>>, <<"second", d>>,
          <<"serving", d>>, <<"request", d>>, <<"initiator_thread", i>>, <<"request", i>>)
RowOf(i, d) ==
  InRow(<<"response", i>>, <<"target_thread", d>>, <<"response", d>>, <<"second", d>>,
        <<"serving", d>>, <<"request", d>>, <<"initiator_thread", i>>, <<"request", i>>)

LEMMA Row ==
  ASSUME NEW i \in Initiators, NEW d \in Destinations
  PROVE  RowOf(i, d)
<1>1. i # d
  BY NodeFacts
<1> QED BY <1>1 DEF RowOf, InRow

\* The same line as PendingOf puts it together.
Straight(a, b, c, d, e, f, g, h) == a \o (b \o c \o d \o e \o f) \o (g \o h)
Aligned(a, b, c, d, e, f, g, h) ==
  Straight(a, b, c, d, e, f, g, h) = InLine(a, b, c, d, e, f, g, h)

LEMMA Align ==
  ASSUME NEW S, NEW a \in Seq(S), NEW b \in Seq(S), NEW c \in Seq(S), NEW d \in Seq(S),
         NEW e \in Seq(S), NEW f \in Seq(S), NEW g \in Seq(S), NEW h \in Seq(S)
  PROVE  Aligned(a, b, c, d, e, f, g, h)
<1> DEFINE z == g \o h
           m2 == b \o c
           m3 == m2 \o d
           m4 == m3 \o e
           m5 == m4 \o f
           r6 == f \o z
           r5 == e \o r6
           r4 == d \o r5
           r3 == c \o r4
<1>1. m2 \in Seq(S) /\ z \in Seq(S)
  BY Following
<1> HIDE DEF z
<1>2. r6 \in Seq(S)
  BY <1>1, Following
<1> HIDE DEF r6
<1>3. r5 \in Seq(S)
  BY <1>2, Following
<1> HIDE DEF r5
<1>4. r4 \in Seq(S) /\ Follow(b, c, r4)
  BY <1>3, Following
<1> HIDE DEF r4, m2
<1>5. m3 \in Seq(S) /\ Follow(m2, d, r5)
  BY <1>1, <1>3, Following
<1> HIDE DEF m3
<1>6. m4 \in Seq(S) /\ Follow(m3, e, r6)
  BY <1>2, <1>5, Following
<1> HIDE DEF m4
<1>7. m5 \in Seq(S) /\ Follow(m4, f, z)
  BY <1>1, <1>6, Following
<1> HIDE DEF m5
<1>8. Follow(a, m5, z)
  BY <1>1, <1>7, Following
<1>9. m5 \o z = b \o r3
  <2>1. m5 \o z = m4 \o r6
    BY <1>7 DEF Follow, m5, r6
  <2>2. m4 \o r6 = m3 \o r5
    BY <1>6 DEF Follow, m4, r5
  <2>3. m3 \o r5 = m2 \o r4
    BY <1>5 DEF Follow, m3, r4
  <2>4. m2 \o r4 = b \o r3
    BY <1>4 DEF Follow, m2
  <2> QED BY <2>1, <2>2, <2>3, <2>4
<1>10. Straight(a, b, c, d, e, f, g, h) = a \o m5 \o z
  BY DEF Straight, m2, m3, m4, m5, z
<1>11. InLine(a, b, c, d, e, f, g, h) = a \o (b \o r3)
  BY DEF InLine, r3, r4, r5, r6, z
<1>12. a \o m5 \o z = a \o (m5 \o z)
  BY <1>8 DEF Follow
<1> QED BY <1>9, <1>10, <1>11, <1>12 DEF Aligned

Splits(s, t, K) == Only(s \o t, K) = Only(s, K) \o Only(t, K)
LEMMA Split ==
  ASSUME NEW S, NEW s \in Seq(S), NEW t \in Seq(S), NEW K
  PROVE  s \o t \in Seq(S) /\ Splits(s, t, K)
BY OnlyConcat, ConcatProperties DEF Splits

Selected(a, b, c, d, e, f, g, h, K) ==
  Only(Straight(a, b, c, d, e, f, g, h), K) =
    InLine(Only(a, K), Only(b, K), Only(c, K), Only(d, K), Only(e, K), Only(f, K), Only(g, K),
           Only(h, K))

LEMMA Select ==
  ASSUME NEW S, NEW a \in Seq(S), NEW b \in Seq(S), NEW c \in Seq(S), NEW d \in Seq(S),
         NEW e \in Seq(S), NEW f \in Seq(S), NEW g \in Seq(S), NEW h \in Seq(S), NEW K
  PROVE  Selected(a, b, c, d, e, f, g, h, K)
<1> DEFINE z == g \o h
           m2 == b \o c
           m3 == m2 \o d
           m4 == m3 \o e
           m5 == m4 \o f
           n == a \o m5
<1>1. m2 \in Seq(S) /\ Splits(b, c, K) /\ z \in Seq(S) /\ Splits(g, h, K)
  BY Split
<1> HIDE DEF z, m2
<1>2. m3 \in Seq(S) /\ Splits(m2, d, K)
  BY <1>1, Split
<1> HIDE DEF m3
<1>3. m4 \in Seq(S) /\ Splits(m3, e, K)
  BY <1>2, Split
<1> HIDE DEF m4
<1>4. m5 \in Seq(S) /\ Splits(m4, f, K)
  BY <1>3, Split
<1> HIDE DEF m5
<1>5. n \in Seq(S) /\ Splits(a, m5, K)
  BY <1>4, Split
<1> HIDE DEF n
<1>6. Splits(n, z, K)
  BY <1>1, <1>5, Split
<1>7. Only(m5, K) = Only(b, K) \o Only(c, K) \o Only(d, K) \o Only(e, K) \o Only(f, K)
  <2>1. Only(m2, K) = Only(b, K) \o Only(c, K)
    BY <1>1 DEF Splits, m2
  <2>2. Only(m3, K) = Only(m2, K) \o Only(d, K)
    BY <1>2 DEF Splits, m3
  <2>3. Only(m4, K) = Only(m3, K) \o Only(e, K)
    BY <1>3 DEF Splits, m4
  <2>4. Only(m5, K) = Only(m4, K) \o Only(f, K)
    BY <1>4 DEF Splits, m5
  <2> QED BY <2>1, <2>2, <2>3, <2>4
<1>8. Only(n, K) = Only(a, K) \o Only(m5, K)
  BY <1>5 DEF Splits, n
<1>9. Only(z, K) = Only(g, K) \o Only(h, K)
  BY <1>1 DEF Splits, z
<1>10. Only(n \o z, K) = Only(n, K) \o Only(z, K)
  BY <1>6 DEF Splits
<1>11. n \o z = Straight(a, b, c, d, e, f, g, h)
  BY DEF Straight, n, z, m2, m3, m4, m5
<1>12. Only(n \o z, K) = Straight(Only(a, K), Only(b, K), Only(c, K), Only(d, K), Only(e, K),
                               Only(f, K), Only(g, K), Only(h, K))
  BY <1>7, <1>8, <1>9, <1>10 DEF Straight
<1>13. /\ Only(a, K) \in Seq(K) /\ Only(b, K) \in Seq(K) /\ Only(c, K) \in Seq(K)
       /\ Only(d, K) \in Seq(K) /\ Only(e, K) \in Seq(K) /\ Only(f, K) \in Seq(K)
       /\ Only(g, K) \in Seq(K) /\ Only(h, K) \in Seq(K)
  BY OnlyTyped
<1>14. Aligned(Only(a, K), Only(b, K), Only(c, K), Only(d, K), Only(e, K), Only(f, K), Only(g, K),
               Only(h, K))
  BY <1>13, Align
<1> QED BY <1>11, <1>12, <1>14 DEF Selected, Aligned

LEMMA ChainIs ==
  ASSUME BusInv, NEW i \in Initiators, NEW d \in Destinations
  PROVE  /\ PendingOf(i, d) = ChainOf(Store, Between(i, d), i, d)
         /\ PendingOf(i, d) \in Seq(Between(i, d))
<1> DEFINE P == Between(i, d)
           a == response_fifo[i]
           g == Held(initiator_thread[i])
           h == request_fifo[i]
<1>1. Store \in [Places -> Seq(Ptrs)]
  BY DEF BusInv, InOrder, Orderly
<1>2. /\ i \in Nodes /\ i \notin Targets /\ d \in Targets \cup {NULL} /\ NULL \notin Nodes
  BY NodeFacts DEF Nodes
<1>3. /\ <<"response", i>> \in Places /\ <<"initiator_thread", i>> \in Places
      /\ <<"request", i>> \in Places
      /\ Store[<<"response", i>>] = a /\ Store[<<"initiator_thread", i>>] = g
      /\ Store[<<"request", i>>] = h
  BY <1>2, NamedPlaces, StoreNow
<1>4. a \in Seq(Ptrs) /\ g \in Seq(Ptrs) /\ h \in Seq(Ptrs)
  BY <1>1, <1>3
<1>5. /\ PartOf(Store, P, <<"response", i>>) = Only(a, P)
      /\ PartOf(Store, P, <<"initiator_thread", i>>) = Only(g, P)
      /\ PartOf(Store, P, <<"request", i>>) = Only(h, P)
  BY <1>3 DEF PartOf
<1> HIDE DEF P, a, g, h
<1>6. ASSUME d = NULL PROVE PendingOf(i, d) = ChainOf(Store, P, i, d)
  <2>1. \A k : <<k, d>> \notin Places
    BY <1>2, <1>6 DEF Places
  <2>2. <<>> \in Seq(Ptrs) /\ Only(<<>>, P) = <<>>
    BY OnlyEmpty
  <2>3. /\ PartOf(Store, P, <<"target_thread", d>>) = Only(<<>>, P)
        /\ PartOf(Store, P, <<"response", d>>) = Only(<<>>, P)
        /\ PartOf(Store, P, <<"second", d>>) = Only(<<>>, P)
        /\ PartOf(Store, P, <<"serving", d>>) = Only(<<>>, P)
        /\ PartOf(Store, P, <<"request", d>>) = Only(<<>>, P)
    BY <2>1, <2>2 DEF PartOf
  <2>4. Selected(a, <<>>, <<>>, <<>>, <<>>, <<>>, g, h, P)
    BY <1>4, <2>2, Select
  <2>5. PendingOf(i, d) = Only(Straight(a, <<>>, <<>>, <<>>, <<>>, <<>>, g, h), P)
    <3>1. <<>> \o <<>> \o <<>> \o <<>> \o <<>> = <<>>
      OBVIOUS
    <3>2. PendingOf(i, d) = Only(a \o <<>> \o (g \o h), P)
      BY <1>6 DEF PendingOf, AtInitiator, a, g, h, P
    <3> QED BY <3>1, <3>2 DEF Straight
  <2> QED BY <1>5, <2>3, <2>4, <2>5 DEF Selected, ChainOf, ChainAt
<1>7. ASSUME d # NULL PROVE PendingOf(i, d) = ChainOf(Store, P, i, d)
  <2> DEFINE b == Held(target_thread[d])
             c == response_fifo[d]
             m == IF d = Dms THEN Slot(request_in_flight2) ELSE <<>>
             e == Slot(serving[d])
             f == request_fifo[d]
  <2>1. d \in Nodes /\ d \in Targets
    BY <1>2, <1>7 DEF Nodes
  <2>2. /\ <<"target_thread", d>> \in Places /\ <<"response", d>> \in Places
        /\ <<"second", d>> \in Places /\ <<"serving", d>> \in Places /\ <<"request", d>> \in Places
        /\ Store[<<"target_thread", d>>] = b /\ Store[<<"response", d>>] = c
        /\ Store[<<"second", d>>] = m /\ Store[<<"serving", d>>] = e
        /\ Store[<<"request", d>>] = f
    BY <2>1, NamedPlaces, StoreNow
  <2>3. b \in Seq(Ptrs) /\ c \in Seq(Ptrs) /\ m \in Seq(Ptrs) /\ e \in Seq(Ptrs) /\ f \in Seq(Ptrs)
    BY <1>1, <2>2
  <2>4. /\ PartOf(Store, P, <<"target_thread", d>>) = Only(b, P)
        /\ PartOf(Store, P, <<"response", d>>) = Only(c, P)
        /\ PartOf(Store, P, <<"second", d>>) = Only(m, P)
        /\ PartOf(Store, P, <<"serving", d>>) = Only(e, P)
        /\ PartOf(Store, P, <<"request", d>>) = Only(f, P)
    BY <2>2 DEF PartOf
  <2>5. PendingOf(i, d) = Only(Straight(a, b, c, m, e, f, g, h), P)
    BY <1>7 DEF PendingOf, AtTarget, AtInitiator, Straight, a, g, h, P
  <2> HIDE DEF b, c, m, e, f
  <2>6. Selected(a, b, c, m, e, f, g, h, P)
    BY <1>4, <2>3, Select
  <2> QED BY <1>5, <2>4, <2>5, <2>6 DEF Selected, ChainOf, ChainAt
<1>8. ChainOf(Store, P, i, d) \in Seq(P)
  <2>1. \A c : PartOf(Store, P, c) \in Seq(P)
    BY <1>1, PartTyped
  <2>2. <<>> \in Seq(P)
    OBVIOUS
  <2> QED BY <2>1, <2>2, InLineTyped DEF ChainOf, ChainAt
<1>9. PendingOf(i, d) = ChainOf(Store, P, i, d)
  BY <1>6, <1>7 DEF P
<1> QED BY <1>8, <1>9 DEF P

Chains ==
  \A i \in Initiators, d \in Destinations :
    /\ PendingOf(i, d) = ChainOf(Store, Between(i, d), i, d)
    /\ PendingOf(i, d) \in Seq(Between(i, d))

LEMMA ChainNow == BusInv => Chains
BY ChainIs DEF Chains

LEMMA ChainNext == BusInv' => Chains'
BY ChainNow, PTL

\* Where a transaction at y goes next on its way from i to d and back: to x.
AheadOf(store, x, y, i, d) ==
  Follows(store, x, y, <<"response", i>>, <<"target_thread", d>>, <<"response", d>>,
          <<"second", d>>, <<"serving", d>>, <<"request", d>>, <<"initiator_thread", i>>,
          <<"request", i>>)

\* A transaction that moves ahead stays where it is in the chain.
LEMMA MovedChain ==
  ASSUME NEW store \in [Places -> Seq(Ptrs)], NEW K, NEW i \in Initiators, NEW d \in Destinations,
         NEW x \in Places, NEW y \in Places, x # y, store[y] # <<>>,
         Head(store[y]) \in K => AheadOf(store, x, y, i, d)
  PROVE  ChainOf(Moved(store, y, x), K, i, d) = ChainOf(store, K, i, d)
<1> DEFINE new == Moved(store, y, x)
           p == Head(store[y])
           u == PartAlone(p, K)
<1>1. /\ new \in [Places -> Seq(Ptrs)] /\ p \in Ptrs
      /\ Loses(store, new, K, y, u) /\ Gains(store, new, K, x, u) /\ Others(store, new, K, {y, x})
  BY PartsMoved
<1>2. u \in Seq(K) /\ (p \notin K => u = <<>>)
  BY <1>1, AloneIs
<1>3. u = <<>> \/ AheadOf(store, x, y, i, d)
  BY <1>2
<1>4. RowOf(i, d) /\ {y, x} = {x, y}
  BY Row
<1> HIDE DEF new, u, p
<1> DEFINE a == <<"response", i>>
           b == <<"target_thread", d>>
           c == <<"response", d>>
           m == <<"second", d>>
           e == <<"serving", d>>
           f == <<"request", d>>
           g == <<"initiator_thread", i>>
           h == <<"request", i>>
<1>5. u = <<>> \/ Follows(store, x, y, a, b, c, m, e, f, g, h)
  BY <1>3 DEF AheadOf
<1>6. InRow(a, b, c, m, e, f, g, h)
  BY <1>4 DEF RowOf
<1>7. /\ ChainOf(new, K, i, d) = ChainAt(new, K, a, b, c, m, e, f, g, h)
      /\ ChainOf(store, K, i, d) = ChainAt(store, K, a, b, c, m, e, f, g, h)
  BY DEF ChainOf
<1> HIDE DEF a, b, c, m, e, f, g, h
<1>8. RowKept(store, new, K, a, b, c, m, e, f, g, h)
  BY <1>1, <1>2, <1>4, <1>5, <1>6, ChainMoves
<1>9. ChainOf(new, K, i, d) = ChainOf(store, K, i, d)
  BY <1>7, <1>8 DEF RowKept
<1> QED BY <1>9 DEF new

\* The chain depends only on which of the live transactions it is made of.
LEMMA SameChain ==
  ASSUME NEW store, NEW live, NEW belongs, Orderly(store, live, belongs),
         NEW K, NEW L, \A q \in live : q \in K <=> q \in L, NEW i, NEW d
  PROVE  ChainOf(store, K, i, d) = ChainOf(store, L, i, d)
<1>1. ASSUME NEW c PROVE PartOf(store, K, c) = PartOf(store, L, c)
  <2>1. CASE c \in Places
    <3>1. store[c] \in Seq(Ptrs) /\ \A q \in ToSet(store[c]) : q \in K <=> q \in L
      BY <2>1 DEF Orderly
    <3>2. Only(store[c], K) = Only(store[c], L)
      BY <3>1, OnlySame
    <3> QED BY <3>2 DEF PartOf
  <2>2. CASE c \notin Places
    BY <2>2 DEF PartOf
  <2> QED BY <2>1, <2>2
<1> QED BY <1>1 DEF ChainOf, ChainAt

ChainLonger(store, K, L, i, d, j, p) ==
  ChainOf(Entered(store, <<"request", j>>, p), L, i, d) = ChainOf(store, K, i, d) \o PartAlone(p, L)
ChainShorter(store, K, L, i, d, j, p) ==
  ChainOf(store, K, i, d) = PartAlone(p, K) \o ChainOf(Left(store, <<"response", j>>), L, i, d)

LEMMA EnteredChain ==
  ASSUME NEW store, NEW live, NEW belongs, Orderly(store, live, belongs),
         NEW j \in Initiators, NEW p \in Ptrs,
         NEW K, NEW L, \A q \in live : q \in K <=> q \in L,
         NEW i \in Initiators, NEW d \in Destinations, p \in L => i = j
  PROVE  ChainLonger(store, K, L, i, d, j, p)
<1> DEFINE x == <<"request", j>>
           new == Entered(store, x, p)
           u == PartAlone(p, L)
<1>1. x \in Places /\ store \in [Places -> Seq(Ptrs)]
  BY NamedPlaces DEF Nodes, Orderly
<1>2. /\ new \in [Places -> Seq(Ptrs)] /\ Gains(store, new, L, x, u) /\ Others(store, new, L, {x})
  <2> HIDE DEF x
  <2> QED BY <1>1, PartsEntered
<1>3. u \in Seq(L) /\ (p \notin L => u = <<>>)
  BY AloneIs
<1>4. RowOf(i, d) /\ ChainOf(store, L, i, d) = ChainOf(store, K, i, d)
  BY Row, SameChain
<1> DEFINE a == <<"response", i>>
           b == <<"target_thread", d>>
           c == <<"response", d>>
           m == <<"second", d>>
           e == <<"serving", d>>
           f == <<"request", d>>
           g == <<"initiator_thread", i>>
           h == <<"request", i>>
<1>5. u = <<>> \/ x = h
  BY <1>3
<1>6. InRow(a, b, c, m, e, f, g, h)
  BY <1>4 DEF RowOf
<1>7. /\ ChainOf(new, L, i, d) = ChainAt(new, L, a, b, c, m, e, f, g, h)
      /\ ChainOf(store, L, i, d) = ChainAt(store, L, a, b, c, m, e, f, g, h)
  BY DEF ChainOf
<1> HIDE DEF a, b, c, m, e, f, g, h, x, new, u
<1>8. RowLonger(store, new, L, u, a, b, c, m, e, f, g, h)
  BY <1>1, <1>2, <1>3, <1>5, <1>6, ChainEntered
<1>9. ChainOf(new, L, i, d) = ChainOf(store, K, i, d) \o u
  BY <1>4, <1>7, <1>8 DEF RowLonger
<1> QED BY <1>9 DEF new, u, x, ChainLonger

LEMMA LeftChain ==
  ASSUME NEW store, NEW live, NEW belongs, Orderly(store, live, belongs),
         NEW j \in Initiators, store[<<"response", j>>] # <<>>,
         NEW p, p = Head(store[<<"response", j>>]),
         NEW K, NEW L, \A q \in live \ {p} : q \in K <=> q \in L,
         NEW i \in Initiators, NEW d \in Destinations, p \in K => i = j
  PROVE  ChainShorter(store, K, L, i, d, j, p)
<1> DEFINE x == <<"response", j>>
           new == Left(store, x)
           u == PartAlone(p, K)
<1>1. x \in Places /\ store \in [Places -> Seq(Ptrs)] /\ store[x] # <<>> /\ p = Head(store[x])
  BY NamedPlaces DEF Nodes, Orderly
<1>2. /\ new \in [Places -> Seq(Ptrs)] /\ p \in Ptrs
      /\ Loses(store, new, K, x, u) /\ Others(store, new, K, {x})
      /\ Orderly(new, live \ {p}, belongs)
  <2> HIDE DEF x
  <2> QED BY <1>1, PartsLeft, LeaveKeeps
<1>3. u \in Seq(K) /\ (p \notin K => u = <<>>)
  BY <1>2, AloneIs
<1>4. RowOf(i, d) /\ ChainOf(new, K, i, d) = ChainOf(new, L, i, d)
  <2> HIDE DEF new
  <2> QED BY <1>2, Row, SameChain
<1> DEFINE a == <<"response", i>>
           b == <<"target_thread", d>>
           c == <<"response", d>>
           m == <<"second", d>>
           e == <<"serving", d>>
           f == <<"request", d>>
           g == <<"initiator_thread", i>>
           h == <<"request", i>>
<1>5. u = <<>> \/ x = a
  BY <1>3
<1>6. InRow(a, b, c, m, e, f, g, h)
  BY <1>4 DEF RowOf
<1>7. /\ ChainOf(new, K, i, d) = ChainAt(new, K, a, b, c, m, e, f, g, h)
      /\ ChainOf(store, K, i, d) = ChainAt(store, K, a, b, c, m, e, f, g, h)
  BY DEF ChainOf
<1> HIDE DEF a, b, c, m, e, f, g, h, x, new, u
<1>8. RowShorter(store, new, K, u, a, b, c, m, e, f, g, h)
  BY <1>1, <1>2, <1>3, <1>5, <1>6, ChainLeft
<1>9. ChainOf(store, K, i, d) = u \o ChainOf(new, L, i, d)
  BY <1>4, <1>7, <1>8 DEF RowShorter
<1> QED BY <1>9 DEF new, u, x, ChainShorter

\* What a target shifts on among its own places keeps every chain, if the two
\* places follow one another.
LEMMA ShiftedChain ==
  ASSUME NEW store, NEW live, NEW belongs, Orderly(store, live, belongs),
         NEW t \in Targets, NEW x \in Places, NEW y \in Places, x # y, y[2] = t, x[2] = t,
         NEW K, NEW i \in Initiators, NEW d \in Destinations,
         K \cap belongs[t] # {} => d = t, AheadOf(store, x, y, i, t)
  PROVE  /\ ChainOf(Shifted(store, y, x), K, i, d) = ChainOf(store, K, i, d)
         /\ Orderly(Shifted(store, y, x), live, belongs)
<1>1. Orderly(Shifted(store, y, x), live, belongs)
  BY ShiftKeeps
<1>2. CASE store[y] = <<>>
  BY <1>1, <1>2 DEF Shifted
<1>3. CASE store[y] # <<>>
  <2>0. Head(store[y]) \in belongs[y[2]]
    BY <1>3, LeaveKeeps
  <2>1. Head(store[y]) \in belongs[t] /\ store \in [Places -> Seq(Ptrs)]
    BY <2>0 DEF Orderly
  <2>2. Head(store[y]) \in K => AheadOf(store, x, y, i, d)
    BY <2>1
  <2>3. ChainOf(Moved(store, y, x), K, i, d) = ChainOf(store, K, i, d)
    BY <1>3, <2>1, <2>2, MovedChain
  <2> QED BY <1>1, <1>3, <2>3 DEF Shifted
<1> QED BY <1>2, <1>3

-----------------------------------------------------------------------------
(* What each step does to what is pending.                                 *)

\* The places follow one another.
LEMMA Ahead ==
  ASSUME NEW store, NEW i, NEW d
  PROVE  /\ AheadOf(store, <<"response", i>>, <<"target_thread", d>>, i, d)
         /\ AheadOf(store, <<"target_thread", d>>, <<"response", d>>, i, d)
         /\ AheadOf(store, <<"response", d>>, <<"second", d>>, i, d)
         /\ AheadOf(store, <<"second", d>>, <<"serving", d>>, i, d)
         /\ AheadOf(store, <<"serving", d>>, <<"request", d>>, i, d)
         /\ AheadOf(store, <<"request", d>>, <<"initiator_thread", i>>, i, d)
         /\ AheadOf(store, <<"initiator_thread", i>>, <<"request", i>>, i, d)
         /\ <<"second", d>> \in Places /\ store[<<"second", d>>] = <<>> =>
              AheadOf(store, <<"response", d>>, <<"serving", d>>, i, d)
BY DEF AheadOf, Follows

Quiet ==
  \A i \in Initiators, d \in Destinations : PendingOf(i, d)' = PendingOf(i, d)

\* Nothing is pending any more or any less when a transaction moves ahead.
LEMMA MovesQuietly ==
  ASSUME BusInv, BusInv', NEW x, NEW y, Moves(y, x),
         \A i \in Initiators, d \in Destinations :
           Head(Store[y]) \in Between(i, d) => AheadOf(Store, x, y, i, d)
  PROVE  Quiet
<1> SUFFICES ASSUME NEW i \in Initiators, NEW d \in Destinations
             PROVE  PendingOf(i, d)' = PendingOf(i, d)
  BY DEF Quiet
<1> DEFINE K == Between(i, d)
<1>1. K' = K
  BY DEF Moves, Between
<1>2. PendingOf(i, d) = ChainOf(Store, K, i, d)
  BY ChainNow DEF Chains
<1>3. PendingOf(i, d)' = ChainOf(Store', K', i, d)
  BY ChainNext DEF Chains
<1>4. Store \in [Places -> Seq(Ptrs)] /\ (Head(Store[y]) \in K => AheadOf(Store, x, y, i, d))
  BY DEF BusInv, InOrder, Orderly
<1> HIDE DEF K
<1>5. ChainOf(Moved(Store, y, x), K, i, d) = ChainOf(Store, K, i, d)
  BY <1>4, MovedChain DEF Moves
<1> QED BY <1>1, <1>2, <1>3, <1>5 DEF Moves

\* What belongs to a node is pending from it or to it.
LEMMA Owned ==
  ASSUME NEW p, NEW i \in Initiators, NEW d \in Destinations, p \in Between(i, d),
         NEW x \in Nodes, p \in BelongsTo(txn, requester_map)[x]
  PROVE  (x \in Initiators => i = x) /\ (x \in Targets => d = x)
BY DEF Between, BelongsTo

LEMMA ThreadsQuiet ==
  ASSUME BusInv, BusInv', ThreadNext
  PROVE  Quiet
<1>0. ASSUME NEW c \in Places, Store[c] # <<>>
      PROVE  Head(Store[c]) \in BelongsTo(txn, requester_map)[c[2]]
  BY <1>0, HeadBelongs DEF BusInv
<1>1. ASSUME NEW i \in Initiators, InitiatorFetch(i) PROVE Quiet
  <2> DEFINE y == <<"request", i>>
             x == <<"initiator_thread", i>>
  <2>1. Moves(y, x) /\ i \in Nodes /\ y[2] = i
    BY <1>1, FetchKeeps DEF Nodes
  <2>2. ASSUME NEW j \in Initiators, NEW d \in Destinations, Head(Store[y]) \in Between(j, d)
        PROVE  AheadOf(Store, x, y, j, d)
    <3>1. Head(Store[y]) \in BelongsTo(txn, requester_map)[i]
      BY <1>0, <2>1 DEF Moves
    <3>2. j = i
      BY <2>1, <2>2, <3>1, Owned
    <3> QED BY <3>2, Ahead
  <2> HIDE DEF x, y
  <2> QED BY <2>1, <2>2, MovesQuietly
<1>2. ASSUME NEW i \in Initiators, InitiatorDeliver(i) PROVE Quiet
  <2> DEFINE t == initiator_thread[i].to
             y == <<"initiator_thread", i>>
             x == <<"request", t>>
  <2>1. /\ Moves(y, x) /\ i \in Nodes /\ y[2] = i /\ x[2] = t
        /\ t \in Targets /\ t \in Nodes
    BY <1>2, DeliverKeeps DEF Nodes
  <2> HIDE DEF t
  <2>2. ASSUME NEW j \in Initiators, NEW d \in Destinations, Head(Store[y]) \in Between(j, d)
        PROVE  AheadOf(Store, x, y, j, d)
    <3>1. /\ Head(Store[y]) \in BelongsTo(txn, requester_map)[i]
          /\ Head(Store[y]) \in BelongsTo(txn, requester_map)[t]
      BY <1>0, <2>1 DEF Moves
    <3>2. j = i /\ d = t
      BY <2>1, <2>2, <3>1, Owned
    <3> QED BY <3>2, Ahead
  <2> HIDE DEF x, y
  <2> QED BY <2>1, <2>2, MovesQuietly
<1>3. ASSUME NEW t \in ThreadTargets, ThreadTargetServe(t) PROVE Quiet
  <2> DEFINE y == <<"request", t>>
             x == <<"serving", t>>
  <2>1. Moves(y, x) /\ t \in Nodes /\ t \in Targets /\ y[2] = t
    BY <1>3, ServeKeeps, NodeFacts DEF Nodes
  <2>2. ASSUME NEW j \in Initiators, NEW d \in Destinations, Head(Store[y]) \in Between(j, d)
        PROVE  AheadOf(Store, x, y, j, d)
    <3>1. Head(Store[y]) \in BelongsTo(txn, requester_map)[t]
      BY <1>0, <2>1 DEF Moves
    <3>2. d = t
      BY <2>1, <2>2, <3>1, Owned
    <3> QED BY <3>2, Ahead
  <2> HIDE DEF x, y
  <2> QED BY <2>1, <2>2, MovesQuietly
<1>4. ASSUME NEW t \in ThreadTargets, ThreadTargetAnswer(t) PROVE Quiet
  <2> DEFINE y == <<"serving", t>>
             x == <<"response", t>>
  <2>1. Moves(y, x) /\ t \in Nodes /\ t \in Targets /\ y[2] = t
    BY <1>4, AnswerKeeps, NodeFacts DEF Nodes
  <2>2. <<"second", t>> \in Places /\ Store[<<"second", t>>] = <<>>
    BY <2>1, NodeFacts, NamedPlaces, StoreNow
  <2>3. ASSUME NEW j \in Initiators, NEW d \in Destinations, Head(Store[y]) \in Between(j, d)
        PROVE  AheadOf(Store, x, y, j, d)
    <3>1. Head(Store[y]) \in BelongsTo(txn, requester_map)[t]
      BY <1>0, <2>1 DEF Moves
    <3>2. d = t
      BY <2>1, <2>3, <3>1, Owned
    <3> QED BY <2>2, <3>2, Ahead
  <2> HIDE DEF x, y
  <2> QED BY <2>1, <2>3, MovesQuietly
<1>5. ASSUME NEW t \in Targets, TargetTake(t) PROVE Quiet
  <2> DEFINE y == <<"response", t>>
             x == <<"target_thread", t>>
  <2>1. Moves(y, x) /\ t \in Nodes /\ t \in Targets /\ y[2] = t
    BY <1>5, TakeKeeps DEF Nodes
  <2>2. ASSUME NEW j \in Initiators, NEW d \in Destinations, Head(Store[y]) \in Between(j, d)
        PROVE  AheadOf(Store, x, y, j, d)
    <3>1. Head(Store[y]) \in BelongsTo(txn, requester_map)[t]
      BY <1>0, <2>1 DEF Moves
    <3>2. d = t
      BY <2>1, <2>2, <3>1, Owned
    <3> QED BY <3>2, Ahead
  <2> HIDE DEF x, y
  <2> QED BY <2>1, <2>2, MovesQuietly
<1>6. ASSUME NEW t \in Targets, TargetReturn(t) PROVE Quiet
  <2> DEFINE i == target_thread[t].to
             y == <<"target_thread", t>>
             x == <<"response", i>>
  <2>1. /\ Moves(y, x) /\ t \in Nodes /\ y[2] = t /\ x[2] = i
        /\ i \in Initiators /\ i \in Nodes
    BY <1>6, ReturnKeeps DEF Nodes
  <2> HIDE DEF i
  <2>2. ASSUME NEW j \in Initiators, NEW d \in Destinations, Head(Store[y]) \in Between(j, d)
        PROVE  AheadOf(Store, x, y, j, d)
    <3>1. /\ Head(Store[y]) \in BelongsTo(txn, requester_map)[t]
          /\ Head(Store[y]) \in BelongsTo(txn, requester_map)[i]
      BY <1>0, <2>1 DEF Moves
    <3>2. j = i /\ d = t
      BY <2>1, <2>2, <3>1, Owned
    <3> QED BY <3>2, Ahead
  <2> HIDE DEF x, y
  <2> QED BY <2>1, <2>2, MovesQuietly
<1> QED BY <1>1, <1>2, <1>3, <1>4, <1>5, <1>6 DEF ThreadNext

LEMMA UartQuiet ==
  ASSUME BusInv, BusInv', NEW ack \in BOOLEAN, UartClock(ack)
  PROVE  Quiet
<1> SUFFICES ASSUME NEW i \in Initiators, NEW d \in Destinations
             PROVE  PendingOf(i, d)' = PendingOf(i, d)
  BY DEF Quiet
<1> DEFINE K == Between(i, d)
           B == BelongsTo(txn, requester_map)
           S1 == AnsweredAt(Store)
           a == <<"response", Uart>>
           b == <<"serving", Uart>>
           c == <<"request", Uart>>
<1>1. Store' = AcceptedAt(S1) /\ txn' = txn
  BY UartKeeps
<1>2. /\ Uart \in Targets /\ Uart \in Nodes /\ a \in Places /\ b \in Places /\ c \in Places
      /\ a # b /\ b # c /\ a[2] = Uart /\ b[2] = Uart /\ c[2] = Uart
      /\ <<"second", Uart>> \in Places /\ Store[<<"second", Uart>>] = <<>>
  BY NodeFacts, NamedPlaces, StoreNow DEF Nodes
<1>3. AheadOf(Store, a, b, i, Uart) /\ AheadOf(S1, b, c, i, Uart)
  BY <1>2, Ahead
<1>4. K \cap B[Uart] # {} => d = Uart
  BY <1>2, Owned
<1>5. Orderly(Store, Live(txn), B)
  BY DEF BusInv, InOrder
<1>6. PendingOf(i, d) = ChainOf(Store, K, i, d)
  BY ChainNow DEF Chains
<1>7. PendingOf(i, d)' = ChainOf(Store', K', i, d)
  BY ChainNext DEF Chains
<1>8. K' = K
  BY <1>1 DEF Between
<1>9. S1 = (IF UartAnswered THEN Shifted(Store, b, a) ELSE Store)
      /\ AcceptedAt(S1) = IF UartAccepts THEN Shifted(S1, c, b) ELSE S1
  BY DEF AnsweredAt, AcceptedAt
<1> HIDE DEF K, B, S1, a, b, c
<1>10. ChainOf(S1, K, i, d) = ChainOf(Store, K, i, d) /\ Orderly(S1, Live(txn), B)
  BY <1>2, <1>3, <1>4, <1>5, <1>9, ShiftedChain
<1>11. ChainOf(AcceptedAt(S1), K, i, d) = ChainOf(S1, K, i, d)
  BY <1>2, <1>3, <1>4, <1>9, <1>10, ShiftedChain
<1> QED BY <1>1, <1>6, <1>7, <1>8, <1>10, <1>11

LEMMA PipelineChain ==
  ASSUME NEW store, NEW live, NEW belongs, Orderly(store, live, belongs),
         NEW K, NEW i \in Initiators, NEW d \in Destinations, K \cap belongs[Dms] # {} => d = Dms
  PROVE  ChainOf(PipelineShifted(store), K, i, d) = ChainOf(store, K, i, d)
<1> DEFINE w == <<"response", Dms>>
           a == <<"second", Dms>>
           b == <<"serving", Dms>>
           c == <<"request", Dms>>
           S1 == Shifted(store, a, w)
           S2 == Shifted(S1, b, a)
<1>1. /\ Dms \in Targets /\ w \in Places /\ a \in Places /\ b \in Places /\ c \in Places
      /\ w # a /\ a # b /\ b # c /\ w[2] = Dms /\ a[2] = Dms /\ b[2] = Dms /\ c[2] = Dms
  BY NodeFacts, NamedPlaces DEF Nodes
<1>2. AheadOf(store, w, a, i, Dms) /\ AheadOf(S1, a, b, i, Dms) /\ AheadOf(S2, b, c, i, Dms)
  BY Ahead
<1>3. PipelineShifted(store) = Shifted(S2, c, b)
  BY DEF PipelineShifted
<1> HIDE DEF w, a, b, c
<1>4. ChainOf(S1, K, i, d) = ChainOf(store, K, i, d) /\ Orderly(S1, live, belongs)
  BY <1>1, <1>2, ShiftedChain
<1> HIDE DEF S1
<1>5. ChainOf(S2, K, i, d) = ChainOf(S1, K, i, d) /\ Orderly(S2, live, belongs)
  BY <1>1, <1>2, <1>4, ShiftedChain
<1> HIDE DEF S2
<1>6. ChainOf(Shifted(S2, c, b), K, i, d) = ChainOf(S2, K, i, d)
  BY <1>1, <1>2, <1>5, ShiftedChain
<1> QED BY <1>3, <1>4, <1>5, <1>6

\* Initiator j is answered by a with h, or issues p to b, or both, or neither:
\* the answer is taken from the front, the new transaction put at the end.
Bit(present, p) == IF present THEN <<p>> ELSE <<>>
Became(i, d, u, v) == \E X \in Seq(Ptrs) : PendingOf(i, d) = u \o X /\ PendingOf(i, d)' = X \o v
Changes(j, a, h, b, p) ==
  \A i \in Initiators, d \in Destinations :
    Became(i, d, Bit(h # NULL /\ i = j /\ d = a, h), Bit(p # NULL /\ i = j /\ d = b, p))

LEMMA BetweenPtrs ==
  ASSUME NEW i, NEW d
  PROVE  Seq(Between(i, d)) \subseteq Seq(Ptrs)
BY DEF Between

LEMMA AloneIsBit ==
  ASSUME NEW p \in Ptrs, NEW K, NEW present \in BOOLEAN, p \in K <=> present
  PROVE  PartAlone(p, K) = Bit(present, p)
BY AloneIs DEF Bit

LEMMA BitFacts ==
  ASSUME NEW X \in Seq(Ptrs), NEW p, NEW present, ~present
  PROVE  Bit(present, p) \o X = X /\ X \o Bit(present, p) = X
BY ConcatEmptySeq DEF Bit

LEMMA IssueChanges ==
  ASSUME BusInv, BusInv', CoreClock, NEW p \in Ptrs, CoreIssue(p)
  PROVE  Changes(Core, NULL, NULL, core_bus, p)
<1> SUFFICES ASSUME NEW i \in Initiators, NEW d \in Destinations
             PROVE  Became(i, d, Bit(NULL # NULL /\ i = Core /\ d = NULL, NULL),
                           Bit(p # NULL /\ i = Core /\ d = core_bus, p))
  BY DEF Changes
<1> DEFINE K == Between(i, d)
           L == K'
           here == p # NULL /\ i = Core /\ d = core_bus
<1>1. /\ p \notin Live(txn) /\ Store' = Entered(Store, <<"request", Core>>, p)
      /\ \A q \in Ptrs : txn'[q] =
           IF q = p THEN [owner |-> Core, target |-> core_bus, access |-> core_access] ELSE txn[q]
  BY IssueKeeps
<1>2. \A q \in Live(txn) : q \in K <=> q \in L
  BY <1>1 DEF Live, Between
<1>3. (p \in L <=> here) /\ here \in BOOLEAN
  <2>1. txn'[p] = [owner |-> Core, target |-> core_bus, access |-> core_access]
    BY <1>1
  <2>2. txn'[p] # NULL /\ p # NULL
    <3>1. [owner |-> Core, target |-> core_bus, access |-> core_access] \in Payload
      BY NodeFacts DEF BusInv, TypeOK, CoreIssue, CoreIssues, Payload
    <3> QED BY <2>1, <3>1, NodeFacts
  <2> QED BY <2>1, <2>2 DEF Between
<1>4. Orderly(Store, Live(txn), BelongsTo(txn, requester_map)) /\ Core \in Initiators
  BY NodeFacts DEF BusInv, InOrder
<1>5. PendingOf(i, d) = ChainOf(Store, K, i, d) /\ PendingOf(i, d) \in Seq(Ptrs)
  BY ChainNow, BetweenPtrs DEF Chains
<1>6. PendingOf(i, d)' = ChainOf(Store', L, i, d)
  BY ChainNext DEF Chains
<1> HIDE DEF K, L
<1>7. ChainLonger(Store, K, L, i, d, Core, p)
  BY <1>2, <1>3, <1>4, EnteredChain
<1>8. PartAlone(p, L) = Bit(here, p)
  <2> HIDE DEF here
  <2> QED BY <1>3, AloneIsBit
<1>9. Bit(NULL # NULL /\ i = Core /\ d = NULL, NULL) \o PendingOf(i, d) = PendingOf(i, d)
  BY <1>5, BitFacts
<1> QED BY <1>1, <1>5, <1>6, <1>7, <1>8, <1>9 DEF Became, ChainLonger

LEMMA ReceiveChanges ==
  ASSUME BusInv, BusInv', CoreClock, CoreReceive
  PROVE  \E p \in Ptrs : /\ p \in Live(txn) /\ txn[p].target \in Destinations
                         /\ Changes(Core, txn[p].target, p, NULL, NULL)
<1> DEFINE c == <<"response", Core>>
           p == Head(Store[c])
<1>1. /\ Store[c] # <<>> /\ Store' = Left(Store, c) /\ p \in Live(txn) /\ txn[p].owner = Core
      /\ \A q \in Ptrs : txn'[q] = IF q = p THEN NULL ELSE txn[q]
  BY ReceiveKeeps
<1>2. p \in Ptrs /\ txn[p] # NULL /\ p # NULL
  BY <1>1, NodeFacts DEF Live
<1> HIDE DEF p
<1>3. txn[p].target \in Destinations
  BY <1>2, TargetOfTyped DEF BusInv
<1>4. ASSUME NEW i \in Initiators, NEW d \in Destinations
      PROVE  Became(i, d, Bit(p # NULL /\ i = Core /\ d = txn[p].target, p),
                    Bit(NULL # NULL /\ i = Core /\ d = NULL, NULL))
  <2> DEFINE K == Between(i, d)
             L == K'
             here == p # NULL /\ i = Core /\ d = txn[p].target
  <2>1. \A q \in Live(txn) \ {p} : q \in K <=> q \in L
    BY <1>1 DEF Live, Between
  <2>2. (p \in K <=> here) /\ here \in BOOLEAN
    BY <1>1, <1>2 DEF Between
  <2>3. Orderly(Store, Live(txn), BelongsTo(txn, requester_map)) /\ Core \in Initiators
    BY NodeFacts DEF BusInv, InOrder
  <2>4. PendingOf(i, d) = ChainOf(Store, K, i, d)
    BY ChainNow DEF Chains
  <2>5. PendingOf(i, d)' = ChainOf(Store', L, i, d) /\ PendingOf(i, d)' \in Seq(Ptrs)
    <3>1. L \subseteq Ptrs
      BY DEF Between
    <3>2. PendingOf(i, d)' = ChainOf(Store', L, i, d) /\ PendingOf(i, d)' \in Seq(L)
      BY ChainNext DEF Chains
    <3> HIDE DEF L
    <3>3. Seq(L) \subseteq Seq(Ptrs)
      BY <3>1
    <3> QED BY <3>2, <3>3
  <2> HIDE DEF K, L
  <2>6. ChainShorter(Store, K, L, i, d, Core, p)
    BY <1>1, <2>1, <2>2, <2>3, LeftChain DEF p, c
  <2>7. PartAlone(p, K) = Bit(here, p)
    <3> HIDE DEF here
    <3> QED BY <1>2, <2>2, AloneIsBit
  <2>8. PendingOf(i, d)' \o Bit(NULL # NULL /\ i = Core /\ d = NULL, NULL) = PendingOf(i, d)'
    BY <2>5, BitFacts
  <2> QED BY <1>1, <2>4, <2>5, <2>6, <2>7, <2>8 DEF Became, ChainShorter, c
<1> QED BY <1>1, <1>2, <1>3, <1>4 DEF Changes

LEMMA DebuggerChanges ==
  ASSUME BusInv, BusInv', NEW p \in Ptrs \cup {NULL}, DebuggerClock(p)
  PROVE  \E h \in Ptrs \cup {NULL} : \E a :
           /\ h # NULL => a \in Destinations
           /\ Changes(Debugger, a, h, dmm_bus, p)
<1> DEFINE c == <<"response", Debugger>>
           x == <<"request", Debugger>>
           h == First(response_fifo[Debugger])
           a == txn[h].target
           S1 == FreedAt(Store)
           S2 == StrobedAt(S1, p)
           load == [owner |-> Debugger, target |-> dmm_bus, access |-> 0]
           A == BelongsTo(txn, requester_map)
<1>1. /\ Store' = PipelineShifted(S2)
      /\ h # NULL => h \in Live(txn) /\ txn[h].owner = Debugger
      /\ p # NULL => p \in Ptrs /\ p \notin Live(txn) /\ dmm_bus \in Destinations
      /\ Orderly(S2, Live(txn'), BelongsTo(txn', requester_map'))
      /\ \A q \in Ptrs : txn'[q] = IF q = h THEN NULL ELSE IF q = p THEN load ELSE txn[q]
  BY DebuggerKeeps
<1>2. /\ Debugger \in Initiators /\ Debugger \in Nodes /\ Dms \in Targets /\ Dms \in Nodes
      /\ c \in Places /\ Store[c] = response_fifo[Debugger]
  BY NodeFacts, NamedPlaces, StoreNow DEF Nodes
<1>3. Orderly(Store, Live(txn), A)
  BY DEF BusInv, InOrder
<1>4. /\ Orderly(S1, Live(txn) \ {h}, A) /\ h \in Ptrs \cup {NULL}
      /\ S1 = IF h = NULL THEN Store ELSE Left(Store, c)
      /\ h # NULL => Store[c] # <<>> /\ h = Head(Store[c])
  <2>1. Orderly(S1, Live(txn) \ {First(Store[c])}, A)
    BY <1>3, FreedKeeps
  <2>2. Store[c] \in Seq(Ptrs) /\ S1 = (IF Store[c] = <<>> THEN Store ELSE Left(Store, c))
    BY <1>2, <1>3 DEF Orderly, FreedAt
  <2>3. h = IF Store[c] = <<>> THEN NULL ELSE Head(Store[c])
    BY <1>2 DEF First
  <2>4. h \in Ptrs \cup {NULL} /\ (Store[c] # <<>> => h # NULL)
    <3>1. Store[c] # <<>> => Head(Store[c]) \in Ptrs
      BY <2>2, HeadTailProperties
    <3> QED BY <2>3, <3>1, NodeFacts
  <2> HIDE DEF S1, h, c
  <2>5. Orderly(S1, Live(txn) \ {h}, A)
    BY <1>2, <2>1 DEF h
  <2> QED BY <2>2, <2>3, <2>4, <2>5
<1>5. S2 = IF p = NULL THEN S1 ELSE Entered(S1, x, p)
  BY DEF StrobedAt
<1>6. h # NULL => a \in Destinations
  BY <1>4, <1>1, TargetOfTyped DEF BusInv, Live
<1>7. p # NULL => load # NULL /\ p # h
  <2> SUFFICES ASSUME p # NULL PROVE load # NULL /\ p # h
    OBVIOUS
  <2>1. load \in Payload
    BY <1>1, <1>2 DEF Payload
  <2> QED BY <1>1, <2>1, NodeFacts
<1> HIDE DEF S1, S2, h
<1>8. ASSUME NEW i \in Initiators, NEW d \in Destinations
      PROVE  Became(i, d, Bit(h # NULL /\ i = Debugger /\ d = a, h),
                    Bit(p # NULL /\ i = Debugger /\ d = dmm_bus, p))
  <2> DEFINE K == Between(i, d)
             L == K'
             M == K \ {h}
             X == ChainOf(S1, M, i, d)
             out == h # NULL /\ i = Debugger /\ d = a
             in == p # NULL /\ i = Debugger /\ d = dmm_bus
  <2>1. \A q \in Live(txn) \ {h} : (q \in K <=> q \in M) /\ (q \in M <=> q \in L)
    <3>1. ASSUME NEW q \in Live(txn), q # h PROVE q \in Ptrs /\ txn'[q] = txn[q]
      <4>1. q \in Ptrs /\ q # p
        BY <1>1, NodeFacts DEF Live
      <4> HIDE DEF load
      <4> QED BY <1>1, <3>1, <4>1
    <3> QED BY <3>1 DEF Between
  <2>2. /\ (h # NULL => (h \in K <=> out)) /\ (p # NULL => (p \in L <=> in))
        /\ out \in BOOLEAN /\ in \in BOOLEAN
    <3>1. h # NULL => (h \in K <=> out)
      BY <1>1, <1>4 DEF Live, Between
    <3>2. p # NULL => (p \in L <=> in)
      BY <1>1, <1>7 DEF Between
    <3> QED BY <3>1, <3>2
  <2>3. PendingOf(i, d) = ChainOf(Store, K, i, d) /\ K \subseteq Ptrs
    BY ChainNow DEF Chains, Between
  <2>4. PendingOf(i, d)' = ChainOf(Store', L, i, d)
    BY ChainNext DEF Chains
  <2>5. L \cap BelongsTo(txn', requester_map')[Dms] # {} => d = Dms
    BY <1>2 DEF Between, BelongsTo
  <2> HIDE DEF K, L
  <2>6. X \in Seq(Ptrs)
    <3>1. S1 \in [Places -> Seq(Ptrs)]
      BY <1>4 DEF Orderly
    <3>2. \A y : PartOf(S1, M, y) \in Seq(M)
      BY <3>1, PartTyped
    <3>3. X \in Seq(M)
      <4>1. <<>> \in Seq(M)
        OBVIOUS
      <4> QED BY <3>2, <4>1, InLineTyped DEF ChainOf, ChainAt
    <3>4. M \subseteq Ptrs
      BY <2>3
    <3> HIDE DEF M
    <3>5. Seq(M) \subseteq Seq(Ptrs)
      BY <3>4
    <3> QED BY <3>3, <3>5
  <2>7. ChainOf(Store, K, i, d) = Bit(out, h) \o X
    <3>1. CASE h = NULL
      <4>1. ChainOf(Store, K, i, d) = ChainOf(S1, M, i, d)
        <5>1. \A q \in Live(txn) : q \in K <=> q \in M
          BY <2>1, <2>3, <3>1, NodeFacts
        <5> HIDE DEF M
        <5>2. ChainOf(Store, K, i, d) = ChainOf(Store, M, i, d)
          BY <1>3, <5>1, SameChain
        <5> QED BY <1>4, <3>1, <5>2
      <4>2. ~out
        BY <3>1
      <4> HIDE DEF X, out
      <4>3. Bit(out, h) \o X = X
        BY <2>6, <4>2, BitFacts
      <4> QED BY <4>1, <4>3 DEF X
    <3>2. CASE h # NULL
      <4>1. h \in Ptrs /\ (h \in K => i = Debugger) /\ (h \in K <=> out)
        BY <1>4, <2>2, <3>2
      <4>2. \A q \in Live(txn) \ {h} : q \in K <=> q \in M
        BY <2>1
      <4> HIDE DEF out, M
      <4>3. PartAlone(h, K) = Bit(out, h)
        BY <2>2, <4>1, AloneIsBit
      <4>4. ChainShorter(Store, K, M, i, d, Debugger, h)
        BY <1>2, <1>3, <1>4, <3>2, <4>1, <4>2, LeftChain
      <4> QED BY <1>4, <3>2, <4>3, <4>4 DEF ChainShorter
    <3> QED BY <3>1, <3>2
  <2>8. ChainOf(S2, L, i, d) = X \o Bit(in, p)
    <3>1. \A q \in Live(txn) \ {h} : q \in M <=> q \in L
      BY <2>1
    <3>2. CASE p = NULL
      <4>1. ~in
        BY <3>2
      <4> HIDE DEF M
      <4>2. ChainOf(S1, M, i, d) = ChainOf(S1, L, i, d)
        BY <1>4, <3>1, SameChain
      <4> HIDE DEF in, X
      <4>3. X \o Bit(in, p) = X
        BY <2>6, <4>1, BitFacts
      <4> QED BY <1>5, <3>2, <4>2, <4>3 DEF X
    <3>3. CASE p # NULL
      <4>1. p \in Ptrs /\ (p \in L => i = Debugger) /\ (p \in L <=> in)
        BY <1>1, <2>2, <3>3
      <4> HIDE DEF M, in
      <4>2. PartAlone(p, L) = Bit(in, p)
        BY <2>2, <4>1, AloneIsBit
      <4>3. ChainLonger(S1, M, L, i, d, Debugger, p)
        BY <1>2, <1>4, <3>1, <4>1, EnteredChain
      <4> QED BY <1>5, <3>3, <4>2, <4>3 DEF ChainLonger
    <3> QED BY <3>2, <3>3
  <2>9. ChainOf(PipelineShifted(S2), L, i, d) = ChainOf(S2, L, i, d)
    BY <1>1, <2>5, PipelineChain
  <2> HIDE DEF X
  <2> QED BY <1>1, <2>3, <2>4, <2>6, <2>7, <2>8, <2>9 DEF Became
<1>9. Changes(Debugger, a, h, dmm_bus, p)
  <2> HIDE DEF a
  <2> QED BY <1>8 DEF Changes
<1> HIDE DEF a
<1> QED BY <1>4, <1>6, <1>9

-----------------------------------------------------------------------------
(* The refinement.                                                         *)

Pend == [i \in Initiators |-> [d \in Destinations |-> PendingOf(i, d)]]

LEMMA QuietStutters ==
  ASSUME Quiet PROVE Pend' = Pend
BY DEF Quiet, Pend

\* What is issued is not pending already.
LEMMA NotPending ==
  ASSUME BusInv, NEW p \in Ptrs, p \notin Live(txn)
  PROVE  ~Abstract!Pending(p)
<1> SUFFICES ASSUME NEW i \in Initiators, NEW d \in Destinations, p \in ToSet(PendingOf(i, d))
             PROVE  FALSE
  BY DEF Abstract!Pending, Abstract!ToSet, ToSet
<1>1. PendingOf(i, d) \in Seq(Between(i, d))
  BY ChainNow DEF Chains
<1>2. PICK n \in DOMAIN PendingOf(i, d) : PendingOf(i, d)[n] = p
  BY DEF ToSet
<1>3. p \in Between(i, d)
  BY <1>1, <1>2
<1> QED BY <1>3 DEF Between, Live

\* The outcomes, one kind at a time.
LEMMA OutcomesAre ==
  ASSUME NEW j \in Initiators
  PROVE  /\ \A a \in Destinations : Pend[j][a] # <<>> => Abstract!Answered(j, a) \in Abstract!Outcomes
         /\ \A d \in Destinations, p \in Ptrs :
              ~Abstract!Pending(p) => Abstract!Issued(j, d, p) \in Abstract!Outcomes
         /\ \A a, d \in Destinations, p \in Ptrs :
              Pend[j][a] # <<>> /\ ~Abstract!Pending(p) =>
                Abstract!IssuedAndAnswered(j, d, p, a) \in Abstract!Outcomes
<1> DEFINE waited(i) == {a \in Destinations : Pend[i][a] # <<>>}
           free == {p \in Ptrs : ~Abstract!Pending(p)}
           options(i) ==
             {Abstract!Answered(i, a) : a \in waited(i)}
               \cup {Abstract!Issued(i, d, p) : d \in Destinations, p \in free}
               \cup {Abstract!IssuedAndAnswered(i, d, p, a) :
                       d \in Destinations, p \in free, a \in waited(i)}
<1>1. Abstract!Outcomes = UNION {options(i) : i \in Initiators}
  BY DEF Abstract!Outcomes, Pend
<1>2. options(j) \subseteq Abstract!Outcomes
  <2> HIDE DEF options
  <2> QED BY <1>1
<1>3. /\ \A a \in waited(j) : Abstract!Answered(j, a) \in options(j)
      /\ \A d \in Destinations, p \in free : Abstract!Issued(j, d, p) \in options(j)
      /\ \A a \in waited(j), d \in Destinations, p \in free :
           Abstract!IssuedAndAnswered(j, d, p, a) \in options(j)
  <2> HIDE DEF waited, free
  <2> QED OBVIOUS
<1> HIDE DEF options
<1> QED BY <1>2, <1>3

\* An answer, an issue, or both at once, is a step of the abstract bus.
LEMMA ChangesAllowed ==
  ASSUME BusInv, NEW j \in Initiators, NEW h \in Ptrs \cup {NULL}, NEW a,
         NEW p \in Ptrs \cup {NULL}, NEW b, Changes(j, a, h, b, p),
         h # NULL => a \in Destinations, p # NULL => b \in Destinations /\ p \notin Live(txn)
  PROVE  Abstract!Next \/ Pend' = Pend
<1> DEFINE W(i, d) == PendingOf(i, d)
           N(i, d) == PendingOf(i, d)'
           out(i, d) == h # NULL /\ i = j /\ d = a
           in(i, d) == p # NULL /\ i = j /\ d = b
<1>1. ASSUME NEW i \in Initiators, NEW d \in Destinations
      PROVE  /\ W(i, d) \in Seq(Ptrs)
             /\ out(i, d) => W(i, d) # <<>>
             /\ N(i, d) = (IF out(i, d) THEN Tail(W(i, d)) ELSE W(i, d))
                            \o (IF in(i, d) THEN <<p>> ELSE <<>>)
             /\ ~in(i, d) => N(i, d) = IF out(i, d) THEN Tail(W(i, d)) ELSE W(i, d)
             /\ in(i, d) /\ ~out(i, d) => N(i, d) = Append(W(i, d), p)
  <2>1. PICK X \in Seq(Ptrs) : /\ W(i, d) = Bit(out(i, d), h) \o X
                               /\ N(i, d) = X \o Bit(in(i, d), p)
    BY DEF Changes, Became
  <2> HIDE DEF W, N
  <2>2. in(i, d) => X \o Bit(in(i, d), p) = Append(X, p) /\ Bit(in(i, d), p) = <<p>>
    BY AppendIsConcat DEF Bit
  <2>3. ~in(i, d) => X \o Bit(in(i, d), p) = X /\ Bit(in(i, d), p) = <<>>
    BY BitFacts DEF Bit
  <2>4. ~out(i, d) => Bit(out(i, d), h) \o X = X
    BY BitFacts
  <2>5. out(i, d) => /\ Bit(out(i, d), h) \o X # <<>> /\ Tail(Bit(out(i, d), h) \o X) = X
                     /\ Bit(out(i, d), h) \o X \in Seq(Ptrs)
    <3> SUFFICES ASSUME out(i, d)
                 PROVE  /\ Bit(out(i, d), h) \o X # <<>> /\ Tail(Bit(out(i, d), h) \o X) = X
                        /\ Bit(out(i, d), h) \o X \in Seq(Ptrs)
      OBVIOUS
    <3>1. h \in Ptrs /\ Bit(out(i, d), h) = <<h>>
      BY DEF Bit
    <3> DEFINE u == <<h>>
    <3>2. u \in Seq(Ptrs) /\ u # <<>> /\ Tail(u) = <<>> /\ <<>> \o X = X
      BY <3>1, SingleFacts, ConcatEmptySeq
    <3>3. Bit(out(i, d), h) = u
      BY <3>1
    <3> HIDE DEF u
    <3>4. u \o X # <<>> /\ Tail(u \o X) = Tail(u) \o X /\ u \o X \in Seq(Ptrs)
      BY <3>2, TakeFromFirst, ConcatProperties
    <3> QED BY <3>2, <3>3, <3>4
  <2> HIDE DEF out, in
  <2> QED BY <2>1, <2>2, <2>3, <2>4, <2>5
<1>2. /\ Pend = [i \in Initiators |-> [d \in Destinations |-> W(i, d)]]
      /\ Pend' = [i \in Initiators |-> [d \in Destinations |-> N(i, d)]]
  BY DEF Pend
<1>3. p # NULL => p \in Ptrs /\ ~Abstract!Pending(p)
  BY NotPending
<1>4. CASE h = NULL /\ p = NULL
  BY <1>1, <1>2, <1>4
<1>5. CASE h # NULL /\ p = NULL
  <2>1. Pend' = [Pend EXCEPT ![j][a] = Tail(@)]
    <3> HIDE DEF W, N
    <3> DEFINE F(i, d) == IF i = j /\ d = a THEN Tail(W(i, d)) ELSE W(i, d)
    <3>1. \A i \in Initiators, d \in Destinations : N(i, d) = F(i, d)
      BY <1>1, <1>5
    <3>2. Pend[j] = [d \in Destinations |-> W(j, d)] /\ a \in Destinations
      BY <1>2, <1>5
    <3>3. [Pend EXCEPT ![j][a] = Tail(@)]
            = [i \in Initiators |-> [d \in Destinations |-> F(i, d)]]
      BY <1>2, <3>2
    <3> HIDE DEF F
    <3>4. [i \in Initiators |-> [d \in Destinations |-> N(i, d)]]
            = [i \in Initiators |-> [d \in Destinations |-> F(i, d)]]
      BY <3>1
    <3> QED BY <1>2, <3>3, <3>4
  <2>2. Pend[j][a] # <<>>
    BY <1>1, <1>2, <1>5
  <2>3. Pend' = Abstract!Answered(j, a) /\ Abstract!Answered(j, a) \in Abstract!Outcomes
    BY <1>5, <2>1, <2>2, OutcomesAre DEF Pend, Abstract!Answered
  <2> QED BY <2>3 DEF Pend, Abstract!Next
<1>6. CASE h = NULL /\ p # NULL
  <2>1. Pend' = [Pend EXCEPT ![j][b] = Append(@, p)]
    <3> HIDE DEF W, N
    <3> QED BY <1>1, <1>2, <1>6
  <2>2. Pend' = Abstract!Issued(j, b, p)
    BY <2>1 DEF Pend, Abstract!Issued
  <2>3. Abstract!Issued(j, b, p) \in Abstract!Outcomes
    BY <1>3, <1>6, OutcomesAre
  <2> QED BY <2>2, <2>3 DEF Pend, Abstract!Next
<1>7. CASE h # NULL /\ p # NULL
  <2>1. Pend' = [Pend EXCEPT ![j] = [x \in Destinations |->
           (IF x = a THEN Tail(@[x]) ELSE @[x]) \o (IF x = b THEN <<p>> ELSE <<>>)]]
    <3> HIDE DEF W, N
    <3> QED BY <1>1, <1>2, <1>7
  <2>2. Pend[j][a] # <<>>
    BY <1>1, <1>2, <1>7
  <2>3. Pend' = Abstract!IssuedAndAnswered(j, b, p, a)
    BY <2>1 DEF Pend, Abstract!IssuedAndAnswered
  <2>4. Abstract!IssuedAndAnswered(j, b, p, a) \in Abstract!Outcomes
    BY <1>3, <1>7, <2>2, OutcomesAre
  <2> QED BY <2>3, <2>4 DEF Pend, Abstract!Next
<1> QED BY <1>4, <1>5, <1>6, <1>7

\* What stays where it is stays pending.
LEMMA StillQuiet ==
  ASSUME UNCHANGED <<txn, request_fifo, response_fifo, initiator_thread, target_thread, serving,
                     request_in_flight2>>
  PROVE  Quiet
BY DEF Quiet, PendingOf, Between, AtTarget, AtInitiator, Held, Slot

LEMMA StepsAllowed ==
  BusInv /\ [Next]_vars => Abstract!Next \/ Pend' = Pend
<1> SUFFICES ASSUME BusInv, [Next]_vars PROVE Abstract!Next \/ Pend' = Pend
  OBVIOUS
<1>1. BusInv'
  BY BusKept
<1>2. CASE ReleaseReset \/ Posedge \/ UNCHANGED vars
  BY <1>2, StillQuiet, QuietStutters DEF ReleaseReset, Posedge, vars, fifoVars
<1>3. CASE CoreClock
  <2>1. ASSUME NEW p \in Ptrs, CoreIssue(p) PROVE Abstract!Next \/ Pend' = Pend
    <3>1. Changes(Core, NULL, NULL, core_bus, p)
      BY <1>1, <1>3, <2>1, IssueChanges
    <3>2. core_bus \in Destinations /\ p \notin Live(txn) /\ Core \in Initiators
      BY <1>3, <2>1, IssueKeeps, NodeFacts
    <3> QED BY <3>1, <3>2, ChangesAllowed
  <2>2. CASE CoreReceive
    <3>1. PICK p \in Ptrs : /\ p \in Live(txn) /\ txn[p].target \in Destinations
                            /\ Changes(Core, txn[p].target, p, NULL, NULL)
      BY <1>1, <1>3, <2>2, ReceiveChanges
    <3> DEFINE a == txn[p].target
    <3>2. a \in Destinations /\ Changes(Core, a, p, NULL, NULL) /\ Core \in Initiators
      BY <3>1, NodeFacts
    <3> HIDE DEF a
    <3> QED BY <3>2, ChangesAllowed
  <2>3. CASE CoreWait
    BY <1>3, <2>3, StillQuiet, QuietStutters DEF CoreWait, CoreClock, fifoVars
  <2> QED BY <1>3, <2>1, <2>2, <2>3 DEF CoreClock
<1>4. CASE DebuggerNext
  <2>1. PICK p \in Ptrs \cup {NULL} : DebuggerClock(p)
    BY <1>4 DEF DebuggerNext
  <2>a. PICK h \in Ptrs \cup {NULL} :
          \E a : /\ h # NULL => a \in Destinations
                /\ Changes(Debugger, a, h, dmm_bus, p)
    BY <1>1, <2>1, DebuggerChanges
  <2>2. PICK a : /\ h # NULL => a \in Destinations
                 /\ Changes(Debugger, a, h, dmm_bus, p)
    BY <2>a
  <2>3. (p # NULL => dmm_bus \in Destinations /\ p \notin Live(txn)) /\ Debugger \in Initiators
    BY <2>1, DebuggerKeeps, NodeFacts
  <2> QED BY <2>2, <2>3, ChangesAllowed
<1>5. CASE UartNext
  BY <1>1, <1>5, UartQuiet, QuietStutters DEF UartNext
<1>6. CASE ThreadNext
  BY <1>1, <1>6, ThreadsQuiet, QuietStutters
<1> QED BY <1>2, <1>3, <1>4, <1>5, <1>6 DEF Next

LEMMA NothingPending == Init => Abstract!Init
<1> SUFFICES ASSUME Init PROVE Abstract!Init
  OBVIOUS
<1>1. BusInv
  BY BusInit
<1>2. ASSUME NEW i \in Initiators, NEW d \in Destinations PROVE PendingOf(i, d) = <<>>
  <2>1. PendingOf(i, d) \in Seq(Between(i, d))
    BY <1>1, ChainNow DEF Chains
  <2>2. Between(i, d) = {}
    BY DEF Init, Between
  <2> QED BY <2>1, <2>2, HeadTailProperties
<1> QED BY <1>2 DEF Abstract!Init, Abstract!Idle

\* From the fifos, threads and pipelines of the system, seen from the
\* initiators, emerges a bus that answers every transaction at most once, only
\* if it was issued, and in the order in which one initiator issued to one
\* destination: whatever the interleaving, the pointer reuse, and the overlap
\* of the debugger's two ports and its two-stage pipeline.
THEOREM Refinement == Spec => ImplementsOrderedBus
<1>1. BusInv /\ [Next]_vars => [Abstract!Next]_Pend
  BY StepsAllowed
<1> QED BY <1>1, NothingPending, Invariance, PTL DEF Spec, ImplementsOrderedBus, Abstract!Spec, Pend
=============================================================================
