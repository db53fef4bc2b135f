----------------------------- MODULE OrderedBus -----------------------------
(***************************************************************************)
(* What the bus promises its initiators, without fifos, threads or clocks: *)
(* a transaction issued to a destination stays pending until it is         *)
(* answered, exactly once, and the answers an initiator gets from one      *)
(* destination come in the order it asked for them.  Nothing is promised   *)
(* about the order of answers from different destinations.                 *)
(***************************************************************************)
EXTENDS Sequences, SequencesExt

CONSTANTS Initiators, Destinations, Txns

VARIABLE pending  \* pending[i][d]: i's unanswered transactions to d, oldest first

Idle == [i \in Initiators |-> [d \in Destinations |-> <<>>]]
Pending(p) == \E i \in Initiators, d \in Destinations : p \in ToSet(pending[i][d])

Init == pending = Idle

\* What is pending after i issued p to d, after it was answered by a, and
\* after both, which one clock edge may do.
Issued(i, d, p) == [pending EXCEPT ![i][d] = Append(@, p)]
Answered(i, a) == [pending EXCEPT ![i][a] = Tail(@)]
IssuedAndAnswered(i, d, p, a) ==
  [pending EXCEPT ![i] = [x \in Destinations |->
     (IF x = a THEN Tail(@[x]) ELSE @[x]) \o (IF x = d THEN <<p>> ELSE <<>>)]]

Outcomes ==
  UNION {LET waited == {a \in Destinations : pending[i][a] # <<>>}
             free == {p \in Txns : ~Pending(p)}
         IN  {Answered(i, a) : a \in waited}
               \cup {Issued(i, d, p) : d \in Destinations, p \in free}
               \cup {IssuedAndAnswered(i, d, p, a) : d \in Destinations, p \in free, a \in waited} :
         i \in Initiators}

Next == pending' \in Outcomes

Spec == Init /\ [][Next]_pending
=============================================================================
