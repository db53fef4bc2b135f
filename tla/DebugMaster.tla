----------------------------- MODULE DebugMaster -----------------------------
(***************************************************************************)
(* The master port of jtag_debugger: the part of generator_thread between  *)
(* the debug module's strobe and dmm_request_out_port, and between         *)
(* dmm_response_in_port and dmm_resp.  The debug module makes one access   *)
(* at a time with two handshakes: it holds the strobe until it is granted, *)
(* then waits for valid data.  top.sv connects both handshakes to          *)
(* dmm_resp, and generator_thread issues a transaction at every edge at    *)
(* which it sees the strobe, so one access becomes several transactions:   *)
(* the first answer is its grant, the second its data, the others are      *)
(* answered to nobody.                                                     *)
(***************************************************************************)
EXTENDS Naturals, Sequences

CONSTANTS
  MaxLatency,   \* edges the bus may need for one transaction (0: memory)
  Gap,          \* edges the debug module is idle before an access
  MaxAccesses   \* bound of the model

\* The debug module's accesses come over jtag, a bit at a time, so that many
\* edges pass between two of them: enough for the transactions that are left
\* of the last one to be answered.
ASSUME DebugMasterAssumption ==
  /\ MaxLatency \in Nat /\ Gap \in Nat /\ MaxAccesses \in Nat
  /\ Gap > MaxLatency * (MaxLatency + 1)

VARIABLES
  state,          \* external debug module: where its access stands
  access,         \* number of the access, or of the last one
  idle,           \* edges since the last access ended, up to Gap
  taken,          \* the access whose answer the last access took
  dmm_resp,       \* what generator_thread last drove: grant and valid
  dmm_rdata,      \* the access the data belongs to
  bus,            \* the accesses whose transactions are under way, in order
  age,            \* edges the oldest of them has been served for
  response_fifo   \* dmm_response_fifo: answers of the bus

masterVars == <<state, access, idle, taken, dmm_resp, dmm_rdata, bus, age, response_fifo>>

MasterInit ==
  /\ state = "Idle" /\ access = 0 /\ idle = Gap /\ taken = 0
  /\ dmm_resp = FALSE /\ dmm_rdata = 0
  /\ bus = <<>> /\ age = 0 /\ response_fifo = <<>>

\* The strobe is the output of the debug module's register.
dmm_stb == state = "Request"

\* Mutated form: one transaction for each access, as rv_core does.
IssuesOnce ==
  dmm_stb /\ ~dmm_resp /\ \A n \in DOMAIN (bus \o response_fifo) : (bus \o response_fifo)[n] # access
\* Mutated form: issues until the data is there, not until the grant.
IssuesWhileWaiting == state # "Idle"
\* Mutated form: the test of the strobe is missing.
IssuesUnasked == TRUE
\* A new transaction at every edge at which the strobe is seen.
Issues == dmm_stb

\* Mutated form: dmm_resp is not reset when there is no answer.
RespondSticks ==
  IF response_fifo # <<>>
    THEN /\ dmm_resp' = TRUE
         /\ dmm_rdata' = Head(response_fifo)
         /\ response_fifo' = Tail(response_fifo)
    ELSE UNCHANGED <<dmm_resp, dmm_rdata, response_fifo>>
Respond ==
  IF response_fifo # <<>>
    THEN /\ dmm_resp' = TRUE
         /\ dmm_rdata' = Head(response_fifo)
         /\ response_fifo' = Tail(response_fifo)
    ELSE dmm_resp' = FALSE /\ UNCHANGED <<dmm_rdata, response_fifo>>

\* The debug module at the same edge, which sees the signals as they were.
Start ==
  /\ state = "Idle" /\ idle = Gap /\ access < MaxAccesses
  /\ state' = "Request" /\ access' = access + 1 /\ idle' = 0
  /\ UNCHANGED taken
StayIdle ==
  /\ state = "Idle"
  /\ idle' = IF idle < Gap THEN idle + 1 ELSE Gap
  /\ UNCHANGED <<state, access, taken>>
Grant ==
  /\ state = "Request"
  /\ state' = IF dmm_resp THEN "Wait" ELSE "Request"
  /\ UNCHANGED <<access, idle, taken>>
Valid ==
  /\ state = "Wait"
  /\ state' = IF dmm_resp THEN "Idle" ELSE "Wait"
  /\ taken' = IF dmm_resp THEN dmm_rdata ELSE taken
  /\ UNCHANGED <<access, idle>>

\* generator_thread at an edge.  The oldest transaction may not be older than
\* MaxLatency.
Edge ==
  /\ bus # <<>> => age < MaxLatency
  /\ age' = IF bus = <<>> THEN 0 ELSE age + 1
  /\ bus' = IF Issues THEN Append(bus, access) ELSE bus
  /\ Respond
  /\ Start \/ StayIdle \/ Grant \/ Valid

\* The bus answers the oldest transaction.
Answer ==
  /\ bus # <<>>
  /\ response_fifo' = Append(response_fifo, Head(bus))
  /\ bus' = Tail(bus) /\ age' = 0
  /\ UNCHANGED <<state, access, idle, taken, dmm_resp, dmm_rdata>>

MasterNext == Edge \/ Answer

MasterSpec == MasterInit /\ [][MasterNext]_masterVars

\* The clock runs, and every target answers in the end.
MasterFairSpec == MasterSpec /\ WF_masterVars(Edge) /\ WF_masterVars(Answer)

-----------------------------------------------------------------------------
(* Properties.                                                             *)

\* Type invariant of the port and of the debug module's access; every
\* transaction under way was issued for some access.
MasterTypeOK ==
  /\ state \in {"Idle", "Request", "Wait"}
  /\ access \in 0 .. MaxAccesses /\ idle \in 0 .. Gap /\ taken \in 0 .. access
  /\ dmm_resp \in BOOLEAN /\ dmm_rdata \in 0 .. access
  /\ bus \in Seq(1 .. access) /\ response_fifo \in Seq(1 .. access)
  /\ age \in 0 .. MaxLatency

\* An access ends with an answer to one of its own transactions, although
\* answers nobody waited for keep coming after it: they are used up before
\* the next access looks for its grant.
AnswerIsOwn == state = "Idle" => taken = access

\* The port never has more than MaxLatency + 2 transactions under way, which
\* is what keeps generator_thread from finding dmm_request_fifo full.
IssueBound == Len(bus) + Len(response_fifo) <= MaxLatency + 2

\* Every access of the debug module ends: there is a second answer for it to
\* take as its data, because the strobe is still up when the first one comes.
EveryAccessAnswered == state = "Request" ~> state = "Idle"
=============================================================================
