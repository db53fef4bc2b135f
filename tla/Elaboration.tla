---------------------------- MODULE Elaboration ----------------------------
(***************************************************************************)
(* sc_main's elaboration of the system: the two initiators and the four    *)
(* targets are bound to the bus, with the address regions main.cpp gives   *)
(* them, and then the simulation starts.  The calls may be listed in any   *)
(* order.  Addresses are in units of 16 bytes, the size of the smallest    *)
(* region, to stay within the integers of the model checker.               *)
(***************************************************************************)
EXTENDS AddressMap, Sequences

CONSTANT NumInitiators  \* how many initiators the bus was constructed for

\* main.cpp constructs the bus for 2 initiators and 4 targets; 2^28 units of 16
\* bytes are the 2^32 addresses.
ASSUME ElaborationAssumption ==
  AddrLimit >= 268435456 /\ NumTargets >= 4 /\ NumInitiators \in Nat /\ NumInitiators >= 2

Devices == {"uart", "memory", "dms", "vga"}
Masters == {"core", "debugger"}

\* The arguments of register_target, in units of 16 bytes: 0x10000 and 16,
\* 0x80000000 and 0x80000000, 0x100 and 0xF00, 0xA0000 and 0x20000.
RegionOf ==
  [d \in Devices |-> CASE d = "uart"   -> [base |-> 4096, size |-> 1]
                       [] d = "memory" -> [base |-> 134217728, size |-> 134217728]
                       [] d = "dms"    -> [base |-> 16, size |-> 240]
                       [] d = "vga"    -> [base |-> 40960, size |-> 8192]]

\* uart::base_addr and the assertion "bad uart address", in the same units.
UartBase == 4096
UartSize == 1

VARIABLES
  device,            \* which device each initiator socket of the bus is bound to
  master,            \* which initiator each target socket of the bus is bound to
  initiator_index,   \* initiator_index: how many initiators are registered
  started            \* sc_start was called

elabVars == <<device, master, initiator_index, started>>

ElabInit ==
  /\ Init
  /\ device = [t \in {} |-> ""] /\ master = [i \in {} |-> ""]
  /\ initiator_index = 0 /\ started = FALSE

BindTarget(d) ==
  /\ ~started /\ \A t \in DOMAIN device : device[t] # d
  /\ RegisterTarget(RegionOf[d].base, RegionOf[d].size)
  /\ device' = Insert(device, target_index, d)
  /\ UNCHANGED <<master, initiator_index, started>>

\* register_initiator.
RegisterInitiator(m) ==
  /\ ~started /\ refused = NULL
  /\ \A i \in DOMAIN master : master[i] # m
  /\ initiator_index < NumInitiators
  /\ master' = Insert(master, initiator_index, m)
  /\ initiator_index' = initiator_index + 1
  /\ UNCHANGED <<vars, device, started>>

Start ==
  /\ ~started /\ refused = NULL
  /\ Cardinality(DOMAIN device) = Cardinality(Devices)
  /\ Cardinality(DOMAIN master) = Cardinality(Masters)
  /\ started' = TRUE
  /\ UNCHANGED <<vars, device, master, initiator_index>>

\* The simulation no longer changes the map.
Simulate == started /\ UNCHANGED <<vars, elabVars>>

ElabNext ==
  \/ \E d \in Devices : BindTarget(d)
  \/ \E m \in Masters : RegisterInitiator(m)
  \/ Start \/ Simulate

ElabSpec == ElabInit /\ [][ElabNext]_<<vars, elabVars>>

-----------------------------------------------------------------------------
(* Properties.                                                             *)

\* No assertion of register_target or register_initiator fails: whatever is
\* bound already, each call of main.cpp that is still to come is accepted.
EveryBindingAccepted ==
  /\ \A d \in Devices : (\A t \in DOMAIN device : device[t] # d) =>
       LET r == RegionOf[d] IN
         /\ SocketAvailable /\ BaseIsFree(r.base)
         /\ EndIsClear(Insert(addr_map, r.base, target_index), r.base, r.size)
  /\ Cardinality(DOMAIN master) < Cardinality(Masters) => initiator_index < NumInitiators

\* The addresses at which the decoding can change, and their neighbours.
Boundaries ==
  {0, AddrLimit - 1}
    \cup UNION {{r.base - 1, r.base, r.base + r.size - 1, r.base + r.size} :
                 r \in {RegionOf[d] : d \in Devices}}

Within(a, r) == r.base <= a /\ a < r.base + r.size

\* In the running system each device answers for its region and for nothing
\* else, so the uart's "bad uart address" assertion cannot fail.
DecodedAsIntended ==
  started =>
    \A a \in Boundaries \cap Addr :
      /\ \A d \in Devices :
           Within(a, RegionOf[d]) <=> Decode(a) \in Registered /\ device[Decode(a)] = d
      /\ Decode(a) \in Registered /\ device[Decode(a)] = "uart"
           => UartBase <= a /\ a - UartBase < UartSize
=============================================================================
