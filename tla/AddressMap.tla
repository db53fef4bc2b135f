---------------------------- MODULE AddressMap ----------------------------
(***************************************************************************)
(* The address map of magic_school_bus: how register_target builds it      *)
(* while sc_main elaborates the system, and how a lookup decodes an        *)
(* address.  The code keeps a std::map ordered by std::greater, in which   *)
(* every region contributes its base (mapped to the region's target) and   *)
(* the first address after it (mapped to NULL, unless a region starts      *)
(* there).  Addresses are uint32_t; the width is the constant AddrLimit    *)
(* (2^32 in the code).                                                     *)
(***************************************************************************)
EXTENDS Integers, FiniteSets, FiniteSetsExt

CONSTANTS
  AddrLimit,   \* number of addresses: one more than the largest uint32_t
  NumTargets,  \* how many targets the bus was constructed for
  NULL         \* the null initiator_type*

Addr == 0 .. AddrLimit - 1
TargetIds == 0 .. NumTargets - 1

\* What register_target is asked for.
Region == [base : Addr, size : Addr]

ASSUME AddressMapAssumption ==
  /\ AddrLimit \in Nat \ {0}
  /\ NumTargets \in Nat
  /\ NULL \notin TargetIds \cup Region

VARIABLES
  addr_map,      \* addr_map: a function from its keys to TargetIds \cup {NULL}
  target_index,  \* target_index: how many targets are registered
  regions,       \* history: the [base, size] each registered target asked for
  refused        \* history: the request whose sc_assert failed, or NULL

vars == <<addr_map, target_index, regions, refused>>

Registered == 0 .. target_index - 1

-----------------------------------------------------------------------------
(* Operations of std::map<uint32_t, initiator_type*, std::greater>.        *)

\* Mutated form: upper_bound instead of lower_bound, which skips an equal key.
LowerBoundSkipsEqual(m, a) == Max({k \in DOMAIN m : k < a \/ k = 0})

\* lower_bound under std::greater: the first key that is not above a, that
\* is, the largest key at or below a.
LowerBound(m, a) == Max({k \in DOMAIN m : k <= a})

Insert(m, k, v) == [x \in DOMAIN m \cup {k} |-> IF x = k THEN v ELSE m[x]]

\* What handle_initiator_req finds for an address.
Decode(a) == addr_map[LowerBound(addr_map, a)]

-----------------------------------------------------------------------------
(* The checks of register_target, in the order the code makes them.        *)

\* Mutated form: <= for <.
SocketAvailableOffByOne == target_index <= NumTargets
SocketAvailable == target_index < NumTargets

BaseIsFree(base) == addr_map[LowerBound(addr_map, base)] = NULL

\* __builtin_uadd_overflow on uint32_t: the wrapped sum, and the carry below.
UpperBound(base, size) == (base + size) % AddrLimit

\* Mutated form: a sum of exactly 2^32 is not an overflow.
OverflowsOffByOne(base, size) == base + size > AddrLimit
Overflows(base, size) == base + size >= AddrLimit

\* Mutated form: the check asks for the mapping at the end instead of its
\* key, so that a range swallowing a whole smaller region goes unnoticed.
EndIsUnmapped(m, base, size) ==
  IF Overflows(base, size)
    THEN UpperBound(base, size) = 0
    ELSE m[LowerBound(m, UpperBound(base, size))] \in {NULL, m[base]}

\* The overlap check on the map m into which base was inserted already: no
\* key between base and the end.  A region that ends with the address space
\* has no end address and is looked up from the last address.
EndIsClear(m, base, size) ==
  IF Overflows(base, size)
    THEN UpperBound(base, size) = 0 /\ LowerBound(m, AddrLimit - 1) = base
    ELSE LowerBound(m, UpperBound(base, size)) = base

\* Mutated form: the end of the region is not entered.
NoEndMarker(m, base, size) == m

\* The end of the region is mapped to no target unless a region starts there.
WithEndMarker(m, base, size) ==
  IF Overflows(base, size) \/ UpperBound(base, size) \in DOMAIN m
    THEN m
    ELSE Insert(m, UpperBound(base, size), NULL)

-----------------------------------------------------------------------------
Init ==
  /\ addr_map = [k \in {0} |-> NULL]
  /\ target_index = 0
  /\ regions = [t \in {} |-> NULL]
  /\ refused = NULL

\* A registration all of whose assertions hold.
RegisterTarget(base, size) ==
  /\ refused = NULL
  /\ SocketAvailable
  /\ size > 0
  /\ BaseIsFree(base)
  /\ LET inserted == Insert(addr_map, base, target_index)
     IN  /\ EndIsClear(inserted, base, size)
         /\ addr_map' = WithEndMarker(inserted, base, size)
  /\ regions' = Insert(regions, target_index, [base |-> base, size |-> size])
  /\ target_index' = target_index + 1
  /\ UNCHANGED refused

\* A registration one of whose assertions fails: sc_assert ends the program,
\* after the insertion when it is the last check that fails.
RefuseTarget(base, size) ==
  LET early == ~SocketAvailable \/ size = 0 \/ ~BaseIsFree(base)
      inserted == Insert(addr_map, base, target_index)
  IN  /\ refused = NULL
      /\ early \/ ~EndIsClear(inserted, base, size)
      /\ addr_map' = IF early THEN addr_map ELSE inserted
      /\ refused' = [base |-> base, size |-> size]
      /\ UNCHANGED <<target_index, regions>>

Next == \E base \in Addr, size \in Addr :
          RegisterTarget(base, size) \/ RefuseTarget(base, size)

Spec == Init /\ [][Next]_vars

-----------------------------------------------------------------------------
(* Properties.                                                             *)

\* Type invariant of the fields of magic_school_bus and of the two history
\* variables; target_index never runs past the arrays of sockets.
TypeOK ==
  /\ DOMAIN addr_map \subseteq Addr
  /\ addr_map \in [DOMAIN addr_map -> TargetIds \cup {NULL}]
  /\ target_index \in 0 .. NumTargets
  /\ regions \in [Registered -> Region]
  /\ refused \in Region \cup {NULL}

\* The addresses of a region.
Span(r) == {a \in Addr : r.base <= a /\ a < r.base + r.size}

\* Every address decodes to the one registered target whose region holds it,
\* and to no target when none does, however many regions are registered and
\* in whichever order (what handle_initiator_req and handle_target_resp use).
DecodeOK ==
  refused = NULL =>
    /\ \A t \in Registered : \A a \in Span(regions[t]) : Decode(a) = t
    /\ \A a \in Addr :
         (\A t \in Registered : a \notin Span(regions[t])) => Decode(a) = NULL

\* No two targets own the same address: register_target's assertions refuse
\* every overlap, whichever of the two regions came first.
RegionsDisjoint ==
  \A s, t \in Registered : s # t => Span(regions[s]) \cap Span(regions[t]) = {}

\* A request no registration could honour.
Malformed(r) == r.size = 0 \/ r.base + r.size > AddrLimit
Overlaps(r) == \E t \in Registered : Span(r) \cap Span(regions[t]) # {}
EndsAtRegion(r) == \E t \in Registered : r.base + r.size = regions[t].base

\* What a refusal means: no socket is left, the request is malformed or
\* overlaps a region, or it ends exactly where a registered region begins.
RefusalExplained ==
  refused # NULL =>
    \/ target_index = NumTargets
    \/ Malformed(refused)
    \/ Overlaps(refused)
    \/ EndsAtRegion(refused)

\* What the comments in register_target promise: a request is refused only
\* when it is malformed or would overlap, and a region may be adjacent.
RefusesOnlyOverlaps ==
  refused # NULL =>
    \/ target_index = NumTargets
    \/ Malformed(refused)
    \/ Overlaps(refused)

-----------------------------------------------------------------------------
(* The inductive invariant behind DecodeOK, RegionsDisjoint and             *)
(* RefusalExplained.                                                       *)

RegionEnd(r) == r.base + r.size

\* The key lower_bound finds, characterised without choosing it.
IsFloor(m, a, k) == k \in DOMAIN m /\ k <= a /\ \A j \in DOMAIN m : j <= a => j <= k

\* Every region is in the map as the code lays it out: its base, nothing up
\* to its end, and an entry at its end unless it ends with the address space.
RegionsMapped ==
  \A t \in Registered :
    /\ regions[t].size > 0
    /\ RegionEnd(regions[t]) <= AddrLimit
    /\ regions[t].base \in DOMAIN addr_map
    /\ addr_map[regions[t].base] = t
    /\ \A k \in DOMAIN addr_map :
         k <= regions[t].base \/ RegionEnd(regions[t]) <= k
    /\ RegionEnd(regions[t]) < AddrLimit => RegionEnd(regions[t]) \in DOMAIN addr_map

\* Every entry that is not NULL is the base of a region.
EntriesAreBases ==
  \A k \in DOMAIN addr_map :
    addr_map[k] # NULL =>
      /\ addr_map[k] \in Registered
      /\ regions[addr_map[k]].base = k

\* Every other entry is the end of a region, or stands for the empty map.
MarkersAreEnds ==
  \A k \in DOMAIN addr_map :
    addr_map[k] = NULL => k = 0 \/ \E t \in Registered : RegionEnd(regions[t]) = k

\* lower_bound always finds a key: the code dereferences it unchecked.
LookupDefined == \A a \in Addr : \E k \in DOMAIN addr_map : IsFloor(addr_map, a, k)

\* The parts together, which hold until an assertion fails.
MapInv ==
  /\ TypeOK
  /\ refused = NULL => 0 \in DOMAIN addr_map /\ RegionsMapped /\ EntriesAreBases
                        /\ MarkersAreEnds /\ LookupDefined

=============================================================================
