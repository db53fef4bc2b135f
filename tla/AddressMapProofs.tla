------------------------- MODULE AddressMapProofs -------------------------
(***************************************************************************)
(* For every width of the address space and every number of targets, the   *)
(* map register_target builds decodes each address to the one region that  *)
(* holds it; and the calls of main.cpp are accepted in every order.        *)
(***************************************************************************)
EXTENDS Elaboration, FiniteSetTheorems, TLAPS

-----------------------------------------------------------------------------
(* Lemmas about std::map::lower_bound and insertion.                       *)

\* lower_bound returns the floor key whenever there is one: the CHOOSE in
\* LowerBound, which the code reads through without a check, is determined.
LEMMA FloorIsLowerBound ==
  ASSUME NEW m, DOMAIN m \subseteq Int, NEW a \in Int, NEW k, IsFloor(m, a, k)
  PROVE  LowerBound(m, a) = k
<1> DEFINE S == {j \in DOMAIN m : j <= a}
<1>1. k \in S /\ \A y \in S : k >= y
  BY DEF IsFloor
<1>2. ASSUME NEW x \in S, \A y \in S : x >= y
      PROVE  x = k
  BY <1>1, <1>2
<1>3. QED
  BY <1>1, <1>2 DEF LowerBound, Max

\* Inserting a key keeps a floor for every address.
LEMMA InsertKeepsFloors ==
  ASSUME NEW m, DOMAIN m \subseteq Int, NEW k \in Int, NEW v,
         NEW a \in Int, NEW f, IsFloor(m, a, f)
  PROVE  \E g \in DOMAIN Insert(m, k, v) : IsFloor(Insert(m, k, v), a, g)
<1>1. DOMAIN Insert(m, k, v) = DOMAIN m \cup {k}
  BY DEF Insert
<1>2. CASE k <= a /\ f <= k
  BY <1>1, <1>2 DEF IsFloor
<1>3. CASE ~(k <= a /\ f <= k)
  BY <1>1, <1>3 DEF IsFloor
<1>4. QED
  BY <1>2, <1>3

-----------------------------------------------------------------------------
(* One accepted registration preserves the invariant.                      *)

\* What the assertions of an accepted registration establish: the region
\* stays inside the address space, no key lies in it, and its base was not
\* mapped to a target.
LEMMA AcceptedIsClear ==
  ASSUME MapInv, NEW base \in Addr, NEW size \in Addr,
         refused = NULL, size > 0, BaseIsFree(base),
         EndIsClear(Insert(addr_map, base, target_index), base, size)
  PROVE  /\ base + size <= AddrLimit
         /\ Overflows(base, size) <=> base + size = AddrLimit
         /\ base + size < AddrLimit => UpperBound(base, size) = base + size
         /\ \A k \in DOMAIN addr_map : k <= base \/ base + size < k
         /\ \E k \in DOMAIN addr_map : IsFloor(addr_map, base, k) /\ addr_map[k] = NULL
<1> DEFINE m1 == Insert(addr_map, base, target_index)
<1>1. AddrLimit \in Nat \ {0} /\ DOMAIN addr_map \subseteq Int /\ base \in Nat /\ size \in Nat
      /\ base < AddrLimit /\ size < AddrLimit
  BY AddressMapAssumption DEF MapInv, TypeOK, Addr
<1>2. DOMAIN m1 = DOMAIN addr_map \cup {base}
  BY DEF Insert
<1>3. \A a \in Addr : \E k \in DOMAIN m1 : IsFloor(m1, a, k)
  <2> TAKE a \in Addr
  <2>1. PICK f \in DOMAIN addr_map : IsFloor(addr_map, a, f)
    BY DEF MapInv, LookupDefined
  <2>2. a \in Int
    BY <1>1 DEF Addr
  <2>3. QED
    BY <1>1, <2>1, <2>2, InsertKeepsFloors
<1>4. \A a \in Addr : IsFloor(m1, a, LowerBound(m1, a))
  <2> TAKE a \in Addr
  <2>1. PICK f \in DOMAIN m1 : IsFloor(m1, a, f)
    BY <1>3
  <2>2. a \in Int /\ DOMAIN m1 \subseteq Int
    BY <1>1, <1>2 DEF Addr
  <2>3. LowerBound(m1, a) = f
    BY <2>1, <2>2, FloorIsLowerBound
  <2>4. QED
    BY <2>1, <2>3
<1>5. base + size <= AddrLimit
  <2>1. CASE base + size < AddrLimit
    BY <2>1, <1>1
  <2>2. CASE base + size >= AddrLimit
    <3>1. (base + size) % AddrLimit = 0
      BY <2>2 DEF EndIsClear, Overflows, UpperBound
    <3>2. (base + size) % AddrLimit = base + size - AddrLimit
      <4>1. base + size - AddrLimit \in 0 .. AddrLimit - 1
        BY <1>1, <2>2
      <4>2. base + size = AddrLimit + (base + size - AddrLimit)
        BY <1>1
      <4>3. QED
        BY <4>1, <4>2, <1>1, SMT
    <3>3. QED
      BY <3>1, <3>2, <1>1
  <2>3. QED
    BY <2>1, <2>2, <1>1
<1>6. base + size < AddrLimit => UpperBound(base, size) = base + size
  BY <1>1, SMT DEF UpperBound
<1>7. Overflows(base, size) <=> base + size = AddrLimit
  BY <1>1, <1>5 DEF Overflows
<1>8. \A k \in DOMAIN addr_map : k <= base \/ base + size < k
  <2>1. CASE base + size < AddrLimit
    <3>1. base + size \in Addr /\ LowerBound(m1, base + size) = base
      BY <2>1, <1>1, <1>6 DEF EndIsClear, Overflows, Addr
    <3>2. IsFloor(m1, base + size, base)
      BY <3>1, <1>4
    <3>3. QED
      BY <3>2, <1>1, <1>2 DEF IsFloor
  <2>2. CASE base + size = AddrLimit
    <3>1. AddrLimit - 1 \in Addr /\ LowerBound(m1, AddrLimit - 1) = base
      BY <2>2, <1>1 DEF EndIsClear, Overflows, Addr
    <3>2. IsFloor(m1, AddrLimit - 1, base)
      BY <3>1, <1>4
    <3>3. \A k \in DOMAIN addr_map : k <= AddrLimit - 1
      BY <1>1 DEF MapInv, TypeOK, Addr
    <3>4. QED
      BY <3>2, <3>3, <1>1, <1>2 DEF IsFloor
  <2>3. QED
    BY <2>1, <2>2, <1>1, <1>5
<1>9. \E k \in DOMAIN addr_map : IsFloor(addr_map, base, k) /\ addr_map[k] = NULL
  <2>1. PICK k \in DOMAIN addr_map : IsFloor(addr_map, base, k)
    BY DEF MapInv, LookupDefined
  <2>2. LowerBound(addr_map, base) = k
    BY <2>1, <1>1, FloorIsLowerBound
  <2>3. QED
    BY <2>1, <2>2 DEF BaseIsFree
<1>10. QED
  BY <1>5, <1>6, <1>7, <1>8, <1>9


\* The step of an accepted registration, one part of MapInv at a time.
LEMMA RegisterKeepsInv ==
  ASSUME MapInv, RegionsDisjoint, NEW base \in Addr, NEW size \in Addr,
         RegisterTarget(base, size)
  PROVE  MapInv' /\ RegionsDisjoint'
<1> DEFINE new == target_index
           end == base + size
           r == [base |-> base, size |-> size]
<1>1. /\ AddrLimit \in Nat \ {0} /\ NumTargets \in Nat /\ DOMAIN addr_map \subseteq Int
      /\ base \in Nat /\ size \in Nat /\ base < AddrLimit /\ size < AddrLimit
      /\ new \in Nat /\ new < NumTargets /\ size > 0
      /\ NULL \notin TargetIds
  BY AddressMapAssumption DEF MapInv, TypeOK, Addr, TargetIds, RegisterTarget, SocketAvailable
<1>2. /\ TypeOK /\ refused = NULL /\ refused' = NULL
      /\ 0 \in DOMAIN addr_map /\ RegionsMapped /\ EntriesAreBases
      /\ MarkersAreEnds /\ LookupDefined
  BY DEF MapInv, RegisterTarget
<1>3. /\ end <= AddrLimit
      /\ Overflows(base, size) <=> end = AddrLimit
      /\ end < AddrLimit => UpperBound(base, size) = end
      /\ \A k \in DOMAIN addr_map : k <= base \/ end < k
      /\ \E k \in DOMAIN addr_map : IsFloor(addr_map, base, k) /\ addr_map[k] = NULL
  BY AcceptedIsClear, <1>1, <1>2 DEF RegisterTarget
<1>4. PICK f \in DOMAIN addr_map : IsFloor(addr_map, base, f) /\ addr_map[f] = NULL
  BY <1>3
<1> DEFINE m1 == Insert(addr_map, base, new)
           keys == DOMAIN addr_map \cup {base}
                     \cup (IF end < AddrLimit THEN {end} ELSE {})
<1>5. addr_map' = WithEndMarker(m1, base, size)
  BY DEF RegisterTarget
<1>6. DOMAIN m1 = DOMAIN addr_map \cup {base} /\ m1[base] = new
      /\ \A k \in DOMAIN addr_map : k # base => m1[k] = addr_map[k]
  BY DEF Insert
<1>7. /\ DOMAIN addr_map' = keys
      /\ addr_map'[base] = new
      /\ \A k \in DOMAIN addr_map : k # base => addr_map'[k] = addr_map[k]
      /\ end < AddrLimit => addr_map'[end] = NULL
      /\ addr_map' = [k \in DOMAIN addr_map' |-> addr_map'[k]]
  <2>1. CASE end < AddrLimit
    <3>1. end \notin DOMAIN m1
      BY <1>1, <1>3, <1>6, <2>1
    <3>2. addr_map' = Insert(m1, end, NULL)
      BY <3>1, <1>1, <1>3, <1>5, <2>1 DEF WithEndMarker
    <3>3. end # base
      BY <1>1
    <3>4. QED
      BY <3>1, <3>2, <3>3, <1>6, <2>1 DEF Insert
  <2>2. CASE end = AddrLimit
    <3>1. addr_map' = m1
      BY <1>3, <1>5, <2>2 DEF WithEndMarker
    <3>2. m1 = [k \in DOMAIN m1 |-> m1[k]]
      BY DEF Insert
    <3>3. ~(end < AddrLimit)
      BY <1>1, <2>2
    <3>4. QED
      BY <3>1, <3>2, <3>3, <1>6
  <2>3. QED
    BY <2>1, <2>2, <1>1, <1>3
<1>8. /\ DOMAIN regions = 0 .. new - 1 /\ Registered' = 0 .. new
      /\ regions' = Insert(regions, new, r) /\ target_index' = new + 1
      /\ \A t \in Registered : regions[t] \in Region
  BY <1>1, <1>2 DEF RegisterTarget, TypeOK, Registered
<1>9. /\ \A t \in Registered : t \in Registered' /\ t # new /\ regions'[t] = regions[t]
      /\ \A t \in Registered' : t \in Registered \/ t = new
      /\ regions'[new] = r
      /\ DOMAIN regions' = Registered'
      /\ regions' = [t \in DOMAIN regions' |-> regions'[t]]
  BY <1>1, <1>8 DEF Insert, Registered
<1>10. \A t \in Registered : /\ regions[t].base \in Nat /\ regions[t].size \in Nat
                             /\ regions[t].size > 0
                             /\ regions[t].base \in DOMAIN addr_map
                             /\ addr_map[regions[t].base] = t
                             /\ addr_map[regions[t].base] # NULL
  BY <1>1, <1>2, <1>8 DEF RegionsMapped, Region, Addr, TypeOK, Registered, TargetIds
\* An older region lies entirely before the new one or entirely after it.
<1>11. \A t \in Registered :
         /\ RegionEnd(regions[t]) <= base \/ end < regions[t].base
         /\ regions[t].base # base
  <2> TAKE t \in Registered
  <2> DEFINE b == regions[t].base
             e == RegionEnd(regions[t])
  <2>1. b \in Nat /\ e \in Nat /\ b < e /\ b # f /\ b \in DOMAIN addr_map
    BY <1>4, <1>10 DEF RegionEnd
  <2>2. f <= b \/ e <= f
    BY <1>2, <1>4 DEF RegionsMapped
  <2>3. f \in Int /\ f <= base /\ (b <= base => b <= f)
    BY <1>1, <1>4, <2>1 DEF IsFloor
  <2>4. b <= base \/ end < b
    BY <1>3, <2>1
  <2>5. QED
    BY <1>1, <2>1, <2>2, <2>3, <2>4
<1>12. TypeOK'
  <2>1. base \in Addr /\ (end < AddrLimit => end \in Addr)
    BY <1>1 DEF Addr
  <2>2. DOMAIN addr_map' \subseteq Addr
    BY <1>2, <1>7, <2>1 DEF TypeOK
  <2>3. \A k \in DOMAIN addr_map' : addr_map'[k] \in TargetIds \cup {NULL}
    BY <1>1, <1>2, <1>7 DEF TypeOK, TargetIds
  <2>4. target_index' \in 0 .. NumTargets
    BY <1>1, <1>8
  <2>5. r \in Region
    BY DEF Region
  <2>6. regions' \in [Registered' -> Region]
    BY <1>8, <1>9, <2>5
  <2>7. QED
    BY <1>2, <1>7, <2>2, <2>3, <2>4, <2>6 DEF TypeOK
<1>13. (0 \in DOMAIN addr_map)'
  BY <1>2, <1>7
<1>14. RegionsMapped'
  <2> SUFFICES ASSUME NEW t \in Registered'
               PROVE  /\ regions'[t].size > 0
                      /\ RegionEnd(regions'[t]) <= AddrLimit
                      /\ regions'[t].base \in DOMAIN addr_map'
                      /\ addr_map'[regions'[t].base] = t
                      /\ \A k \in DOMAIN addr_map' :
                           k <= regions'[t].base \/ RegionEnd(regions'[t]) <= k
                      /\ RegionEnd(regions'[t]) < AddrLimit
                           => RegionEnd(regions'[t]) \in DOMAIN addr_map'
    BY DEF RegionsMapped
  <2>1. CASE t \in Registered
    <3>1. regions'[t] = regions[t] /\ regions[t].base # base
          /\ regions[t].base \in Nat /\ regions[t].size \in Nat
      BY <1>9, <1>10, <1>11, <2>1
    <3>2. /\ regions[t].size > 0
          /\ RegionEnd(regions[t]) <= AddrLimit
          /\ regions[t].base \in DOMAIN addr_map
          /\ addr_map[regions[t].base] = t
          /\ \A k \in DOMAIN addr_map :
               k <= regions[t].base \/ RegionEnd(regions[t]) <= k
          /\ RegionEnd(regions[t]) < AddrLimit => RegionEnd(regions[t]) \in DOMAIN addr_map
      BY <1>2, <2>1 DEF RegionsMapped
    <3>3. /\ base <= regions[t].base \/ RegionEnd(regions[t]) <= base
          /\ end <= regions[t].base \/ RegionEnd(regions[t]) <= end
      BY <1>1, <1>11, <2>1, <3>1 DEF RegionEnd
    <3>4. QED
      BY <1>7, <3>1, <3>2, <3>3
  <2>2. CASE t = new
    <3>1. regions'[t] = r /\ RegionEnd(r) = end
      BY <1>9, <2>2 DEF RegionEnd
    <3>2. \A k \in DOMAIN addr_map' : k <= base \/ end <= k
      BY <1>1, <1>3, <1>7
    <3>3. QED
      BY <1>1, <1>3, <1>7, <2>2, <3>1, <3>2
  <2>3. QED
    BY <1>9, <2>1, <2>2
<1>15. EntriesAreBases'
  <2> SUFFICES ASSUME NEW k \in DOMAIN addr_map', addr_map'[k] # NULL
               PROVE  addr_map'[k] \in Registered' /\ regions'[addr_map'[k]].base = k
    BY DEF EntriesAreBases
  <2>1. CASE k = base
    BY <1>1, <1>7, <1>8, <1>9, <2>1
  <2>2. CASE k # base
    <3>1. k \in DOMAIN addr_map /\ addr_map'[k] = addr_map[k]
      BY <1>7, <2>2
    <3>2. QED
      BY <1>2, <1>9, <3>1 DEF EntriesAreBases
  <2>3. QED
    BY <2>1, <2>2
<1>16. LookupDefined'
  <2> SUFFICES ASSUME NEW a \in Addr
               PROVE  \E k \in DOMAIN addr_map' : IsFloor(addr_map', a, k)
    BY DEF LookupDefined
  <2>1. PICK g \in DOMAIN addr_map : IsFloor(addr_map, a, g)
    BY <1>2 DEF LookupDefined
  <2>2. a \in Int /\ DOMAIN m1 \subseteq Int
    BY <1>1, <1>6 DEF Addr
  <2>3. PICK h \in DOMAIN m1 : IsFloor(m1, a, h)
    BY <1>1, <2>1, <2>2, InsertKeepsFloors
  <2>4. CASE end < AddrLimit
    <3>1. \E i \in DOMAIN Insert(m1, end, NULL) : IsFloor(Insert(m1, end, NULL), a, i)
      BY <1>1, <2>2, <2>3, InsertKeepsFloors
    <3>2. DOMAIN Insert(m1, end, NULL) = DOMAIN addr_map'
      BY <1>6, <1>7, <2>4 DEF Insert
    <3>3. QED
      BY <3>1, <3>2 DEF IsFloor
  <2>5. CASE end = AddrLimit
    <3>1. DOMAIN m1 = DOMAIN addr_map'
      BY <1>1, <1>6, <1>7, <2>5
    <3>2. QED
      BY <2>3, <3>1 DEF IsFloor
  <2>6. QED
    BY <1>1, <1>3, <2>4, <2>5
<1>17. RegionsDisjoint'
  <2>1. \A t \in Registered : Span(regions[t]) \cap Span(r) = {}
    <3> TAKE t \in Registered
    <3>1. regions[t].base \in Nat /\ regions[t].size \in Nat
          /\ (regions[t].base + regions[t].size <= base \/ end < regions[t].base)
      BY <1>10, <1>11 DEF RegionEnd
    <3>2. QED
      BY <1>1, <3>1 DEF Span, Addr
  <2>2. \A s, t \in Registered' :
           s # t => Span(regions'[s]) \cap Span(regions'[t]) = {}
    BY <1>9, <2>1 DEF RegionsDisjoint
  <2>3. QED
    BY <2>2 DEF RegionsDisjoint, Span
<1>18. MarkersAreEnds'
  <2> SUFFICES ASSUME NEW k \in DOMAIN addr_map', addr_map'[k] = NULL
               PROVE  k = 0 \/ \E t \in Registered' : RegionEnd(regions'[t]) = k
    BY DEF MarkersAreEnds, RegionEnd
  <2>1. CASE k \in DOMAIN addr_map /\ k # base
    <3>1. addr_map[k] = NULL
      BY <1>7, <2>1
    <3>2. k = 0 \/ \E t \in Registered : RegionEnd(regions[t]) = k
      BY <1>2, <2>1, <3>1 DEF MarkersAreEnds
    <3>3. QED
      BY <1>9, <3>2
  <2>2. CASE end < AddrLimit /\ k = end
    <3>1. new \in Registered' /\ RegionEnd(regions'[new]) = k
      BY <1>1, <1>8, <1>9, <2>2 DEF RegionEnd
    <3>2. QED
      BY <3>1
  <2>3. CASE k = base
    <3>1. new \in TargetIds
      BY <1>1 DEF TargetIds
    <3>2. QED
      BY <1>1, <1>7, <2>3, <3>1
  <2>4. QED
    BY <1>7, <2>1, <2>2, <2>3
<1>19. QED
  BY <1>2, <1>12, <1>13, <1>14, <1>15, <1>16, <1>17, <1>18 DEF MapInv


-----------------------------------------------------------------------------
(* The invariant and what it implies.                                      *)

LEMMA InitEstablishesInv == Init => MapInv /\ RegionsDisjoint
<1> SUFFICES ASSUME Init PROVE MapInv /\ RegionsDisjoint
  OBVIOUS
<1>1. AddrLimit \in Nat \ {0} /\ NumTargets \in Nat
  BY AddressMapAssumption
<1>2. DOMAIN addr_map = {0} /\ addr_map[0] = NULL /\ Registered = {}
      /\ addr_map = [k \in {0} |-> NULL] /\ regions = [t \in {} |-> NULL]
  BY <1>1 DEF Init, Registered
<1>3. TypeOK
  BY <1>1, <1>2 DEF Init, TypeOK, Addr
<1>4. RegionsMapped /\ EntriesAreBases /\ MarkersAreEnds /\ RegionsDisjoint
  BY <1>2 DEF RegionsMapped, EntriesAreBases, MarkersAreEnds, RegionsDisjoint
<1>5. LookupDefined
  BY <1>1, <1>2 DEF LookupDefined, IsFloor, Addr
<1>6. QED
  BY <1>2, <1>3, <1>4, <1>5 DEF MapInv

\* A failed assertion may leave the inserted base behind, but no bad type.
LEMMA RefuseKeepsInv ==
  ASSUME MapInv, RegionsDisjoint, NEW base \in Addr, NEW size \in Addr,
         RefuseTarget(base, size)
  PROVE  MapInv' /\ RegionsDisjoint'
<1>1. TypeOK /\ UNCHANGED <<target_index, regions>>
  BY DEF MapInv, RefuseTarget
<1>2. refused' \in Region /\ refused' # NULL
  BY AddressMapAssumption DEF RefuseTarget, Region
<1>3. TypeOK'
  <2>1. CASE addr_map' = addr_map
    BY <1>1, <1>2, <2>1 DEF TypeOK, Registered
  <2>2. CASE addr_map' = Insert(addr_map, base, target_index) /\ SocketAvailable
    <3>1. target_index \in TargetIds
      BY <1>1, <2>2, AddressMapAssumption DEF TypeOK, TargetIds, SocketAvailable
    <3>2. /\ DOMAIN addr_map' = DOMAIN addr_map \cup {base}
          /\ addr_map' \in [DOMAIN addr_map' -> TargetIds \cup {NULL}]
      BY <1>1, <2>2, <3>1 DEF Insert, TypeOK
    <3>3. QED
      BY <1>1, <1>2, <3>2 DEF TypeOK, Registered
  <2>3. QED
    BY <2>1, <2>2 DEF RefuseTarget
<1>4. RegionsDisjoint'
  BY <1>1 DEF RegionsDisjoint, Registered, Span
<1>5. QED
  BY <1>2, <1>3, <1>4 DEF MapInv

\* MapInv and RegionsDisjoint are one inductive invariant: no sequence of
\* registrations, accepted or refused, breaks the layout of the map.
THEOREM MapInvariant == Spec => [](MapInv /\ RegionsDisjoint)
<1>1. Init => MapInv /\ RegionsDisjoint
  BY InitEstablishesInv
<1>2. MapInv /\ RegionsDisjoint /\ [Next]_vars => (MapInv /\ RegionsDisjoint)'
  <2> SUFFICES ASSUME MapInv, RegionsDisjoint, [Next]_vars
               PROVE  (MapInv /\ RegionsDisjoint)'
    OBVIOUS
  <2>1. CASE Next
    <3>1. PICK base \in Addr, size \in Addr :
                 RegisterTarget(base, size) \/ RefuseTarget(base, size)
      BY <2>1 DEF Next
    <3>2. CASE RegisterTarget(base, size)
      BY <3>2, RegisterKeepsInv
    <3>3. CASE RefuseTarget(base, size)
      BY <3>3, RefuseKeepsInv
    <3>4. QED
      BY <3>1, <3>2, <3>3
  <2>2. CASE UNCHANGED vars
    BY <2>2 DEF vars, MapInv, TypeOK, RegionsMapped, EntriesAreBases, MarkersAreEnds,
                LookupDefined, RegionsDisjoint, Registered, Span, RegionEnd, IsFloor
  <2>3. QED
    BY <2>1, <2>2
<1>3. QED
  BY <1>1, <1>2, PTL DEF Spec

\* The layout decodes: the floor of an address inside a region is its base,
\* the floor of any other address is an entry mapped to NULL.
LEMMA LayoutDecodes == MapInv => DecodeOK
<1> SUFFICES ASSUME MapInv, refused = NULL PROVE DecodeOK
  BY DEF DecodeOK
<1>1. TypeOK /\ RegionsMapped /\ EntriesAreBases /\ LookupDefined
      /\ DOMAIN addr_map \subseteq Int
  BY DEF MapInv, TypeOK, Addr
<1>2. \A t \in Registered : regions[t] \in Region /\ t \in TargetIds
  BY <1>1, AddressMapAssumption DEF TypeOK, Registered, TargetIds
<1>3. \A a \in Addr : \E k \in DOMAIN addr_map :
         IsFloor(addr_map, a, k) /\ Decode(a) = addr_map[k]
  <2> TAKE a \in Addr
  <2>1. PICK k \in DOMAIN addr_map : IsFloor(addr_map, a, k)
    BY <1>1 DEF LookupDefined
  <2>2. LowerBound(addr_map, a) = k
    BY <1>1, <2>1, FloorIsLowerBound DEF Addr
  <2>3. QED
    BY <2>1, <2>2 DEF Decode
<1>4. ASSUME NEW t \in Registered, NEW a \in Span(regions[t])
      PROVE  Decode(a) = t
  <2> DEFINE b == regions[t].base
             e == RegionEnd(regions[t])
  <2>1. a \in Addr /\ a \in Int /\ b \in Nat /\ b <= a /\ a < e /\ e \in Nat
    BY <1>2 DEF Span, Region, Addr, RegionEnd
  <2>2. PICK k \in DOMAIN addr_map : IsFloor(addr_map, a, k) /\ Decode(a) = addr_map[k]
    BY <1>3, <2>1
  <2>3. b \in DOMAIN addr_map /\ addr_map[b] = t /\ (k <= b \/ e <= k)
    BY <1>1, <2>2 DEF RegionsMapped
  <2>4. k = b
    BY <1>1, <2>1, <2>2, <2>3 DEF IsFloor
  <2>5. QED
    BY <2>2, <2>3, <2>4
<1>5. ASSUME NEW a \in Addr, Decode(a) # NULL
      PROVE  \E t \in Registered : a \in Span(regions[t])
  <2>1. PICK k \in DOMAIN addr_map : IsFloor(addr_map, a, k) /\ Decode(a) = addr_map[k]
    BY <1>3
  <2> DEFINE t == addr_map[k]
             e == RegionEnd(regions[t])
  <2>2. t \in Registered /\ regions[t].base = k
    BY <1>1, <1>5, <2>1 DEF EntriesAreBases
  <2>3. AddrLimit \in Nat /\ a \in Nat /\ a < AddrLimit /\ k \in Nat /\ k <= a
        /\ e \in Nat /\ e = k + regions[t].size
        /\ regions[t].size \in Nat /\ regions[t].size > 0
        /\ (e < AddrLimit => e \in DOMAIN addr_map)
    BY <1>1, <1>2, <2>1, <2>2, AddressMapAssumption
    DEF Addr, Region, RegionEnd, IsFloor, RegionsMapped
  <2>4. a < e
    BY <2>1, <2>3 DEF IsFloor
  <2>5. QED
    BY <2>2, <2>3, <2>4 DEF Span
<1>6. QED
  BY <1>4, <1>5 DEF DecodeOK

-----------------------------------------------------------------------------
(* Why a registration is refused.                                          *)

\* A key behind the base of a request and not behind its end is the mark of
\* a region that stands in its way.
LEMMA KeyInTheWay ==
  ASSUME MapInv, refused = NULL, NEW base \in Addr, NEW size \in Addr, size > 0,
         NEW k \in DOMAIN addr_map, base < k, k <= base + size
  PROVE  LET r == [base |-> base, size |-> size] IN Overlaps(r) \/ EndsAtRegion(r)
<1> DEFINE r == [base |-> base, size |-> size]
<1>1. /\ TypeOK /\ RegionsMapped /\ EntriesAreBases /\ MarkersAreEnds
      /\ AddrLimit \in Nat /\ base \in Nat /\ size \in Nat /\ k \in Nat
      /\ base < AddrLimit /\ k < AddrLimit
  BY AddressMapAssumption DEF MapInv, TypeOK, Addr
<1>2. \A t \in Registered : /\ regions[t].base \in Nat /\ regions[t].size \in Nat
                            /\ regions[t].size > 0
  BY <1>1 DEF TypeOK, Registered, Region, Addr, RegionsMapped
<1>3. CASE addr_map[k] = NULL
  <2>1. PICK t \in Registered : RegionEnd(regions[t]) = k
    BY <1>1, <1>3 DEF MarkersAreEnds
  <2> DEFINE b == regions[t].base
             z == regions[t].size
  <2>2. b \in Nat /\ z \in Nat /\ z > 0 /\ b + z = k
    BY <1>2, <2>1 DEF RegionEnd
  <2>3. /\ k - 1 \in Addr /\ base <= k - 1 /\ k - 1 < base + size
        /\ b <= k - 1 /\ k - 1 < b + z
    BY <1>1, <2>2 DEF Addr
  <2>4. k - 1 \in Span(r) \cap Span(regions[t])
    BY <2>3 DEF Span
  <2>5. QED
    BY <2>4 DEF Overlaps
<1>4. CASE addr_map[k] # NULL
  <2> DEFINE t == addr_map[k]
  <2>1. t \in Registered /\ regions[t].base = k
    BY <1>1, <1>4 DEF EntriesAreBases
  <2>2. CASE k = base + size
    BY <2>1, <2>2 DEF EndsAtRegion
  <2>3. CASE k # base + size
    <3>1. /\ k \in Addr /\ base <= k /\ k < base + size
          /\ regions[t].base <= k /\ k < regions[t].base + regions[t].size
      BY <1>1, <1>2, <2>1, <2>3 DEF Addr
    <3>2. k \in Span(r) \cap Span(regions[t])
      BY <3>1 DEF Span
    <3>3. QED
      BY <2>1, <3>2 DEF Overlaps
  <2>4. QED
    BY <2>2, <2>3
<1>5. QED
  BY <1>3, <1>4

\* Each of the assertions that can fail has one of the four reasons.
LEMMA RefusalHasReason ==
  ASSUME MapInv, refused = NULL, NEW base \in Addr, NEW size \in Addr,
         \/ ~SocketAvailable \/ size = 0 \/ ~BaseIsFree(base)
         \/ ~EndIsClear(Insert(addr_map, base, target_index), base, size)
  PROVE  LET r == [base |-> base, size |-> size]
         IN  target_index = NumTargets \/ Malformed(r) \/ Overlaps(r) \/ EndsAtRegion(r)
<1> DEFINE r == [base |-> base, size |-> size]
           m1 == Insert(addr_map, base, target_index)
<1>1. /\ AddrLimit \in Nat \ {0} /\ NumTargets \in Nat
      /\ base \in Nat /\ size \in Nat /\ base < AddrLimit /\ size < AddrLimit
      /\ TypeOK /\ DOMAIN addr_map \subseteq Int /\ LookupDefined
  BY AddressMapAssumption DEF MapInv, TypeOK, Addr
<1>2. SUFFICES target_index = NumTargets \/ Malformed(r) \/ Overlaps(r) \/ EndsAtRegion(r)
  OBVIOUS
<1>3. CASE ~SocketAvailable
  BY <1>1, <1>3 DEF SocketAvailable, TypeOK
<1>4. CASE size = 0
  BY <1>4 DEF Malformed
<1>5. CASE size > 0 /\ ~BaseIsFree(base)
  <2>1. Decode(base) # NULL
    BY <1>5 DEF BaseIsFree, Decode
  <2>2. PICK t \in Registered : base \in Span(regions[t])
    BY <1>1, <2>1, LayoutDecodes DEF DecodeOK
  <2>3. base \in Span(r)
    BY <1>1, <1>5 DEF Span
  <2>4. QED
    BY <2>2, <2>3 DEF Overlaps
<1>6. CASE size > 0 /\ ~EndIsClear(m1, base, size)
  <2> DEFINE last == IF base + size < AddrLimit THEN base + size ELSE AddrLimit - 1
  <2>1. CASE base + size > AddrLimit
    BY <2>1 DEF Malformed
  <2>2. CASE base + size <= AddrLimit
    <3>1. last \in Addr /\ last \in Nat /\ base <= last /\ last <= base + size
      BY <1>1, <1>6, <2>2 DEF Addr
    <3>2. LowerBound(m1, last) # base
      <4>1. CASE base + size < AddrLimit
        <5>1. UpperBound(base, size) = base + size
          BY <1>1, <4>1, SMT DEF UpperBound
        <5>2. QED
          BY <1>1, <1>6, <4>1, <5>1 DEF EndIsClear, Overflows
      <4>2. CASE base + size = AddrLimit
        <5>1. UpperBound(base, size) = 0
          BY <1>1, <4>2, SMT DEF UpperBound
        <5>2. QED
          BY <1>1, <1>6, <4>2, <5>1 DEF EndIsClear, Overflows
      <4>3. QED
        BY <1>1, <2>2, <4>1, <4>2
    <3>3. PICK f \in DOMAIN addr_map : IsFloor(addr_map, last, f)
      BY <1>1, <3>1 DEF LookupDefined
    <3>4. PICK k \in DOMAIN m1 : IsFloor(m1, last, k)
      BY <1>1, <3>1, <3>3, InsertKeepsFloors
    <3>5. DOMAIN m1 = DOMAIN addr_map \cup {base}
      BY DEF Insert
    <3>6. LowerBound(m1, last) = k
      BY <1>1, <3>1, <3>4, <3>5, FloorIsLowerBound
    <3> HIDE DEF m1, last
    <3>7. k \in DOMAIN addr_map /\ base < k /\ k <= base + size
      <4>1. k # base
        BY <3>2, <3>6
      <4>2. k \in DOMAIN addr_map /\ k \in Int /\ base <= k /\ k <= last
        BY <1>1, <3>1, <3>4, <3>5, <4>1 DEF IsFloor
      <4>3. QED
        BY <1>1, <3>1, <4>1, <4>2
    <3>8. Overlaps(r) \/ EndsAtRegion(r)
      <4>1. size > 0
        BY <1>6
      <4>2. QED
        BY <3>7, <4>1, KeyInTheWay
    <3>9. QED
      BY <3>8
  <2>3. QED
    BY <1>1, <2>1, <2>2
<1>7. QED
  BY <1>1, <1>3, <1>4, <1>5, <1>6

-----------------------------------------------------------------------------
(* The theorems.                                                           *)

\* The fields keep their types; in particular register_target never indexes
\* past the sockets the bus was constructed with.
THEOREM TypeCorrect == Spec => []TypeOK
<1>1. MapInv => TypeOK
  BY DEF MapInv
<1>2. QED
  BY <1>1, MapInvariant, PTL

\* Every address is routed to the one target whose region holds it, and to
\* none when no region does.
THEOREM DecodeCorrect == Spec => []DecodeOK
<1>1. MapInv => DecodeOK
  BY LayoutDecodes
<1>2. QED
  BY <1>1, MapInvariant, PTL

\* register_target never accepts two regions that share an address.
THEOREM NoOverlap == Spec => []RegionsDisjoint
  BY MapInvariant, PTL

\* register_target refuses nothing without a reason: all sockets are taken,
\* the region leaves the address space, overlaps one, or ends where one begins.
THEOREM RefusalsHaveReasons == Spec => []RefusalExplained
<1>1. Init => RefusalExplained
  BY DEF Init, RefusalExplained
<1>2. MapInv /\ RefusalExplained /\ [Next]_vars => RefusalExplained'
  <2> SUFFICES ASSUME MapInv, RefusalExplained, [Next]_vars
               PROVE  RefusalExplained'
    OBVIOUS
  <2>1. ASSUME NEW base \in Addr, NEW size \in Addr, RegisterTarget(base, size)
        PROVE  RefusalExplained'
    BY <2>1 DEF RegisterTarget, RefusalExplained
  <2>2. ASSUME NEW base \in Addr, NEW size \in Addr, RefuseTarget(base, size)
        PROVE  RefusalExplained'
    <3> DEFINE r == [base |-> base, size |-> size]
    <3>1. /\ refused = NULL /\ refused' = r
          /\ target_index' = target_index /\ regions' = regions
      BY <2>2 DEF RefuseTarget
    <3>2. \/ ~SocketAvailable \/ size = 0 \/ ~BaseIsFree(base)
          \/ ~EndIsClear(Insert(addr_map, base, target_index), base, size)
      BY <2>2 DEF RefuseTarget
    <3>3. target_index = NumTargets \/ Malformed(r) \/ Overlaps(r) \/ EndsAtRegion(r)
      BY <3>1, <3>2, RefusalHasReason
    <3>4. QED
      BY <3>1, <3>3
      DEF RefusalExplained, Malformed, Overlaps, EndsAtRegion, Registered, Span
  <2>3. CASE UNCHANGED vars
    BY <2>3 DEF vars, RefusalExplained, Malformed, Overlaps, EndsAtRegion, Registered, Span
  <2>4. QED
    BY <2>1, <2>2, <2>3 DEF Next
<1>3. QED
  BY <1>1, <1>2, MapInvariant, PTL DEF Spec

-----------------------------------------------------------------------------
(* The elaboration.                                                        *)

\* Where the highest region of main.cpp ends.
Extent == 268435456

LEMMA Capacity ==
  /\ Extent \in Nat /\ AddrLimit \in Nat /\ AddrLimit >= Extent
  /\ NumTargets \in Nat /\ NumTargets >= 4
BY AddressMapAssumption, ElaborationAssumption DEF Extent

LEMMA TheRegions ==
  /\ RegionOf["uart"] = [base |-> 4096, size |-> 1]
  /\ RegionOf["memory"] = [base |-> 134217728, size |-> 134217728]
  /\ RegionOf["dms"] = [base |-> 16, size |-> 240]
  /\ RegionOf["vga"] = [base |-> 40960, size |-> 8192]
BY DEF RegionOf, Devices

\* The regions of main.cpp: none is empty or starts at 0, and between any two
\* there is a gap.
LEMMA MainRegion ==
  ASSUME NEW d \in Devices
  PROVE  /\ RegionOf[d] = [base |-> RegionOf[d].base, size |-> RegionOf[d].size]
         /\ RegionOf[d].base \in Nat \ {0} /\ RegionOf[d].size \in Nat \ {0}
         /\ RegionOf[d].base + RegionOf[d].size <= Extent
<1>1. CASE d = "uart"
  BY <1>1, TheRegions DEF Extent
<1>2. CASE d = "memory"
  BY <1>2, TheRegions DEF Extent
<1>3. CASE d = "dms"
  BY <1>3, TheRegions DEF Extent
<1>4. CASE d = "vga"
  BY <1>4, TheRegions DEF Extent
<1>5. QED
  BY <1>1, <1>2, <1>3, <1>4 DEF Devices

LEMMA MainRegionsApart ==
  ASSUME NEW d \in Devices, NEW e \in Devices, d # e
  PROVE  \/ RegionOf[d].base + RegionOf[d].size < RegionOf[e].base
         \/ RegionOf[e].base + RegionOf[e].size < RegionOf[d].base
BY TheRegions DEF Devices

\* What is bound: distinct devices, each with its region in the map, distinct
\* initiators, and no assertion has failed.
Bound ==
  /\ MapInv /\ RegionsDisjoint /\ refused = NULL
  /\ device \in [Registered -> Devices]
  /\ \A s, t \in Registered : device[s] = device[t] => s = t
  /\ \A t \in Registered : regions[t] = RegionOf[device[t]]
  /\ initiator_index \in Nat /\ DOMAIN master = 0 .. initiator_index - 1

AllBound == \A d \in Devices : \E t \in Registered : device[t] = d

ElabInv == Bound /\ (started => AllBound)

\* The parts of Bound that speak of the map are functions of its variables.
LEMMA BoundStill ==
  ASSUME Bound, UNCHANGED <<vars, device, master, initiator_index>>
  PROVE  Bound'
<1>1. /\ addr_map' = addr_map /\ target_index' = target_index /\ regions' = regions
      /\ refused' = refused /\ device' = device /\ master' = master
      /\ initiator_index' = initiator_index
  BY DEF vars
<1>2. MapInv' /\ RegionsDisjoint'
  BY <1>1 DEF Bound, MapInv, TypeOK, RegionsMapped, EntriesAreBases, MarkersAreEnds,
              LookupDefined, RegionsDisjoint, Registered, Span, RegionEnd, IsFloor
<1>3. QED
  BY <1>1, <1>2 DEF Bound, Registered

\* A device that is not bound yet is accepted.
LEMMA NextIsAccepted ==
  ASSUME Bound, NEW d \in Devices, \A t \in DOMAIN device : device[t] # d
  PROVE  /\ RegionOf[d].base \in Addr /\ RegionOf[d].size \in Addr
         /\ SocketAvailable /\ BaseIsFree(RegionOf[d].base)
         /\ EndIsClear(Insert(addr_map, RegionOf[d].base, target_index),
                       RegionOf[d].base, RegionOf[d].size)
<1> DEFINE base == RegionOf[d].base
           size == RegionOf[d].size
           r == [base |-> base, size |-> size]
<1>1. /\ base \in Nat \ {0} /\ size \in Nat \ {0} /\ base + size <= Extent
      /\ Extent \in Nat /\ AddrLimit \in Nat /\ AddrLimit >= Extent
      /\ NumTargets \in Nat /\ NumTargets >= 4
  BY MainRegion, Capacity
<1>2. base \in Addr /\ size \in Addr
  BY <1>1 DEF Addr
<1>3. DOMAIN device = Registered /\ target_index \in Nat
  BY <1>1 DEF Bound, MapInv, TypeOK
<1>4. \A t \in Registered :
         /\ regions[t].base \in Nat /\ regions[t].size \in Nat
         /\ \/ regions[t].base + regions[t].size < base
            \/ base + size < regions[t].base
  <2> TAKE t \in Registered
  <2>1. t \in DOMAIN device /\ device[t] \in Devices /\ regions[t] = RegionOf[device[t]]
    BY DEF Bound
  <2>2. PICK e \in Devices : e = device[t] /\ e # d
    BY <2>1
  <2>3. \/ RegionOf[e].base + RegionOf[e].size < base
        \/ base + size < RegionOf[e].base
    BY <2>2, MainRegionsApart
  <2>4. RegionOf[e].base \in Nat /\ RegionOf[e].size \in Nat
    BY MainRegion
  <2>5. QED
    BY <2>1, <2>2, <2>3, <2>4
\* Four distinct devices, none of them d, would be one too many.
<1>5. target_index < 4
  <2> SUFFICES ASSUME target_index >= 4 PROVE FALSE
    BY <1>3
  <2>1. {0, 1, 2, 3} \subseteq Registered
    BY <1>3 DEF Registered
  <2>2. /\ device[0] \in Devices \ {d} /\ device[1] \in Devices \ {d}
        /\ device[2] \in Devices \ {d} /\ device[3] \in Devices \ {d}
    BY <1>3, <2>1 DEF Bound
  <2>3. /\ device[0] # device[1] /\ device[0] # device[2] /\ device[0] # device[3]
        /\ device[1] # device[2] /\ device[1] # device[3] /\ device[2] # device[3]
    BY <2>1 DEF Bound
  <2>4. QED
    BY <2>2, <2>3 DEF Devices
<1>6. ~Malformed(r)
  BY <1>1 DEF Malformed
<1>7. ~Overlaps(r)
  <2> SUFFICES ASSUME NEW t \in Registered, NEW a \in Span(r) \cap Span(regions[t])
               PROVE  FALSE
    BY DEF Overlaps
  <2>1. /\ a \in Int /\ base <= a /\ a < base + size
        /\ regions[t].base <= a /\ a < regions[t].base + regions[t].size
    BY DEF Span, Addr
  <2>2. QED
    BY <1>1, <1>4, <2>1
<1>8. ~EndsAtRegion(r)
  BY <1>1, <1>4 DEF EndsAtRegion
<1>9. target_index # NumTargets
  BY <1>1, <1>3, <1>5
<1>10. MapInv /\ refused = NULL
  BY DEF Bound
<1> HIDE DEF base, size
<1>11. QED
  BY <1>2, <1>6, <1>7, <1>8, <1>9, <1>10, RefusalHasReason DEF base, size

\* And the map knows it afterwards.
LEMMA BindKeepsBound ==
  ASSUME Bound, NEW d \in Devices, BindTarget(d)
  PROVE  Bound'
<1> DEFINE base == RegionOf[d].base
           size == RegionOf[d].size
           new == target_index
<1>1. /\ \A t \in DOMAIN device : device[t] # d
      /\ RegisterTarget(base, size)
      /\ device' = Insert(device, new, d)
      /\ master' = master /\ initiator_index' = initiator_index
  BY DEF BindTarget
<1>2. base \in Addr /\ size \in Addr
  BY <1>1, NextIsAccepted
<1>3. MapInv' /\ RegionsDisjoint'
  <2> HIDE DEF base, size
  <2>1. MapInv /\ RegionsDisjoint
    BY DEF Bound
  <2>2. QED
    BY <1>1, <1>2, <2>1, RegisterKeepsInv
<1>4. /\ refused' = NULL /\ target_index' = new + 1
      /\ regions' = Insert(regions, new, [base |-> base, size |-> size])
  BY <1>1 DEF RegisterTarget
<1>5. new \in Nat /\ DOMAIN device = Registered /\ DOMAIN regions = Registered
  BY AddressMapAssumption DEF Bound, MapInv, TypeOK
<1>6. /\ Registered' = Registered \cup {new} /\ new \notin Registered
  BY <1>4, <1>5 DEF Registered
<1>7. /\ DOMAIN device' = Registered' /\ device'[new] = d
      /\ \A t \in Registered : device'[t] = device[t]
      /\ device' \in [Registered' -> Devices]
  BY <1>1, <1>5, <1>6 DEF Insert, Bound
<1>8. /\ regions'[new] = RegionOf[d]
      /\ \A t \in Registered : regions'[t] = regions[t]
  <2>1. RegionOf[d] = [base |-> base, size |-> size]
    BY MainRegion
  <2>2. QED
    BY <1>4, <1>5, <1>6, <2>1 DEF Insert
<1>9. \A s, t \in Registered' : device'[s] = device'[t] => s = t
  BY <1>1, <1>5, <1>6, <1>7 DEF Bound
<1>10. \A t \in Registered' : regions'[t] = RegionOf[device'[t]]
  BY <1>6, <1>7, <1>8 DEF Bound
<1>11. initiator_index' \in Nat /\ DOMAIN master' = 0 .. initiator_index' - 1
  BY <1>1 DEF Bound
<1>12. QED
  BY <1>3, <1>4, <1>7, <1>9, <1>10, <1>11 DEF Bound

LEMMA CountDevices == Cardinality(Devices) = 4 /\ Cardinality(Masters) = 2
<1>1. /\ IsFiniteSet({"uart"}) /\ Cardinality({"uart"}) = 1
      /\ IsFiniteSet({"core"}) /\ Cardinality({"core"}) = 1
  BY FS_Singleton
<1>2. /\ IsFiniteSet({"uart", "memory"}) /\ Cardinality({"uart", "memory"}) = 2
      /\ Cardinality({"core", "debugger"}) = 2
  <2>1. /\ {"uart", "memory"} = {"uart"} \cup {"memory"} /\ "memory" \notin {"uart"}
        /\ {"core", "debugger"} = {"core"} \cup {"debugger"} /\ "debugger" \notin {"core"}
    OBVIOUS
  <2>2. QED
    BY <1>1, <2>1, FS_AddElement
<1>3. IsFiniteSet({"uart", "memory", "dms"}) /\ Cardinality({"uart", "memory", "dms"}) = 3
  <2>1. /\ {"uart", "memory", "dms"} = {"uart", "memory"} \cup {"dms"}
        /\ "dms" \notin {"uart", "memory"}
    OBVIOUS
  <2>2. QED
    BY <1>2, <2>1, FS_AddElement
<1>4. Cardinality({"uart", "memory", "dms", "vga"}) = 4
  <2>1. /\ {"uart", "memory", "dms", "vga"} = {"uart", "memory", "dms"} \cup {"vga"}
        /\ "vga" \notin {"uart", "memory", "dms"}
    OBVIOUS
  <2>2. QED
    BY <1>3, <2>1, FS_AddElement
<1>5. QED
  BY <1>2, <1>4 DEF Devices, Masters

LEMMA CountFirst ==
  ASSUME NEW n \in Nat
  PROVE  Cardinality(0 .. n - 1) = n
<1>1. 0 \in Int /\ n - 1 \in Int
  OBVIOUS
<1>2. Cardinality(0 .. n - 1) = IF 0 > n - 1 THEN 0 ELSE (n - 1) - 0 + 1
  BY <1>1, FS_Interval
<1>3. QED
  BY <1>2

\* Four distinct devices are all of them.
LEMMA FourAreAll ==
  ASSUME Bound, Cardinality(DOMAIN device) = Cardinality(Devices)
  PROVE  AllBound
<1>1. target_index \in Nat /\ DOMAIN device = 0 .. target_index - 1
  BY AddressMapAssumption DEF Bound, MapInv, TypeOK, Registered
<1>2. target_index = 4
  BY <1>1, CountFirst, CountDevices
<1>3. {0, 1, 2, 3} \subseteq Registered
  BY <1>2 DEF Registered
<1>4. /\ device[0] \in Devices /\ device[1] \in Devices
      /\ device[2] \in Devices /\ device[3] \in Devices
  BY <1>3 DEF Bound
<1>5. /\ device[0] # device[1] /\ device[0] # device[2] /\ device[0] # device[3]
      /\ device[1] # device[2] /\ device[1] # device[3] /\ device[2] # device[3]
  BY <1>3 DEF Bound
<1>6. \A d \in Devices :
         d = device[0] \/ d = device[1] \/ d = device[2] \/ d = device[3]
  BY <1>4, <1>5 DEF Devices
<1>7. QED
  BY <1>3, <1>6 DEF AllBound

LEMMA ElabInitBound == ElabInit => ElabInv
<1> SUFFICES ASSUME ElabInit PROVE ElabInv
  OBVIOUS
<1>1. MapInv /\ RegionsDisjoint
  BY InitEstablishesInv DEF ElabInit
<1>2. Registered = {} /\ refused = NULL
  BY DEF ElabInit, Init, Registered
<1>3. device = [t \in {} |-> ""] /\ DOMAIN master = {} /\ initiator_index = 0 /\ ~started
  BY DEF ElabInit
<1>4. QED
  BY <1>1, <1>2, <1>3 DEF ElabInv, Bound

\* No call in any order disturbs what is bound.
LEMMA ElabKeepsInv == ElabInv /\ [ElabNext]_<<vars, elabVars>> => ElabInv'
<1> SUFFICES ASSUME ElabInv, [ElabNext]_<<vars, elabVars>> PROVE ElabInv'
  OBVIOUS
<1>1. ASSUME NEW d \in Devices, BindTarget(d) PROVE ElabInv'
  <2>1. ~started /\ started' = started
    BY <1>1 DEF BindTarget
  <2>2. QED
    BY <1>1, <2>1, BindKeepsBound DEF ElabInv
<1>2. ASSUME NEW m \in Masters, RegisterInitiator(m) PROVE ElabInv'
  <2>1. /\ UNCHANGED vars /\ device' = device /\ started' = started /\ ~started
        /\ initiator_index' = initiator_index + 1
        /\ master' = Insert(master, initiator_index, m)
    BY <1>2 DEF RegisterInitiator
  <2>2. /\ addr_map' = addr_map /\ target_index' = target_index /\ regions' = regions
        /\ refused' = refused
    BY <2>1 DEF vars
  <2>3. MapInv' /\ RegionsDisjoint'
    BY <2>2 DEF ElabInv, Bound, MapInv, TypeOK, RegionsMapped, EntriesAreBases,
                MarkersAreEnds, LookupDefined, RegionsDisjoint, Registered, Span,
                RegionEnd, IsFloor
  <2>4. initiator_index' \in Nat /\ DOMAIN master' = 0 .. initiator_index' - 1
    BY <2>1 DEF ElabInv, Bound, Insert
  <2>5. QED
    BY <2>1, <2>2, <2>3, <2>4 DEF ElabInv, Bound, Registered
<1>3. CASE Start
  <2>1. AllBound
    BY <1>3, FourAreAll DEF Start, ElabInv
  <2>2. UNCHANGED <<vars, device, master, initiator_index>>
    BY <1>3 DEF Start
  <2>3. AllBound'
    BY <2>1, <2>2 DEF AllBound, Registered, vars
  <2>4. QED
    BY <2>2, <2>3, BoundStill DEF ElabInv
<1>4. CASE UNCHANGED <<vars, elabVars>>
  <2>1. UNCHANGED <<vars, device, master, initiator_index>> /\ started' = started
    BY <1>4 DEF elabVars
  <2>2. AllBound' = AllBound
    BY <2>1 DEF AllBound, Registered, vars
  <2>3. QED
    BY <2>1, <2>2, BoundStill DEF ElabInv
<1>5. QED
  BY <1>1, <1>2, <1>3, <1>4 DEF ElabNext, Simulate

\* ElabInv is inductive: whatever the order of the calls.
THEOREM ElaborationInvariant == ElabSpec => []ElabInv
  BY ElabInitBound, ElabKeepsInv, PTL DEF ElabSpec

\* No assertion of register_target or register_initiator fails for the calls
\* of main.cpp, in whichever order they come.
THEOREM BindingsAccepted == ElabSpec => []EveryBindingAccepted
<1>1. ElabInv => EveryBindingAccepted
  <2> SUFFICES ASSUME ElabInv PROVE EveryBindingAccepted
    OBVIOUS
  <2>1. Cardinality(DOMAIN master) < Cardinality(Masters) => initiator_index < NumInitiators
    <3>1. initiator_index \in Nat /\ Cardinality(DOMAIN master) = initiator_index
      BY CountFirst DEF ElabInv, Bound
    <3>2. QED
      BY <3>1, CountDevices, ElaborationAssumption
  <2>2. QED
    BY <2>1, NextIsAccepted DEF EveryBindingAccepted, ElabInv
<1>2. QED
  BY <1>1, ElaborationInvariant, PTL

\* In the running system every address of the address space decodes to the
\* device main.cpp means to answer for it.
LEMMA RunningDecodes ==
  ASSUME ElabInv, started, NEW a \in Addr, NEW d \in Devices
  PROVE  Within(a, RegionOf[d]) <=> Decode(a) \in Registered /\ device[Decode(a)] = d
<1>1. /\ DecodeOK /\ refused = NULL /\ AllBound
      /\ device \in [Registered -> Devices]
      /\ \A t \in Registered : regions[t] = RegionOf[device[t]]
  BY LayoutDecodes DEF ElabInv, Bound
<1>2. NULL \notin Registered
  BY AddressMapAssumption DEF ElabInv, Bound, MapInv, TypeOK, Registered, TargetIds
<1>3. \A t \in Registered : a \in Span(regions[t]) <=> Within(a, RegionOf[device[t]])
  BY <1>1 DEF Span, Within
<1>4. ASSUME Within(a, RegionOf[d])
      PROVE  Decode(a) \in Registered /\ device[Decode(a)] = d
  <2>1. PICK t \in Registered : device[t] = d
    BY <1>1 DEF AllBound
  <2>2. Decode(a) = t
    BY <1>1, <1>3, <1>4, <2>1 DEF DecodeOK
  <2>3. QED
    BY <2>1, <2>2
<1>5. ASSUME Decode(a) \in Registered, device[Decode(a)] = d
      PROVE  Within(a, RegionOf[d])
  <2>1. PICK t \in Registered : a \in Span(regions[t])
    BY <1>1, <1>2, <1>5 DEF DecodeOK
  <2>2. Decode(a) = t
    BY <1>1, <2>1 DEF DecodeOK
  <2>3. QED
    BY <1>3, <1>5, <2>1, <2>2
<1>6. QED
  BY <1>4, <1>5

\* The simulation starts with the devices where main.cpp puts them, and the
\* uart sees no address but its own.
THEOREM RunsAsIntended == ElabSpec => []DecodedAsIntended
<1>1. ElabInv => DecodedAsIntended
  <2> SUFFICES ASSUME ElabInv, started, NEW a \in Boundaries \cap Addr
               PROVE  /\ \A d \in Devices :
                           Within(a, RegionOf[d])
                             <=> Decode(a) \in Registered /\ device[Decode(a)] = d
                      /\ Decode(a) \in Registered /\ device[Decode(a)] = "uart"
                           => UartBase <= a /\ a - UartBase < UartSize
    BY DEF DecodedAsIntended
  <2>1. \A d \in Devices :
           Within(a, RegionOf[d]) <=> Decode(a) \in Registered /\ device[Decode(a)] = d
    BY RunningDecodes
  <2>2. "uart" \in Devices /\ RegionOf["uart"] = [base |-> 4096, size |-> 1] /\ a \in Int
    BY DEF RegionOf, Devices, Addr
  <2>3. Within(a, RegionOf["uart"]) => UartBase <= a /\ a - UartBase < UartSize
    BY <2>2 DEF Within, UartBase, UartSize
  <2>4. QED
    BY <2>1, <2>2, <2>3
<1>2. QED
  BY <1>1, ElaborationInvariant, PTL

=============================================================================
