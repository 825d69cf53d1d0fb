---------------------------- MODULE MmuMap_proofs ----------------------------
(***************************************************************************)
(* Proofs about MmuMap, for every page size, address space, table and      *)
(* series of regions.                                                      *)
(***************************************************************************)
EXTENDS MmuMap, TLAPS

-----------------------------------------------------------------------------
(* Pages and entries.                                                      *)

\* Reducing a number modulo the address space gives an address.
LEMMA ModIsAddress ==
  ASSUME NEW n \in Int
  PROVE  n % Space \in Addresses
<1>1. Space \in Nat \ {0}
  BY MmuAssumption
<1> QED
  BY <1>1 DEF Addresses

\* Rounding down to a page stays within the address space.
LEMMA RoundDownIsAddress ==
  ASSUME NEW n \in Addresses
  PROVE  Round_down(n) \in Addresses
<1>1. PageSize \in Nat \ {0} /\ Space \in Nat
  BY MmuAssumption
<1>2. n \in Nat /\ n < Space
  BY <1>1 DEF Addresses
<1>3. n \div PageSize \in Nat /\ (n \div PageSize) * PageSize <= n
  BY <1>1, <1>2
<1>4. (n \div PageSize) * PageSize \in Nat
  BY <1>1, <1>3
<1> QED
  BY <1>1, <1>2, <1>3, <1>4 DEF Round_down, Addresses

\* What sysMmuMapAdd computes from its arguments are addresses.
LEMMA RegionIsAddresses ==
  ASSUME NEW a \in Addresses, NEW l \in Addresses
  PROVE  /\ PageStart(a) \in Addresses
         /\ PageLength(l) \in Addresses
         /\ PageEnd(PageStart(a), PageLength(l)) \in Addresses
<1>1. PageStart(a) \in Addresses
  BY RoundDownIsAddress DEF PageStart
<1>2. PageLength(l) \in Addresses
  <2>1. l + PageSize - 1 \in Int
    BY MmuAssumption DEF Addresses
  <2> QED
    BY <2>1, ModIsAddress, RoundDownIsAddress DEF PageLength, Round_up
<1>3. PageEnd(PageStart(a), PageLength(l)) \in Addresses
  <2>1. PageStart(a) + PageLength(l) - 1 \in Int
    BY <1>1, <1>2 DEF Addresses
  <2> QED
    BY <2>1, ModIsAddress, RoundDownIsAddress DEF PageEnd
<1> QED
  BY <1>1, <1>2, <1>3

\* The part of a region that an overlap leaves is a region.
LEMMA RestIsRegion ==
  ASSUME NEW e \in Entries, NEW s \in Addresses, NEW t \in Addresses,
         Meets(e, s, t), ~Contained(e, s, t)
  PROVE  Rest(e, s, t) \in [virt : Addresses, len : Addresses]
<1>0. Space \in Nat /\ PageSize \in Nat /\ e.virt \in Int /\ e.len \in Int
  BY MmuAssumption DEF Entries, Addresses
<1>1. MapEnd(e) \in Addresses
  BY <1>0, ModIsAddress DEF MapEnd
<1>2. MapStart(e) \in Addresses
  BY DEF MapStart, Entries
<1>3. CASE TopOverlap(e, s, t)
  <2>1. (MapEnd(e) + PageSize) % Space \in Addresses
    BY <1>0, <1>1, ModIsAddress DEF Addresses
  <2>2. t - MapEnd(e) \in Addresses
    BY <1>0, <1>1, <1>3 DEF TopOverlap, Addresses
  <2> QED
    BY <1>3, <2>1, <2>2 DEF Rest
<1>4. CASE BottomOverlap(e, s, t) /\ ~TopOverlap(e, s, t)
  <2>1. MapStart(e) - s \in Addresses
    BY <1>0, <1>2, <1>4 DEF BottomOverlap, Addresses
  <2> QED
    BY <1>4, <2>1 DEF Rest
<1> QED
  BY <1>3, <1>4 DEF Meets

-----------------------------------------------------------------------------
(* One call of sysMmuMapAdd.                                               *)

\* A new entry goes into a dummy of the table, right behind the active ones, and
\* the count is at most one too high then.
LEMMA FillSlot ==
  ASSUME TypeOK, NEW q \in Requests,
         NEW rest \in [virt : Addresses, len : Addresses],
         NEW n \in {1, 2}, Fill(q, rest, n)
  PROVE  /\ table' \in [1..Slots -> Entries]
         /\ numEnt' \in 0..(Slots + 1) /\ numEnt' >= numEnt
         /\ \A i \in Active \cap 1..Slots : table'[i] = table[i]
         /\ last' \in [call : Requests, result : Results]
<1>0. Slots \in Nat /\ numEnt \in 0..(Slots + 1)
  BY MmuAssumption DEF TypeOK
<1>1. CASE ~SlotFree
  <2>1. UNCHANGED <<table, numEnt>> /\ last' = [call |-> q, result |-> "ERROR"]
    BY <1>1 DEF Fill
  <2> QED
    BY <1>0, <2>1 DEF TypeOK, Results
<1>2. CASE SlotFree
  <2>1. numEnt + 1 \in 1..Slots
    BY <1>0, <1>2, MmuAssumption DEF SlotFree, Entry, FreeSlot
  <2>2. numEnt' = numEnt + n /\ last' = [call |-> q, result |-> "OK"]
    BY <1>2 DEF Fill
  <2> DEFINE new == [virt |-> rest.virt, phys |-> rest.virt, len |-> rest.len,
                     attr |-> q.attr]
  <2>3. table' = [table EXCEPT ![numEnt + 1] = new]
    BY <1>2 DEF Fill, WrittenSlot, FreeSlot
  <2>4. new \in Entries
    BY DEF Entries, Requests
  <2>5. table' \in [1..Slots -> Entries]
    BY <2>3, <2>4 DEF TypeOK
  <2>6. \A i \in Active \cap 1..Slots : table'[i] = table[i]
    BY <1>0, <2>1, <2>3 DEF TypeOK, Active
  <2>7. numEnt' \in 0..(Slots + 1) /\ numEnt' >= numEnt
    BY <1>0, <2>1, <2>2
  <2> QED
    BY <2>2, <2>5, <2>6, <2>7 DEF Results
<1> QED
  BY <1>1, <1>2

\* Whatever a region meets, one call leaves the active entries and at most
\* appends one.
LEMMA AddKeeps ==
  ASSUME TypeOK, NEW a \in Addresses, NEW l \in Addresses,
         NEW attr \in Attributes, sysMmuMapAdd(a, l, attr)
  PROVE  /\ table' \in [1..Slots -> Entries]
         /\ numEnt' \in 0..(Slots + 1) /\ numEnt' >= numEnt
         /\ \A i \in Active \cap 1..Slots : table'[i] = table[i]
         /\ last' \in [call : Requests, result : Results]
         /\ adds' \in 0..MaxAdds
<1> DEFINE s == PageStart(a)
           L == PageLength(l)
           t == PageEnd(s, L)
           q == [start |-> s, length |-> L, attr |-> attr]
<1>1. s \in Addresses /\ L \in Addresses /\ t \in Addresses
  BY RegionIsAddresses
<1>2. q \in Requests
  BY <1>1 DEF Requests
<1>3. adds' \in 0..MaxAdds
  BY MmuAssumption DEF sysMmuMapAdd, TypeOK
<1>4. ASSUME NEW r \in Results, Keep(q, r)
      PROVE  /\ UNCHANGED <<table, numEnt>>
             /\ last' \in [call : Requests, result : Results]
  BY <1>2, <1>4 DEF Keep
<1>5. ASSUME NEW i \in 1..numEnt, IsFirst(i, s, t), ~Contained(Entry(i), s, t)
      PROVE  Rest(Entry(i), s, t) \in [virt : Addresses, len : Addresses]
  <2>1. Entry(i) \in Entries
    BY MmuAssumption DEF Entry, TypeOK
  <2>2. Meets(Entry(i), s, t)
    BY <1>5 DEF IsFirst
  <2> HIDE DEF s, t
  <2> QED
    BY <1>1, <1>5, <2>1, <2>2, RestIsRegion
<1>6. \/ \E r \in Results : Keep(q, r)
      \/ \E rest \in [virt : Addresses, len : Addresses], n \in {1, 2} :
           Fill(q, rest, n)
  <2>1. \/ \E i \in 1..numEnt :
              /\ IsFirst(i, s, t)
              /\ \/ ~Alike(Entry(i), attr) /\ Keep(q, "ERROR")
                 \/ /\ Alike(Entry(i), attr)
                    /\ IF Contained(Entry(i), s, t)
                       THEN Keep(q, "OK")
                       ELSE Fill(q, Rest(Entry(i), s, t), 2)
        \/ Fill(q, [virt |-> s, len |-> L], 1)
    BY DEF sysMmuMapAdd
  <2> HIDE DEF s, L, t, q
  <2>2. "OK" \in Results /\ "ERROR" \in Results
    BY DEF Results
  <2>3. [virt |-> s, len |-> L] \in [virt : Addresses, len : Addresses]
    BY <1>1
  <2> QED
    BY <1>5, <2>1, <2>2, <2>3
<1> HIDE DEF s, L, t, q
<1>7. CASE \E r \in Results : Keep(q, r)
  <2>1. UNCHANGED <<table, numEnt>> /\ last' \in [call : Requests, result : Results]
    BY <1>4, <1>7
  <2> QED
    BY <1>3, <2>1, MmuAssumption DEF TypeOK
<1>8. CASE \E rest \in [virt : Addresses, len : Addresses], n \in {1, 2} :
             Fill(q, rest, n)
  BY <1>2, <1>3, <1>8, FillSlot
<1> QED
  BY <1>6, <1>7, <1>8

-----------------------------------------------------------------------------
(* The steps.                                                              *)

\* Nothing is active before the static entries are counted.
NotCounted == phase = "count" => numEnt = 0

MapInv == TypeOK /\ NotCounted

\* What no step but sysPhysMemTop may do to an active entry.
Kept == /\ numEnt' >= numEnt
        /\ \A i \in Active \cap 1..Slots : table'[i] = table[i]

\* The table of the board satisfies the invariant.
LEMMA InitMapInv == Init => MapInv
<1> SUFFICES ASSUME Init PROVE MapInv
  OBVIOUS
<1>1. DUMMY_MMU_ENTRY \in Entries
  BY MmuAssumption DEF DUMMY_MMU_ENTRY, DUMMY_VIRT_ADDR, Entries, Addresses,
                       Attributes
<1>2. table \in [1..Slots -> Entries]
  <2>1. \A i \in DOMAIN Static : Static[i] \in Entries
    BY MmuAssumption
  <2> QED
    BY <1>1, <2>1 DEF Init
<1>3. last \in [call : Requests, result : Results]
  BY MmuAssumption DEF Init, NoCall, Requests, Results, Addresses, Attributes
<1>4. numEnt \in 0..(Slots + 1) /\ adds \in 0..MaxAdds
  BY MmuAssumption DEF Init
<1> QED
  BY <1>2, <1>3, <1>4 DEF Init, MapInv, TypeOK, NotCounted

\* The count of sysHwInit is within the table.
LEMMA CountStep ==
  ASSUME MapInv, Count
  PROVE  MapInv' /\ Kept
<1>1. Slots \in Nat /\ numEnt = 0
  BY MmuAssumption DEF MapInv, NotCounted, Count
<1>2. numEnt' \in 0..(Slots + 1) /\ numEnt' >= numEnt
  BY <1>1 DEF Count
<1> QED
  BY <1>2 DEF MapInv, TypeOK, NotCounted, Count, Kept

\* The top of memory gives its entry a length within the address space.
LEMMA MemTopStep ==
  ASSUME MapInv, sysPhysMemTop
  PROVE  MapInv'
<1>1. TopEntry \in 1..Slots
  <2>1. TopEntry \in 1..Len(Static) /\ Len(Static) \in Nat
    BY MmuAssumption
  <2> QED
    BY <2>1, MmuAssumption
<1>2. table[TopEntry] \in Entries
  BY <1>1 DEF MapInv, TypeOK
<1>3. Round_down(MemTop) - table[TopEntry].phys \in Int
  <2>1. Round_down(MemTop) \in Addresses
    BY MmuAssumption, RoundDownIsAddress
  <2> QED
    BY <1>2, <2>1 DEF Entries, Addresses
<1> DEFINE new == (Round_down(MemTop) - table[TopEntry].phys) % Space
<1>4. new \in Addresses
  BY <1>3, ModIsAddress
<1>5. table' = [table EXCEPT ![TopEntry].len = new]
  BY DEF sysPhysMemTop
<1> HIDE DEF new
<1>6. [table[TopEntry] EXCEPT !.len = new] \in Entries
  BY <1>2, <1>4 DEF Entries
<1>7. table' \in [1..Slots -> Entries]
  BY <1>5, <1>6 DEF MapInv, TypeOK
<1> QED
  BY <1>7 DEF MapInv, TypeOK, NotCounted, sysPhysMemTop

\* Segments of the E820 map and regions of drivers keep the active entries.
LEMMA MapStep ==
  ASSUME MapInv, E820Segment \/ E820End \/ DeviceMap \/ UNCHANGED vars
  PROVE  MapInv' /\ Kept
<1>0. TypeOK /\ "application" \in Attributes /\ "io" \in Attributes
  BY DEF MapInv, Attributes
<1>1. CASE E820Segment
  <2>1. PICK g \in Segments : MayMap(g) /\ sysMmuMapAdd(g.addr, g.len % Space, "application")
    BY <1>1 DEF E820Segment
  <2>2. g.addr \in Addresses /\ g.len % Space \in Addresses
    <3>1. g.addr \in Nat /\ g.len \in Nat /\ Space \in Nat
      BY MmuAssumption
    <3>2. g.addr < Space
      BY <2>1 DEF MayMap
    <3>3. g.addr \in Addresses
      BY <3>1, <3>2 DEF Addresses
    <3> QED
      BY <3>1, <3>3, ModIsAddress
  <2>3. phase' \in {"e820", "devices"}
    BY <1>1 DEF E820Segment
  <2> QED
    BY <1>0, <2>1, <2>2, <2>3, AddKeeps DEF MapInv, TypeOK, NotCounted, Kept
<1>2. CASE DeviceMap
  <2>1. PICK d \in Devices : sysMmuMapAdd(d.addr, d.len, "io")
    BY <1>2 DEF DeviceMap
  <2>2. d.addr \in Addresses /\ d.len \in Addresses
    BY MmuAssumption
  <2>3. phase' = "devices"
    BY <1>2 DEF DeviceMap
  <2> QED
    BY <1>0, <2>1, <2>2, <2>3, AddKeeps DEF MapInv, TypeOK, NotCounted, Kept
<1>3. CASE E820End \/ UNCHANGED vars
  <2>1. UNCHANGED <<table, numEnt, last, adds>> /\ phase' \in {phase, "devices"}
    BY <1>3 DEF E820End, vars
  <2>2. numEnt \in Int
    BY <1>0, MmuAssumption DEF TypeOK
  <2> QED
    BY <2>1, <2>2 DEF MapInv, TypeOK, NotCounted, Kept
<1> QED
  BY <1>1, <1>2, <1>3

-----------------------------------------------------------------------------
(* The theorems.                                                           *)

\* The invariant of the table always holds.
LEMMA MapInvariant == Spec => []MapInv
<1>1. MapInv /\ [Next]_vars => MapInv'
  BY CountStep, MemTopStep, MapStep DEF Next
<1> QED
  BY <1>1, InitMapInv, PTL DEF Spec

\* sysMmuMapAdd never writes outside sysPhysMemDesc, and every entry it
\* writes, the cut-off rest of an overlap too, is a region of the address
\* space; the count is at most one more than the table has entries.
THEOREM TypeCorrect == Spec => []TypeOK
  BY MapInvariant, PTL DEF MapInv

\* No series of regions, refused, contained, overlapping or new, changes,
\* drops or disables an entry that was active: only the length of the
\* application's memory is set, once, by sysPhysMemTop.
THEOREM OldMappingsKept == Spec => MappingsKept
<1>1. MapInv /\ [Next]_vars =>
        [phase # "memtop" =>
           /\ numEnt' >= numEnt
           /\ \A i \in Active \cap 1..Slots : table'[i] = table[i]]_vars
  BY CountStep, MapStep DEF Next, Kept, sysPhysMemTop
<1> QED
  BY <1>1, MapInvariant, PTL DEF Spec, MappingsKept
-----------------------------------------------------------------------------
(* What is mapped.                                                         *)

SaneTable == \A i \in 1..Slots : Sane(table[i])
TopAbove == phase \in {"count", "memtop"} => table[TopEntry].virt >= PageSize
NoneYet == phase \in {"count", "memtop"} => last.call.length = 0

RegionInv == SaneTable /\ TopAbove /\ NoneYet /\ RegionMapped

\* Rounding down gives the last page boundary up to a number.
LEMMA RoundDown ==
  ASSUME NEW n \in Nat
  PROVE  /\ Round_down(n) \in Nat
         /\ Round_down(n) <= n
         /\ n < Round_down(n) + PageSize
         /\ Round_down(n) = 0 \/ Round_down(n) >= PageSize
<1> DEFINE k == n \div PageSize
<1>1. PageSize \in Nat \ {0}
  BY MmuAssumption
<1>2. k \in Nat /\ k * PageSize <= n /\ n < k * PageSize + PageSize
  BY <1>1
<1>3. Round_down(n) = k * PageSize
  BY DEF Round_down
<1> HIDE DEF k
<1>4. k * PageSize \in Nat
  BY <1>1, <1>2
<1>5. k = 0 => k * PageSize = 0
  BY <1>1
<1>6. k >= 1 => k * PageSize >= PageSize
  BY <1>1, <1>2
<1> QED
  BY <1>1, <1>2, <1>3, <1>4, <1>5, <1>6

\* A page below a number is not beyond the last boundary.
LEMMA PageBelow ==
  ASSUME NEW n \in Nat, NEW p \in Nat, p % PageSize = 0, p <= n
  PROVE  p <= Round_down(n)
<1> DEFINE k == p \div PageSize
           m == n \div PageSize
<1>1. PageSize \in Nat \ {0}
  BY MmuAssumption
<1>2. k \in Nat /\ p = k * PageSize
  BY <1>1
<1>3. m \in Nat /\ n < m * PageSize + PageSize
  BY <1>1
<1>4. Round_down(n) = m * PageSize
  BY DEF Round_down
<1> HIDE DEF k, m
<1>5. k * PageSize < (m + 1) * PageSize
  BY <1>1, <1>2, <1>3
<1>6. k < m + 1
  <2> SUFFICES ASSUME k >= m + 1 PROVE FALSE
    BY <1>2, <1>3
  <2>1. k * PageSize >= (m + 1) * PageSize
    BY <1>1, <1>2, <1>3
  <2> QED
    BY <1>1, <1>2, <1>3, <1>5, <2>1
<1>7. k * PageSize <= m * PageSize
  BY <1>1, <1>2, <1>3, <1>6
<1> QED
  BY <1>2, <1>4, <1>7

\* An address is its own remainder.
LEMMA ModOfAddress ==
  ASSUME NEW n \in Addresses
  PROVE  n % Space = n
<1>1. Space \in Nat \ {0} /\ n \in 0..(Space - 1)
  BY MmuAssumption DEF Addresses
<1> QED
  BY <1>1

\* The last page of an entry lies within it, unless the entry goes round the
\* address space.
LEMMA MapEndInside ==
  ASSUME NEW e \in Entries, Sane(e)
  PROVE  /\ MapEnd(e) \in Addresses
         /\ MapEnd(e) <= e.virt + e.len - PageSize
         /\ e.virt + e.len > Space \/ MapEnd(e) = e.virt + e.len - PageSize
<1> DEFINE n == e.virt + e.len - PageSize
<1>1. PageSize \in Nat \ {0} /\ Space \in Nat \ {0} /\ e.virt \in Nat /\ e.len \in Nat
  BY MmuAssumption DEF Entries, Addresses
<1>2. n \in Nat
  BY <1>1 DEF Sane
<1>3. MapEnd(e) = n % Space
  BY DEF MapEnd
<1>4. n < Space \/ e.virt + e.len > Space
  BY <1>1
<1> HIDE DEF n
<1>5. n % Space <= n /\ n % Space \in Addresses
  BY <1>1, <1>2, ModIsAddress
<1>6. n < Space => n % Space = n
  BY <1>1, <1>2
<1> QED
  BY <1>3, <1>4, <1>5, <1>6 DEF n
\* The last page of the address space begins a page below its end.
LEMMA RoundDownTop ==
  ASSUME NEW n \in Addresses
  PROVE  Round_down(n) <= Space - PageSize
<1> DEFINE k == n \div PageSize
           j == Space \div PageSize
<1>1. PageSize \in Nat \ {0} /\ Space \in Nat /\ Space % PageSize = 0
  BY MmuAssumption
<1>2. n \in Nat /\ n < Space
  BY <1>1 DEF Addresses
<1>3. k \in Nat /\ k * PageSize <= n
  BY <1>1, <1>2
<1>4. j \in Nat /\ Space = j * PageSize
  BY <1>1
<1>5. Round_down(n) = k * PageSize
  BY DEF Round_down
<1> HIDE DEF k, j
<1>6. k < j
  <2> SUFFICES ASSUME k >= j PROVE FALSE
    BY <1>3, <1>4
  <2>1. k * PageSize >= j * PageSize
    BY <1>1, <1>3, <1>4
  <2> QED
    BY <1>1, <1>2, <1>3, <1>4, <2>1
<1>7. (k + 1) * PageSize <= j * PageSize
  BY <1>1, <1>3, <1>4, <1>6
<1>8. (k + 1) * PageSize = k * PageSize + PageSize
  BY <1>1, <1>3
<1>9. k * PageSize \in Nat
  BY <1>1, <1>3
<1> QED
  BY <1>1, <1>4, <1>5, <1>7, <1>8, <1>9

\* The region sysMmuMapAdd maps: it begins at a page, is not empty, and pageEnd
\* is its last page.
LEMMA Region ==
  ASSUME NEW a \in Addresses, NEW l \in 1..(Space - PageSize),
         NEW s, s = PageStart(a), NEW L, L = PageLength(l),
         NEW t, t = PageEnd(s, L)
  PROVE  /\ s \in Addresses /\ L \in Addresses /\ t \in Addresses
         /\ s = 0 \/ s >= PageSize
         /\ L >= PageSize
         /\ t <= Space - PageSize
         /\ s + L <= Space =>
              \A p \in Addresses : p % PageSize = 0 /\ p < s + L => p <= t
<1>0. PageSize \in Nat \ {0} /\ Space \in Nat /\ Space > PageSize
  BY MmuAssumption
<1>1. l \in Addresses
  BY <1>0 DEF Addresses
<1>2. s \in Addresses /\ L \in Addresses /\ t \in Addresses
  BY <1>1, RegionIsAddresses
<1>3. s = 0 \/ s >= PageSize
  <2>1. a \in Nat
    BY <1>0 DEF Addresses
  <2> QED
    BY <2>1, RoundDown DEF PageStart
<1>4. L >= PageSize
  <2> DEFINE n == l + PageSize - 1
  <2>1. n \in Addresses /\ n \in Nat /\ n >= PageSize
    BY <1>0 DEF Addresses
  <2> HIDE DEF n
  <2>2. L = Round_down(n)
    BY <2>1, ModOfAddress DEF PageLength, Round_up, n
  <2>3. n < Round_down(n) + PageSize /\ (Round_down(n) = 0 \/ Round_down(n) >= PageSize)
    BY <2>1, RoundDown
  <2> QED
    BY <1>0, <2>1, <2>2, <2>3
<1>5. t <= Space - PageSize
  <2>1. s + L - 1 \in Int
    BY <1>0, <1>2 DEF Addresses
  <2> QED
    BY <2>1, ModIsAddress, RoundDownTop DEF PageEnd
<1>6. ASSUME s + L <= Space, NEW p \in Addresses, p % PageSize = 0, p < s + L
      PROVE  p <= t
  <2> DEFINE n == s + L - 1
  <2>1. n \in Addresses /\ n \in Nat /\ p \in Nat /\ p <= n
    BY <1>0, <1>2, <1>4, <1>6 DEF Addresses
  <2> HIDE DEF n
  <2>2. t = Round_down(n)
    BY <2>1, ModOfAddress DEF PageEnd, n
  <2> QED
    BY <1>6, <2>1, <2>2, PageBelow
<1> QED
  BY <1>2, <1>3, <1>4, <1>5, <1>6

\* An entry that contains a region holds its pages; one that it overlaps holds
\* those that are not in the rest, at its top and at its bottom.
LEMMA OverlapCovers ==
  ASSUME NEW e \in Entries, Sane(e), NEW s \in Addresses, NEW t \in Addresses,
         t <= Space - PageSize, Meets(e, s, t)
  PROVE  /\ ~Contained(e, s, t) /\ (s = 0 \/ s >= PageSize) => Sane(Rest(e, s, t))
         /\ \A p \in Addresses : s <= p /\ p <= t =>
              Holds(e, p) \/ (~Contained(e, s, t) /\ Holds(Rest(e, s, t), p))
<1> DEFINE m == MapEnd(e)
<1>0. /\ PageSize \in Nat \ {0} /\ Space \in Nat /\ Space > PageSize
      /\ e.virt \in Nat /\ e.len \in Nat /\ s \in Nat /\ t \in Nat
  BY MmuAssumption DEF Entries, Addresses
<1>1. /\ m \in Nat /\ m <= e.virt + e.len - PageSize
      /\ e.virt + e.len > Space \/ m = e.virt + e.len - PageSize
  BY <1>0, MapEndInside DEF Addresses
<1>2. MapStart(e) = e.virt
  BY DEF MapStart
<1>3. CASE Contained(e, s, t)
  <2>1. e.virt <= s /\ t <= m
    BY <1>0, <1>2, <1>3 DEF Contained
  <2>2. \A p \in Addresses : s <= p /\ p <= t => Holds(e, p)
    BY <1>0, <1>1, <2>1 DEF Holds, Addresses
  <2> QED
    BY <1>3, <2>2
<1>4. CASE TopOverlap(e, s, t)
  <2>1. e.virt <= s /\ m < t
    BY <1>0, <1>1, <1>2, <1>4 DEF TopOverlap
  <2>2. m + PageSize \in Addresses /\ (m + PageSize) % Space = m + PageSize
    <3>1. m + PageSize \in Addresses
      BY <1>0, <1>1, <2>1 DEF Addresses
    <3> QED
      BY <3>1, ModOfAddress
  <2>3. Rest(e, s, t) = [virt |-> m + PageSize, len |-> t - m]
    BY <1>4, <2>2 DEF Rest
  <2> HIDE DEF m
  <2>4. Sane(Rest(e, s, t))
    BY <1>0, <1>1, <2>3 DEF Sane
  <2>5. ASSUME NEW p \in Addresses, s <= p, p <= t, ~Holds(e, p)
        PROVE  Holds(Rest(e, s, t), p)
    <3>1. p \in Nat /\ p < Space /\ p >= e.virt + e.len
      BY <1>0, <2>1, <2>5 DEF Holds, Addresses
    <3>2. m + PageSize <= p /\ p < m + PageSize + (t - m)
      BY <1>0, <1>1, <2>5, <3>1
    <3> QED
      BY <2>3, <3>2 DEF Holds
  <2>6. ~Contained(e, s, t)
    BY <1>0, <1>1, <2>1 DEF Contained, m
  <2> QED
    BY <2>4, <2>5, <2>6
<1>5. CASE BottomOverlap(e, s, t)
  <2>1. s < e.virt /\ t <= m
    BY <1>0, <1>1, <1>2, <1>5 DEF BottomOverlap
  <2>2. ~TopOverlap(e, s, t) /\ ~Contained(e, s, t)
    BY <1>0, <1>2, <2>1 DEF TopOverlap, Contained
  <2>3. Rest(e, s, t) = [virt |-> s, len |-> e.virt - s]
    BY <1>2, <2>2 DEF Rest
  <2>4. s = 0 \/ s >= PageSize => Sane(Rest(e, s, t))
    BY <1>0, <2>1, <2>3 DEF Sane
  <2>5. ASSUME NEW p \in Addresses, s <= p, p <= t, ~Holds(e, p)
        PROVE  Holds(Rest(e, s, t), p)
    <3>1. p \in Nat /\ p < e.virt
      BY <1>0, <1>1, <2>1, <2>5 DEF Holds, Addresses, m
    <3> QED
      BY <1>0, <2>3, <2>5, <3>1 DEF Holds
  <2> QED
    BY <2>2, <2>4, <2>5
<1> QED
  BY <1>3, <1>4, <1>5 DEF Meets
\* Filling the free slot with a region leaves the table sane and the slot active.
LEMMA FillMaps ==
  ASSUME TypeOK, SaneTable, NEW q \in Requests,
         NEW rest \in [virt : Addresses, len : Addresses], Sane(rest),
         NEW n \in {1, 2}, Fill(q, rest, n), last'.result = "OK"
  PROVE  /\ SaneTable' /\ last'.call = q
         /\ \E i \in Active' : /\ Alike(Entry(i)', q.attr)
                               /\ \A p : Holds(rest, p) => Holds(Entry(i)', p)
<1>0. Slots \in Nat /\ numEnt \in 0..(Slots + 1)
  BY MmuAssumption DEF TypeOK
<1>1. SlotFree
  BY DEF Fill
<1>2. numEnt + 1 \in 1..Slots
  BY <1>0, <1>1, MmuAssumption DEF SlotFree, Entry, FreeSlot
<1> DEFINE new == [virt |-> rest.virt, phys |-> rest.virt, len |-> rest.len,
                   attr |-> q.attr]
<1>3. table' = [table EXCEPT ![numEnt + 1] = new] /\ numEnt' = numEnt + n /\ last'.call = q
  BY <1>1 DEF Fill, WrittenSlot, FreeSlot
<1>4. table'[numEnt + 1] = new /\ numEnt + 1 \in Active'
  BY <1>0, <1>2, <1>3 DEF TypeOK, Active
<1>5. Sane(new) /\ Alike(new, q.attr) /\ (\A p : Holds(rest, p) => Holds(new, p))
  BY DEF Sane, Alike, Holds
<1> HIDE DEF new
<1>6. SaneTable'
  BY <1>2, <1>3, <1>5 DEF SaneTable, TypeOK
<1>7. PICK k \in 1..Slots : k = numEnt + 1
  BY <1>2
<1>8. Entry(k)' = new
  BY <1>0, <1>4, <1>7 DEF Entry
<1> QED
  BY <1>3, <1>4, <1>5, <1>6, <1>7, <1>8

\* A call that returns OK has found or made entries, active and as asked, for
\* every page of its region.
LEMMA AddMaps ==
  ASSUME TypeOK, SaneTable, Sane(Behind), NEW a \in Addresses,
         NEW l \in 1..(Space - PageSize), NEW attr \in Attributes,
         sysMmuMapAdd(a, l, attr)
  PROVE  SaneTable' /\ RegionMapped'
<1>0. /\ PageSize \in Nat \ {0} /\ Space \in Nat /\ Space > PageSize
      /\ Slots \in Nat /\ numEnt \in 0..(Slots + 1) /\ l \in Addresses
  BY MmuAssumption DEF TypeOK, Addresses
<1>1. PICK s : s = PageStart(a)
  OBVIOUS
<1>2. PICK L : L = PageLength(l)
  OBVIOUS
<1>3. PICK t : t = PageEnd(s, L)
  OBVIOUS
<1>4. PICK q : q = [start |-> s, length |-> L, attr |-> attr]
  OBVIOUS
<1>5. /\ s \in Addresses /\ L \in Addresses /\ t \in Addresses
      /\ s = 0 \/ s >= PageSize
      /\ L >= PageSize
      /\ t <= Space - PageSize
      /\ s + L <= Space =>
           \A p \in Addresses : p % PageSize = 0 /\ p < s + L => p <= t
  BY <1>1, <1>2, <1>3, Region
<1>6. q \in Requests /\ q.attr = attr
  BY <1>4, <1>5 DEF Requests
<1>7. \A p : WellFormed(q) /\ p \in Pages(q) =>
              p \in Addresses /\ s <= p /\ p <= t /\ p < s + L
  BY <1>0, <1>4, <1>5 DEF WellFormed, Pages, Addresses
<1>8. /\ numEnt' \in 0..(Slots + 1) /\ numEnt' >= numEnt
      /\ \A i \in Active \cap 1..Slots : table'[i] = table[i]
  BY <1>0, AddKeeps
<1>9. \A i \in Active : i \in Active' /\ Entry(i)' = Entry(i)
  BY <1>0, <1>8 DEF Active, Entry
<1>10. \A i \in Active : Sane(Entry(i)) /\ Entry(i) \in Entries
  BY <1>0, MmuAssumption DEF Active, Entry, SaneTable, TypeOK
<1>11. \/ \E i \in 1..numEnt :
              /\ IsFirst(i, s, t)
              /\ \/ ~Alike(Entry(i), attr) /\ Keep(q, "ERROR")
                 \/ /\ Alike(Entry(i), attr)
                    /\ IF Contained(Entry(i), s, t)
                       THEN Keep(q, "OK")
                       ELSE Fill(q, Rest(Entry(i), s, t), 2)
       \/ Fill(q, [virt |-> s, len |-> L], 1)
  BY <1>1, <1>2, <1>3, <1>4 DEF sysMmuMapAdd
<1>12. CASE last'.result # "OK"
  <2>1. UNCHANGED table
    BY <1>11, <1>12 DEF Keep, Fill
  <2> QED
    BY <1>12, <2>1 DEF SaneTable, RegionMapped
<1>13. ASSUME last'.result = "OK", NEW i \in Active, IsFirst(i, s, t),
              Alike(Entry(i), attr), Contained(Entry(i), s, t), Keep(q, "OK")
       PROVE  SaneTable' /\ RegionMapped'
  <2>1. UNCHANGED table /\ last'.call = q
    BY <1>13 DEF Keep
  <2>2. Meets(Entry(i), s, t)
    BY <1>13 DEF IsFirst
  <2>3. \A p \in Addresses : s <= p /\ p <= t => Holds(Entry(i), p)
    BY <1>5, <1>10, <1>13, <2>2, OverlapCovers
  <2>4. \A p : WellFormed(q) /\ p \in Pages(q) =>
               i \in Active' /\ Holds(Entry(i)', p) /\ Alike(Entry(i)', q.attr)
    BY <1>6, <1>7, <1>9, <1>13, <2>3
  <2>5. RegionMapped'
    BY <2>1, <2>4 DEF RegionMapped
  <2> QED
    BY <2>1, <2>5 DEF SaneTable
<1>14. ASSUME last'.result = "OK", NEW i \in Active, IsFirst(i, s, t),
              Alike(Entry(i), attr), ~Contained(Entry(i), s, t),
              Fill(q, Rest(Entry(i), s, t), 2)
       PROVE  SaneTable' /\ RegionMapped'
  <2>1. PICK rest : rest = Rest(Entry(i), s, t)
    OBVIOUS
  <2>2. Meets(Entry(i), s, t)
    BY <1>14 DEF IsFirst
  <2>3. rest \in [virt : Addresses, len : Addresses]
    BY <1>5, <1>10, <1>14, <2>1, <2>2, RestIsRegion
  <2>4. /\ Sane(rest)
        /\ \A p \in Addresses : s <= p /\ p <= t =>
             Holds(Entry(i), p) \/ Holds(rest, p)
    BY <1>5, <1>10, <1>14, <2>1, <2>2, OverlapCovers
  <2>5. /\ SaneTable' /\ last'.call = q
        /\ \E k \in Active' : /\ Alike(Entry(k)', q.attr)
                              /\ \A p : Holds(rest, p) => Holds(Entry(k)', p)
    BY <1>6, <1>14, <2>1, <2>3, <2>4, FillMaps
  <2>6. PICK k \in Active' : /\ Alike(Entry(k)', q.attr)
                             /\ \A p : Holds(rest, p) => Holds(Entry(k)', p)
    BY <2>5
  <2>7. i \in Active' /\ Entry(i)' = Entry(i) /\ Alike(Entry(i)', q.attr)
    BY <1>6, <1>9, <1>14
  <2>8. \A p : WellFormed(q) /\ p \in Pages(q) =>
               Holds(Entry(i)', p) \/ Holds(Entry(k)', p)
    BY <1>7, <2>4, <2>6, <2>7
  <2>9. RegionMapped'
    BY <2>5, <2>6, <2>7, <2>8 DEF RegionMapped
  <2> QED
    BY <2>5, <2>9
<1>15. ASSUME last'.result = "OK", Fill(q, [virt |-> s, len |-> L], 1)
       PROVE  SaneTable' /\ RegionMapped'
  <2>1. PICK rest : rest = [virt |-> s, len |-> L]
    OBVIOUS
  <2>2. rest \in [virt : Addresses, len : Addresses] /\ Sane(rest)
    BY <1>5, <2>1 DEF Sane
  <2>3. /\ SaneTable' /\ last'.call = q
        /\ \E k \in Active' : /\ Alike(Entry(k)', q.attr)
                              /\ \A p : Holds(rest, p) => Holds(Entry(k)', p)
    BY <1>6, <1>15, <2>1, <2>2, FillMaps
  <2>4. \A p : WellFormed(q) /\ p \in Pages(q) => Holds(rest, p)
    BY <1>7, <2>1 DEF Holds
  <2>5. RegionMapped'
    BY <2>3, <2>4 DEF RegionMapped
  <2> QED
    BY <2>3, <2>5
<1>16. ASSUME last'.result = "OK", NEW i \in 1..numEnt, IsFirst(i, s, t),
              \/ ~Alike(Entry(i), attr) /\ Keep(q, "ERROR")
              \/ /\ Alike(Entry(i), attr)
                 /\ IF Contained(Entry(i), s, t)
                    THEN Keep(q, "OK")
                    ELSE Fill(q, Rest(Entry(i), s, t), 2)
       PROVE  SaneTable' /\ RegionMapped'
  <2>1. i \in Active
    BY DEF Active
  <2>2. CASE ~Alike(Entry(i), attr)
    <3>1. last'.result = "ERROR"
      BY <1>16, <2>2 DEF Keep
    <3> QED
      BY <1>16, <3>1
  <2>3. CASE Alike(Entry(i), attr) /\ Contained(Entry(i), s, t)
    BY <1>13, <1>16, <2>1, <2>3
  <2>4. CASE Alike(Entry(i), attr) /\ ~Contained(Entry(i), s, t)
    BY <1>14, <1>16, <2>1, <2>4
  <2> QED
    BY <2>2, <2>3, <2>4
<1> QED
  BY <1>11, <1>12, <1>15, <1>16

\* What is mapped stays so through the start of the board.
LEMMA RegionStep ==
  ASSUME SaneBoard, MapInv, RegionInv, [Next]_vars
  PROVE  RegionInv'
<1>0. TypeOK /\ SaneTable /\ Sane(Behind)
  BY DEF MapInv, RegionInv, SaneBoard
<1>1. CASE E820Segment
  <2>1. PICK g \in Segments : MayMap(g) /\ sysMmuMapAdd(g.addr, g.len % Space, "application")
    BY <1>1 DEF E820Segment
  <2>2. g.addr \in Addresses
    <3>1. g.addr \in Nat /\ Space \in Nat /\ g.addr < Space
      BY <2>1, MmuAssumption DEF MayMap
    <3> QED
      BY <3>1 DEF Addresses
  <2>3. g.len % Space \in 1..(Space - PageSize) /\ "application" \in Attributes
    BY <2>1 DEF SaneBoard, Attributes
  <2>4. SaneTable' /\ RegionMapped'
    BY <1>0, <2>1, <2>2, <2>3, AddMaps
  <2>5. phase' \in {"e820", "devices"}
    BY <1>1 DEF E820Segment
  <2> QED
    BY <2>4, <2>5 DEF RegionInv, TopAbove, NoneYet
<1>2. CASE DeviceMap
  <2>1. PICK d \in Devices : sysMmuMapAdd(d.addr, d.len, "io")
    BY <1>2 DEF DeviceMap
  <2>2. d.addr \in Addresses /\ d.len \in 1..(Space - PageSize) /\ "io" \in Attributes
    BY MmuAssumption DEF SaneBoard, Attributes
  <2>3. SaneTable' /\ RegionMapped'
    BY <1>0, <2>1, <2>2, AddMaps
  <2>4. phase' = "devices"
    BY <1>2 DEF DeviceMap
  <2> QED
    BY <2>3, <2>4 DEF RegionInv, TopAbove, NoneYet
<1>3. CASE Count
  <2>1. UNCHANGED <<table, last>> /\ phase = "count" /\ phase' = "memtop"
    BY <1>3 DEF Count
  <2> QED
    BY <2>1 DEF RegionInv, SaneTable, TopAbove, NoneYet, RegionMapped, WellFormed
<1>4. CASE sysPhysMemTop
  <2>1. TopEntry \in 1..Slots /\ table[TopEntry] \in Entries
    BY <1>0, MmuAssumption DEF TypeOK
  <2>2. PICK new : table' = [table EXCEPT ![TopEntry].len = new]
    BY <1>4 DEF sysPhysMemTop
  <2>3. table'[TopEntry].virt >= PageSize
    BY <1>0, <1>4, <2>1, <2>2 DEF RegionInv, TopAbove, sysPhysMemTop, TypeOK, Entries
  <2>4. SaneTable'
    BY <1>0, <2>1, <2>2, <2>3 DEF SaneTable, Sane, TypeOK
  <2>5. last'.call.length = 0 /\ phase' = "e820"
    BY <1>4 DEF RegionInv, NoneYet, sysPhysMemTop
  <2> QED
    BY <2>4, <2>5 DEF RegionInv, TopAbove, NoneYet, RegionMapped, WellFormed
<1>5. CASE E820End \/ UNCHANGED vars
  <2>1. UNCHANGED <<table, numEnt, last>> /\ phase' \in {phase, "devices"}
    BY <1>5 DEF E820End, vars
  <2> QED
    BY <2>1 DEF RegionInv, SaneTable, TopAbove, NoneYet, RegionMapped, Active, Entry
<1> QED
  BY <1>1, <1>2, <1>3, <1>4, <1>5 DEF Next

\* The static entries are sane, and nothing has been asked for.
LEMMA InitRegionInv ==
  ASSUME SaneBoard, Init
  PROVE  RegionInv
<1>1. Sane(DUMMY_MMU_ENTRY)
  <2>1. Space - 1 >= PageSize
    BY MmuAssumption
  <2> QED
    BY <2>1 DEF Sane, DUMMY_MMU_ENTRY, DUMMY_VIRT_ADDR
<1>2. SaneTable
  BY <1>1 DEF Init, SaneTable, SaneBoard
<1>3. table[TopEntry] = Static[TopEntry]
  BY MmuAssumption DEF Init
<1>4. last.call.length = 0
  BY DEF Init, NoCall
<1> QED
  BY <1>2, <1>3, <1>4 DEF RegionInv, TopAbove, NoneYet, RegionMapped,
                          WellFormed, SaneBoard

\* On a board without empty regions, a call of sysMmuMapAdd that returned OK has
\* left every page of its region mapped with the attributes asked for,
\* whatever entries the region met and however often the table was added to.
THEOREM RegionsMapped ==
  ASSUME SaneBoard
  PROVE  Spec => []RegionMapped
<1>1. Init => RegionInv
  BY SaneBoard, InitRegionInv
<1>2. MapInv /\ RegionInv /\ [Next]_vars => RegionInv'
  BY SaneBoard, RegionStep
<1> QED
  BY <1>1, <1>2, MapInvariant, PTL DEF Spec, RegionInv
-----------------------------------------------------------------------------
(* What is refused.                                                        *)

\* The slots behind the active entries are dummies, once these are counted.
Free == \A i \in 1..Slots : i > numEnt => table[i].virt = DUMMY_VIRT_ADDR

FreeBehind ==
  IF phase = "count"
  THEN \A i \in 1..Slots : table[i] = IF i \in DOMAIN Static THEN Static[i]
                                    ELSE DUMMY_MMU_ENTRY
  ELSE Free

\* A page boundary is a multiple of the page size.
LEMMA RoundDownMod ==
  ASSUME NEW n \in Nat
  PROVE  Round_down(n) % PageSize = 0
<1> DEFINE k == n \div PageSize
<1>1. PageSize \in Nat \ {0}
  BY MmuAssumption
<1>2. k \in Nat
  BY <1>1
<1>3. Round_down(n) = k * PageSize
  BY DEF Round_down
<1> HIDE DEF k
<1>4. (k * PageSize) % PageSize = 0
  BY <1>1, <1>2
<1> QED
  BY <1>3, <1>4

\* An entry that a region meets holds the region's first or its last page.
LEMMA MeetsHolds ==
  ASSUME NEW e \in Entries, Sane(e), NEW s \in Addresses, NEW t \in Addresses,
         s <= t, Meets(e, s, t)
  PROVE  Holds(e, s) \/ Holds(e, t)
<1> DEFINE m == MapEnd(e)
<1>1. /\ PageSize \in Nat \ {0} /\ e.virt \in Nat /\ e.len \in Nat
      /\ s \in Nat /\ t \in Nat /\ m \in Nat /\ m <= e.virt + e.len - PageSize
  BY MapEndInside, MmuAssumption DEF Entries, Addresses
<1>2. \/ s >= e.virt /\ t <= m
      \/ s >= e.virt /\ s < m
      \/ t <= m /\ t > e.virt
  BY DEF Meets, Contained, TopOverlap, BottomOverlap, MapStart
<1> HIDE DEF m
<1> QED
  BY <1>1, <1>2 DEF Holds
\* A call that returns ERROR has met a page mapped otherwise, or no slot was free.
LEMMA AddRefuses ==
  ASSUME TypeOK, SaneTable, Free, Sane(Behind), NEW a \in Addresses,
         NEW l \in 1..(Space - PageSize), NEW attr \in Attributes,
         sysMmuMapAdd(a, l, attr)
  PROVE  Free' /\ ErrorHasReason'
<1>0. /\ PageSize \in Nat \ {0} /\ Space \in Nat /\ Space > PageSize
      /\ Slots \in Nat /\ numEnt \in 0..(Slots + 1)
  BY MmuAssumption DEF TypeOK
<1>1. PICK s : s = PageStart(a)
  OBVIOUS
<1>2. PICK L : L = PageLength(l)
  OBVIOUS
<1>3. PICK t : t = PageEnd(s, L)
  OBVIOUS
<1>4. PICK q : q = [start |-> s, length |-> L, attr |-> attr]
  OBVIOUS
<1>5. /\ s \in Addresses /\ L \in Addresses /\ t \in Addresses
      /\ L >= PageSize
      /\ s + L <= Space =>
           \A p \in Addresses : p % PageSize = 0 /\ p < s + L => p <= t
  BY <1>1, <1>2, <1>3, Region
<1>6. \A i \in Active : Sane(Entry(i)) /\ Entry(i) \in Entries
  BY <1>0, MmuAssumption DEF Active, Entry, SaneTable, TypeOK
<1>7. WellFormed(q) => s \in Pages(q) /\ t \in Pages(q) /\ s <= t
  <2> SUFFICES ASSUME WellFormed(q) PROVE s \in Pages(q) /\ t \in Pages(q) /\ s <= t
    OBVIOUS
  <2> DEFINE n == s + L - 1
  <2>1. s + L <= Space /\ n \in Addresses /\ n \in Nat /\ a \in Nat
    BY <1>0, <1>4, <1>5 DEF WellFormed, Addresses
  <2> HIDE DEF n
  <2>2. t = Round_down(n)
    BY <1>3, <2>1, ModOfAddress DEF PageEnd, n
  <2>3. s % PageSize = 0 /\ t % PageSize = 0 /\ t <= n
    BY <1>1, <2>1, <2>2, RoundDown, RoundDownMod DEF PageStart
  <2>4. s <= t
    <3>1. s < s + L
      BY <1>0, <1>5 DEF Addresses
    <3> QED
      BY <1>5, <2>1, <2>3, <3>1
  <2>5. t < s + L
    BY <1>0, <1>5, <2>3 DEF Addresses, n
  <2> QED
    BY <1>0, <1>4, <1>5, <2>3, <2>4, <2>5 DEF Pages, Addresses
<1>8. \/ \E i \in Active : IsFirst(i, s, t) /\ ~Alike(Entry(i), attr) /\ Keep(q, "ERROR")
      \/ Keep(q, "OK")
      \/ \E rest : \E n \in {1, 2} : Fill(q, rest, n)
  <2>1. \/ \E i \in 1..numEnt :
              /\ IsFirst(i, s, t)
              /\ \/ ~Alike(Entry(i), attr) /\ Keep(q, "ERROR")
                 \/ /\ Alike(Entry(i), attr)
                    /\ IF Contained(Entry(i), s, t)
                       THEN Keep(q, "OK")
                       ELSE Fill(q, Rest(Entry(i), s, t), 2)
        \/ Fill(q, [virt |-> s, len |-> L], 1)
    BY <1>1, <1>2, <1>3, <1>4 DEF sysMmuMapAdd
  <2> QED
    BY <2>1 DEF Active
<1>9. /\ numEnt' \in 0..(Slots + 1) /\ numEnt' >= numEnt
      /\ \/ UNCHANGED <<table, numEnt>>
         \/ numEnt' > numEnt /\ \E new : table' = [table EXCEPT ![numEnt + 1] = new]
  <2>1. numEnt' \in 0..(Slots + 1) /\ numEnt' >= numEnt
    <3>1. l \in Addresses
      BY <1>0 DEF Addresses
    <3> QED
      BY <3>1, AddKeeps
  <2>2. \/ \E r : Keep(q, r)
        \/ \E rest : \E n \in {1, 2} : Fill(q, rest, n)
    BY <1>8
  <2>3. CASE \E r : Keep(q, r)
    BY <2>1, <2>3 DEF Keep
  <2>4. CASE \E rest : \E n \in {1, 2} : Fill(q, rest, n)
    BY <1>0, <2>1, <2>4 DEF Fill, WrittenSlot, FreeSlot
  <2> QED
    BY <2>2, <2>3, <2>4
<1>10. Free'
  BY <1>0, <1>9 DEF Free, TypeOK
<1>11. ASSUME NEW i \in Active, IsFirst(i, s, t), ~Alike(Entry(i), attr), Keep(q, "ERROR")
       PROVE  ErrorHasReason'
  <2>1. UNCHANGED <<table, numEnt>> /\ last'.call = q
    BY <1>11 DEF Keep
  <2>2. Meets(Entry(i), s, t)
    BY <1>11 DEF IsFirst
  <2>3. WellFormed(q) => \E p \in Pages(q) : Holds(Entry(i), p)
    BY <1>5, <1>6, <1>7, <2>2, MeetsHolds
  <2>4. i \in Active' /\ Entry(i)' = Entry(i) /\ q.attr = attr
    BY <1>4, <2>1 DEF Active, Entry
  <2> QED
    BY <1>11, <2>1, <2>3, <2>4 DEF ErrorHasReason
<1>12. ASSUME ~SlotFree, UNCHANGED <<table, numEnt>>
       PROVE  ErrorHasReason'
  <2>1. numEnt >= Slots
    BY <1>0, <1>12 DEF SlotFree, Entry, FreeSlot, Free
  <2> QED
    BY <1>12, <2>1 DEF ErrorHasReason
<1>13. \/ last'.result = "OK"
       \/ \E i \in Active : IsFirst(i, s, t) /\ ~Alike(Entry(i), attr) /\ Keep(q, "ERROR")
       \/ ~SlotFree /\ UNCHANGED <<table, numEnt>>
  BY <1>8 DEF Keep, Fill
<1>14. CASE last'.result = "OK"
  <2>1. last'.result # "ERROR"
    BY <1>14
  <2> QED
    BY <1>10, <2>1 DEF ErrorHasReason
<1> QED
  BY <1>10, <1>11, <1>12, <1>13, <1>14

RefusalInv == FreeBehind /\ ErrorHasReason /\ (phase = "count" => last.result = "OK")

\* Slots stay free and refusals justified through the start of the board.
LEMMA RefusalStep ==
  ASSUME SaneBoard, MapInv, RegionInv, RefusalInv, [Next]_vars
  PROVE  RefusalInv'
<1>0. TypeOK /\ SaneTable /\ Sane(Behind) /\ (phase # "count" => Free)
  BY DEF MapInv, RegionInv, SaneBoard, RefusalInv, FreeBehind
<1>1. CASE E820Segment
  <2>1. PICK g \in Segments : MayMap(g) /\ sysMmuMapAdd(g.addr, g.len % Space, "application")
    BY <1>1 DEF E820Segment
  <2>2. g.addr \in Addresses
    <3>1. g.addr \in Nat /\ Space \in Nat /\ g.addr < Space
      BY <2>1, MmuAssumption DEF MayMap
    <3> QED
      BY <3>1 DEF Addresses
  <2>3. g.len % Space \in 1..(Space - PageSize) /\ "application" \in Attributes
    BY <2>1 DEF SaneBoard, Attributes
  <2>4. phase = "e820" /\ phase' \in {"e820", "devices"}
    BY <1>1 DEF E820Segment
  <2>5. Free' /\ ErrorHasReason'
    BY <1>0, <2>1, <2>2, <2>3, <2>4, AddRefuses
  <2> QED
    BY <2>4, <2>5 DEF RefusalInv, FreeBehind
<1>2. CASE DeviceMap
  <2>1. PICK d \in Devices : sysMmuMapAdd(d.addr, d.len, "io")
    BY <1>2 DEF DeviceMap
  <2>2. d.addr \in Addresses /\ d.len \in 1..(Space - PageSize) /\ "io" \in Attributes
    BY MmuAssumption DEF SaneBoard, Attributes
  <2>3. phase = "devices" /\ phase' = "devices"
    BY <1>2 DEF DeviceMap
  <2>4. Free' /\ ErrorHasReason'
    BY <1>0, <2>1, <2>2, <2>3, AddRefuses
  <2> QED
    BY <2>3, <2>4 DEF RefusalInv, FreeBehind
<1>3. CASE Count
  <2>1. phase = "count" /\ phase' = "memtop" /\ UNCHANGED <<table, last>>
    BY <1>3 DEF Count
  <2>2. /\ numEnt' \in 0..Slots
        /\ numEnt' < Slots => table[numEnt' + 1].virt = DUMMY_VIRT_ADDR
    BY <1>3 DEF Count
  <2>3. \A i \in 1..Slots : table[i] = IF i \in DOMAIN Static THEN Static[i]
                                     ELSE DUMMY_MMU_ENTRY
    BY <2>1 DEF RefusalInv, FreeBehind
  <2>4. DOMAIN Static = 1..Len(Static) /\ Len(Static) \in Nat /\ Slots \in Nat
    BY MmuAssumption
  <2>5. numEnt' >= Len(Static)
    <3>0. PICK k \in Nat : k = Len(Static)
      BY <2>4
    <3>1. PICK m \in 0..Slots : m = numEnt'
      BY <2>2
    <3> SUFFICES ASSUME m < k PROVE FALSE
      BY <2>4, <3>0, <3>1
    <3>2. m + 1 \in 1..k /\ m + 1 \in 1..Slots /\ m < Slots
      <4>1. k <= Slots
        BY <3>0, MmuAssumption
      <4> QED
        BY <2>4, <4>1
    <3>3. table[m + 1] = Static[m + 1]
      BY <2>3, <2>4, <3>0, <3>2
    <3>4. Static[m + 1].virt # DUMMY_VIRT_ADDR
      BY <2>4, <3>0, <3>2, MmuAssumption
    <3> QED
      BY <2>2, <3>1, <3>2, <3>3, <3>4
  <2>6. Free'
    <3>1. \A i \in 1..Slots : i > numEnt' => table[i] = DUMMY_MMU_ENTRY
      BY <2>2, <2>3, <2>4, <2>5
    <3> QED
      BY <2>1, <3>1 DEF Free, DUMMY_MMU_ENTRY
  <2>7. last'.result = "OK"
    BY <2>1 DEF RefusalInv
  <2> QED
    BY <2>1, <2>6, <2>7 DEF RefusalInv, FreeBehind, ErrorHasReason
<1>4. CASE sysPhysMemTop
  <2>1. phase = "memtop" /\ phase' = "e820" /\ UNCHANGED <<numEnt, last>>
    BY <1>4 DEF sysPhysMemTop
  <2>2. PICK new : table' = [table EXCEPT ![TopEntry].len = new]
    BY <1>4 DEF sysPhysMemTop
  <2>3. TopEntry \in 1..Slots
    BY MmuAssumption
  <2>4. \A i \in 1..Slots : table'[i].virt = table[i].virt
    BY <1>0, <2>2, <2>3 DEF TypeOK, Entries
  <2>5. last'.call.length = 0
    BY <2>1 DEF RegionInv, NoneYet
  <2> QED
    BY <1>0, <2>1, <2>4, <2>5 DEF RefusalInv, FreeBehind, Free, ErrorHasReason, WellFormed
<1>5. CASE E820End \/ UNCHANGED vars
  <2>1. UNCHANGED <<table, numEnt, last>>
    BY <1>5 DEF E820End, vars
  <2>2. phase' = phase \/ (phase # "count" /\ phase' # "count")
    BY <1>5 DEF E820End, vars
  <2> QED
    BY <2>1, <2>2 DEF RefusalInv, FreeBehind, Free, ErrorHasReason, Active, Entry
<1> QED
  BY <1>1, <1>2, <1>3, <1>4, <1>5 DEF Next

\* On such a board sysMmuMapAdd refuses a region only for the reasons its header
\* gives: a page of it is mapped with other attributes, or the table is full.
THEOREM RefusalsJustified ==
  ASSUME SaneBoard
  PROVE  Spec => []ErrorHasReason
<1>1. Init => RegionInv /\ RefusalInv
  BY SaneBoard, InitRegionInv DEF Init, RefusalInv, FreeBehind, ErrorHasReason
<1>2. MapInv /\ RegionInv /\ RefusalInv /\ [Next]_vars => RegionInv' /\ RefusalInv'
  BY SaneBoard, RegionStep, RefusalStep
<1> QED
  BY <1>1, <1>2, MapInvariant, PTL DEF Spec, RefusalInv
=============================================================================
