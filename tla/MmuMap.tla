------------------------------- MODULE MmuMap --------------------------------
(***************************************************************************)
(* The table of memory mappings, sysPhysMemDesc (sysLib.c): its active     *)
(* entries are counted, sysPhysMemTop sets the length of the application's *)
(* memory and maps the further segments of the BIOS's E820 map,            *)
(* sysIntInitPIC and the device drivers map their registers, all of it     *)
(* with sysMmuMapAdd, before usrMmuInit turns the table into page tables.  *)
(*                                                                         *)
(* Addresses and lengths are UINT32 in the code: here they are taken       *)
(* modulo Space.                                                           *)
(***************************************************************************)
EXTENDS Integers, Sequences

CONSTANTS
  PageSize,   \* VM_PAGE_SIZE
  Space,      \* size of the address space, 2^32 in the code
  Static,     \* the entries the table is compiled with
  Slots,      \* NELEMENTS (sysPhysMemDesc)
  Behind,     \* what the memory behind the table looks like, read as an entry
  TopEntry,   \* number of the entry whose length sysPhysMemTop sets
  LocalMem,   \* LOCAL_MEM_LOCAL_ADRS, where the kernel is
  MemTop,     \* top of memory the BIOS reports
  MinSegment, \* PAGE_SIZE_4MB, the least length of a segment that is mapped
  Segments,   \* E820 entries the BIOS may report: [usable, addr, len]
  Devices,    \* regions drivers map: [addr, len]
  MaxAdds     \* bound: calls of sysMmuMapAdd

Addresses == 0..(Space - 1)
DUMMY_VIRT_ADDR == Space - 1                    \* -1
Attributes == {"os", "application", "io", "dummy"}
Entries == [virt : Addresses, phys : Addresses, len : Addresses,
            attr : Attributes]
DUMMY_MMU_ENTRY ==
  [virt |-> DUMMY_VIRT_ADDR, phys |-> Space - 1, len |-> Space - 1,
   attr |-> "dummy"]

ASSUME MmuAssumption ==
  /\ PageSize \in Nat \ {0, 1}
  /\ Space \in Nat /\ Space > PageSize /\ Space % PageSize = 0
  /\ Slots \in Nat
  /\ Static \in Seq(Entries) /\ Len(Static) <= Slots
  /\ \A i \in DOMAIN Static : Static[i].virt # DUMMY_VIRT_ADDR
  /\ Behind \in Entries /\ Behind.virt # DUMMY_VIRT_ADDR
  /\ TopEntry \in DOMAIN Static
  /\ LocalMem \in Addresses /\ MemTop \in Addresses /\ MinSegment \in Nat
  /\ Segments \subseteq [usable : BOOLEAN, addr : Nat, len : Nat]
  /\ Devices \subseteq [addr : Addresses, len : Addresses]
  /\ MaxAdds \in Nat

VARIABLES
  table,    \* sysPhysMemDesc
  numEnt,   \* sysPhysMemDescNumEnt
  phase,    \* how far sysHwInit has come
  last,     \* the last call of sysMmuMapAdd and its result
  adds      \* calls left

vars == <<table, numEnt, phase, last, adds>>

NoCall == [start |-> 0, length |-> 0, attr |-> "dummy"]

Init ==
  /\ table = [i \in 1..Slots |-> IF i \in DOMAIN Static THEN Static[i]
                                 ELSE DUMMY_MMU_ENTRY]
  /\ numEnt = 0
  /\ phase = "count"
  /\ last = [call |-> NoCall, result |-> "OK"]
  /\ adds = MaxAdds
-----------------------------------------------------------------------------
(* sysMmuMapAdd.                                                           *)

Round_down(n) == (n \div PageSize) * PageSize
Round_up(n)   == Round_down((n + PageSize - 1) % Space)

PageLength(length)     == Round_up(length)
PageStart(address)     == Round_down(address)
PageEnd(start, length) == Round_down((start + length - 1) % Space)

Entry(i)    == IF i <= Slots THEN table[i] ELSE Behind
MapStart(e) == e.virt
MapEnd(e)   == (e.virt + e.len - PageSize) % Space

\* How the pages from s to t lie against an entry.  A region that holds the
\* whole entry, or only touches its last page from above or its first page from
\* below, counts as none of the three.
Contained(e, s, t) == s >= MapStart(e) /\ t <= MapEnd(e)
TopOverlap(e, s, t) == s >= MapStart(e) /\ t > MapEnd(e) /\ s < MapEnd(e)
BottomOverlapWide(e, s, t) ==
  s < MapStart(e) /\ t <= MapEnd(e) /\ t >= MapStart(e) - PageSize
BottomOverlap(e, s, t) == s < MapStart(e) /\ t <= MapEnd(e) /\ t > MapStart(e)
Meets(e, s, t) ==
  Contained(e, s, t) \/ TopOverlap(e, s, t) \/ BottomOverlap(e, s, t)

Alike(e, attr) == e.attr = attr /\ e.virt = e.phys

\* The loop stops at the first active entry the region meets.
IsFirst(i, s, t) ==
  /\ i \in 1..numEnt /\ Meets(Entry(i), s, t)
  /\ \A j \in 1..(i - 1) : ~Meets(Entry(j), s, t)

\* What is left to be mapped of the pages from s to t.
RestLost(e, s, t) ==
  IF TopOverlap(e, s, t)
  THEN [virt |-> (MapEnd(e) + PageSize) % Space, len |-> t - MapEnd(e) - PageSize]
  ELSE [virt |-> s, len |-> MapStart(e) - s]

Rest(e, s, t) ==
  IF TopOverlap(e, s, t)
  THEN [virt |-> (MapEnd(e) + PageSize) % Space, len |-> t - MapEnd(e)]
  ELSE [virt |-> s, len |-> MapStart(e) - s]

\* The slot that is tested for a new mapping, and the one it is written to.
FreeSlot == numEnt + 1
LastSlot == numEnt
WrittenSlot == FreeSlot
SlotUnchecked == TRUE
SlotFree == Entry(FreeSlot).virt = DUMMY_VIRT_ADDR

\* ERROR if that slot is no dummy; else it is filled and n entries more are
\* active.
Fill(q, rest, n) ==
  \/ /\ SlotFree
     /\ table' = [table EXCEPT ![WrittenSlot] =
          [virt |-> rest.virt, phys |-> rest.virt, len |-> rest.len,
           attr |-> q.attr]]
     /\ numEnt' = numEnt + n
     /\ last' = [call |-> q, result |-> "OK"]
  \/ /\ ~SlotFree
     /\ last' = [call |-> q, result |-> "ERROR"]
     /\ UNCHANGED <<table, numEnt>>

Keep(q, result) == /\ last' = [call |-> q, result |-> result]
                   /\ UNCHANGED <<table, numEnt>>

\* After an overlap noOverlap is still TRUE, so the slot is written twice and
\* counted twice.
sysMmuMapAdd(address, length, attr) ==
  LET s == PageStart(address)
      L == PageLength(length)
      t == PageEnd(s, L)
      q == [start |-> s, length |-> L, attr |-> attr]
  IN  /\ adds > 0
      /\ adds' = adds - 1
      /\ \/ \E i \in 1..numEnt :
              /\ IsFirst(i, s, t)
              /\ \/ ~Alike(Entry(i), attr) /\ Keep(q, "ERROR")
                 \/ /\ Alike(Entry(i), attr)
                    /\ IF Contained(Entry(i), s, t)
                       THEN Keep(q, "OK")
                       ELSE Fill(q, Rest(Entry(i), s, t), 2)
         \/ /\ ~\E i \in 1..numEnt : IsFirst(i, s, t)
            /\ Fill(q, [virt |-> s, len |-> L], 1)
-----------------------------------------------------------------------------
(* sysHwInit.                                                              *)

\* The entries before the first dummy are the active ones.
Count ==
  /\ phase = "count"
  /\ numEnt' \in 0..Slots
  /\ \A i \in 1..numEnt' : table[i].virt # DUMMY_VIRT_ADDR
  /\ numEnt' < Slots => table[numEnt' + 1].virt = DUMMY_VIRT_ADDR
  /\ phase' = "memtop"
  /\ UNCHANGED <<table, last, adds>>

\* sysPhysMemTop: the application's memory ends at memTopPhys.
sysPhysMemTop ==
  /\ phase = "memtop"
  /\ table' = [table EXCEPT ![TopEntry].len =
                 (Round_down(MemTop) - table[TopEntry].phys) % Space]
  /\ phase' = "e820"
  /\ UNCHANGED <<numEnt, last, adds>>

\* Its loop over the E820 map: usable segments of 32 bits, but for the first
\* and the one of the kernel, and long enough.
MayMap(g) ==
  /\ g.usable
  /\ g.addr \notin {0, LocalMem}
  /\ g.addr < Space
  /\ g.len >= MinSegment

\* The loop ends with the map, or with a segment that cannot be mapped.
E820Segment ==
  /\ phase = "e820"
  /\ \E g \in Segments :
       /\ MayMap(g)
       /\ sysMmuMapAdd(g.addr, g.len % Space, "application")
  /\ phase' = IF last'.result = "ERROR" THEN "devices" ELSE phase

E820End ==
  /\ phase = "e820"
  /\ phase' = "devices"
  /\ UNCHANGED <<table, numEnt, last, adds>>

\* sysIntInitPIC for the APICs, then the drivers: the result is not looked at.
DeviceMap ==
  /\ phase = "devices"
  /\ \E d \in Devices : sysMmuMapAdd(d.addr, d.len, "io")
  /\ UNCHANGED phase

Next == Count \/ sysPhysMemTop \/ E820Segment \/ E820End \/ DeviceMap

Spec == Init /\ [][Next]_vars
-----------------------------------------------------------------------------
(* Properties.                                                             *)

Results == {"OK", "ERROR"}
Requests == [start : Addresses, length : Addresses, attr : Attributes]

\* The table keeps its size; after an overlap in the last slot the count is one
\* more than that.
TypeOK ==
  /\ table \in [1..Slots -> Entries]
  /\ numEnt \in 0..(Slots + 1)
  /\ phase \in {"count", "memtop", "e820", "devices"}
  /\ last \in [call : Requests, result : Results]
  /\ adds \in 0..MaxAdds

\* The pages of an entry and of a request.  A request that does not wrap round
\* the address space is well formed.
Holds(e, p) == e.virt <= p /\ p < e.virt + e.len
Pages(q) == {p \in Addresses : p % PageSize = 0 /\ q.start <= p
                                /\ p < q.start + q.length}
WellFormed(q) == q.length > 0 /\ q.start + q.length <= Space
Active == 1..numEnt

\* No entry begins inside page zero, and one that begins with it has a page.
Sane(e) == e.virt >= PageSize \/ (e.virt = 0 /\ e.len >= PageSize)

\* What a real board gives: the table is compiled with such entries, page zero
\* is not the application's memory, and no region is empty or the whole
\* address space.
SaneBoard ==
  /\ \A i \in DOMAIN Static : Sane(Static[i])
  /\ Sane(Behind)
  /\ Static[TopEntry].virt >= PageSize
  /\ \A d \in Devices : d.len \in 1..(Space - PageSize)
  /\ \A g \in Segments : MayMap(g) => g.len % Space \in 1..(Space - PageSize)

\* Once the top of memory is set, no call changes, drops or disables a mapping
\* an earlier call has made.
MappingsKept ==
  [][phase # "memtop" =>
       /\ numEnt' >= numEnt
       /\ \A i \in Active \cap 1..Slots : table'[i] = table[i]]_vars

\* A call that returned OK has left every page of its region mapped as asked,
\* whichever entries it lay across.
RegionMapped ==
  last.result = "OK" /\ WellFormed(last.call) =>
    \A p \in Pages(last.call) : \E i \in Active :
      Holds(Entry(i), p) /\ Alike(Entry(i), last.call.attr)

\* A call returns ERROR only when a page of the region is mapped otherwise or
\* no slot is free (lines 2471-2475).
ErrorHasReason ==
  last.result = "ERROR" /\ WellFormed(last.call) =>
    \/ numEnt >= Slots
    \/ \E i \in Active, p \in Pages(last.call) :
         Holds(Entry(i), p) /\ ~Alike(Entry(i), last.call.attr)

\* sysPhysMemDescNumEnt is the "number Mmu entries to be mapped" (line 435):
\* every entry it counts is a mapping.
ActiveAreMappings == \A i \in Active : Entry(i) # DUMMY_MMU_ENTRY

\* "If the current memory region contains some pages which had been mapped with
\* different attributes previously, this routine will do nothing and return an
\* ERROR directly" (lines 2471-2473).
ConflictRefused ==
  last.result = "OK" /\ WellFormed(last.call) =>
    \A i \in Active, p \in Pages(last.call) :
      Holds(Entry(i), p) => Alike(Entry(i), last.call.attr)
=============================================================================
