------------------------------- MODULE WindMl --------------------------------
(***************************************************************************)
(* The WindML interface (sysWindML.c): sysWindMLHwInit makes a descriptor, *)
(* from a fixed pool, of each PCI display and audio function; clients get  *)
(* a descriptor of a kind of device, control it, and release it.  What     *)
(* pciConfigForeachFunc, bufLib and intConnect do is external.             *)
(***************************************************************************)
EXTENDS Integers, Sequences, FiniteSets

CONSTANTS
  WmMachines,   \* PCI functions in the order of pciConfigForeachFunc:
                \* [ven, dev, class, line], identifiers "0" for zero
  WmMaxDev,     \* WINDML_MAX_DEV
  WmMaxGets,    \* bound: descriptors of keyboards and pointers given out
  WmMaxShares   \* bound: clients of one PCI function

WmTypes == {"graphics", "keyboard", "pointer", "audio"}
KBD_INT_LVL == 1
MSE_INT_LVL == 12
NoVector == -1      \* intVector is NULL
EpsonDisplay == <<"EPSON", "13XXX">>
VgaIds == <<"GENERIC_VGA", "VGA">>

ASSUME WmAssumption ==
  /\ \A m \in WmMachines : m \in Seq({m[k] : k \in DOMAIN m})
  /\ \A m \in WmMachines : \A k \in DOMAIN m :
       /\ "0" \notin {m[k].ven, m[k].dev} /\ <<m[k].ven, m[k].dev>> # VgaIds
       /\ m[k].line \in Nat
  /\ WmMaxDev \in Nat \ {0}
  /\ WmMaxGets \in Nat /\ WmMaxShares \in Nat

VARIABLES
  wmFns,       \* the functions of this machine
  wmPos,       \* function pciConfigForeachFunc is at
  wmFree,      \* windMlBufPool: free descriptors, the next one first
  wmDesc,      \* windMlDevPool
  wmDisplays,  \* pciDisplayDevs
  wmAudios,    \* pciMmAudioDevs
  wmVga,       \* vgaCreated
  wmHeld,      \* descriptors clients got and did not release: a bag
  wmCommand,   \* <<descriptor, function>> of the last WINDML_ACCESS_MODE_SET
  wmHandlers,  \* connected interrupts: <<line, descriptor>>
  wmLines,     \* enabled lines
  wmOn         \* devices whose interrupt a client enabled and did not disable

wmTables == <<wmFns, wmPos, wmDisplays, wmAudios>>
wmPool == <<wmFree, wmDesc, wmVga, wmHeld>>
wmInts == <<wmHandlers, wmLines, wmOn>>
wmVars == <<wmTables, wmPool, wmCommand, wmInts>>

Blank == [type |-> "none", ven |-> "0", dev |-> "0", inst |-> 0, pci |-> FALSE,
          base |-> 0, line |-> 0, vector |-> NoVector]

\* sysWindMLHwInit, up to the walk over the functions.
WmInit ==
  /\ wmFns \in WmMachines
  /\ wmPos = 1
  /\ wmFree = [k \in 1..WmMaxDev |-> k]
  /\ wmDesc = [p \in 1..WmMaxDev |-> Blank]
  /\ wmDisplays = <<>> /\ wmAudios = <<>> /\ wmVga = FALSE
  /\ wmHeld = [p \in 1..WmMaxDev |-> 0]
  /\ wmCommand = <<0, 0>>
  /\ wmHandlers = {} /\ wmLines = {} /\ wmOn = {}
-----------------------------------------------------------------------------
(* The pool and the tables.                                                *)

\* sysWindMlDescAlloc with the bzero and the assignments that follow it.
Made(rec) ==
  /\ wmFree # <<>>
  /\ wmFree' = Tail(wmFree)
  /\ wmDesc' = [wmDesc EXCEPT ![Head(wmFree)] = rec]

SameIds(p, v, d) == wmDesc[p].ven = v /\ wmDesc[p].dev = d

\* Number of entries of a table for which the instance counts one up.
ByPosition(table, v, d) == Len(table)
Ordinal(table, v, d) == Cardinality({k \in DOMAIN table : SameIds(table[k], v, d)})

TypeOf(f) == IF f.class = "display" \/ <<f.ven, f.dev>> = EpsonDisplay
             THEN "graphics"
             ELSE IF f.class = "audio" THEN "audio" ELSE "none"

\* sysWindMlPciDevMap reads the base addresses, which tell one function from
\* another, and leaves the command register as it was.
PhysBaseAdrs(pos) == pos

\* sysWindMlPciInit: always OK, so the walk goes on when the pool is empty.
WmPciInit ==
  /\ wmPos <= Len(wmFns)
  /\ wmPos' = wmPos + 1
  /\ LET f == wmFns[wmPos]
         Rec(table) ==
           [type |-> TypeOf(f), ven |-> f.ven, dev |-> f.dev, pci |-> TRUE,
            inst |-> Ordinal(table, f.ven, f.dev), base |-> PhysBaseAdrs(wmPos),
            line |-> f.line, vector |-> f.line]
     IN  \/ /\ TypeOf(f) = "graphics"
            /\ Made(Rec(wmDisplays))
            /\ wmDisplays' = Append(wmDisplays, Head(wmFree))
            /\ UNCHANGED wmAudios
         \/ /\ TypeOf(f) = "audio"
            /\ Made(Rec(wmAudios))
            /\ wmAudios' = Append(wmAudios, Head(wmFree))
            /\ UNCHANGED wmDisplays
         \/ /\ TypeOf(f) = "none" \/ wmFree = <<>>
            /\ UNCHANGED <<wmFree, wmDesc, wmDisplays, wmAudios>>
  /\ UNCHANGED <<wmFns, wmVga, wmHeld, wmCommand, wmInts>>
-----------------------------------------------------------------------------
(* The interface.                                                          *)

WmReady == wmPos > Len(wmFns)
Given(p) == wmHeld' = [wmHeld EXCEPT ![p] = @ + 1]

\* An entry a client asked for: by place, by vendor, or by vendor and device.
Asked(table, v, d) ==
  {k \in DOMAIN table : \/ v = "0" /\ d = "0"
                        \/ wmDesc[table[k]].ven = v /\ d \in {"0", wmDesc[table[k]].dev}}
Nth(s, n) == {k \in s : Cardinality({j \in s : j < k}) = n}

\* sysWindMLDevGet, when it finds an entry of a table.
WmGetEntry(type, n, v, d) ==
  /\ WmReady
  /\ LET table == IF type = "graphics" THEN wmDisplays ELSE wmAudios
     IN  \E k \in Nth(Asked(table, v, d), n) : wmHeld[table[k]] < WmMaxShares /\ Given(table[k])
  /\ UNCHANGED <<wmTables, wmFree, wmDesc, wmVga, wmCommand, wmInts>>

\* Without a PCI display, one VGA device.
WmGetVga(n) ==
  /\ WmReady /\ wmDisplays = <<>> /\ ~wmVga
  /\ Made([Blank EXCEPT !.type = "graphics", !.ven = VgaIds[1], !.dev = VgaIds[2],
                        !.inst = n])
  /\ Given(Head(wmFree))
  /\ wmVga' = TRUE
  /\ UNCHANGED <<wmTables, wmCommand, wmInts>>

\* A keyboard or a pointer: a new descriptor each time.
WmGetInput(type, n) ==
  /\ WmReady
  /\ LET line == IF type = "keyboard" THEN KBD_INT_LVL ELSE MSE_INT_LVL
     IN  Made([Blank EXCEPT !.type = type, !.inst = n, !.line = line, !.vector = line])
  /\ Given(Head(wmFree))
  /\ UNCHANGED <<wmTables, wmVga, wmCommand, wmInts>>

\* pciFindDevice: the function with those identifiers and that many before it.
PciFind(v, d, n) == Nth({k \in DOMAIN wmFns : wmFns[k].ven = v /\ wmFns[k].dev = d}, n)

\* sysWindMLDevCtrl with WINDML_ACCESS_MODE_SET; WINDML_PCI_MEMBASE_GET only
\* stores 0 (and answers ERROR).
WmAccessModeSet(p) ==
  /\ wmHeld[p] > 0
  /\ \E fn \in PciFind(wmDesc[p].ven, wmDesc[p].dev, wmDesc[p].inst) :
       wmCommand' = <<p, fn>>
  /\ UNCHANGED <<wmTables, wmPool, wmInts>>

\* sysWindMLDevRelease, by a client that will not use the descriptor again.
FreesAll(p) == TRUE
FreesIt(p) == ~wmDesc[p].pci
WmDevRelease(p) ==
  /\ wmHeld[p] > 0 /\ p \notin wmOn
  /\ wmHeld' = [wmHeld EXCEPT ![p] = @ - 1]
  /\ wmFree' = IF FreesIt(p) THEN <<p>> \o wmFree ELSE wmFree
  /\ UNCHANGED <<wmTables, wmDesc, wmVga, wmCommand, wmInts>>

\* sysWindMLIntConnect: nothing without a vector.
WmIntConnect(p) ==
  /\ wmHeld[p] > 0 /\ wmDesc[p].vector # NoVector
  /\ wmHandlers' = wmHandlers \cup {<<wmDesc[p].vector, p>>}
  /\ UNCHANGED <<wmTables, wmPool, wmCommand, wmLines, wmOn>>

\* sysWindMLIntEnable and sysWindMLIntDisable: the line of the device.
WmIntEnable(p) ==
  /\ wmHeld[p] > 0
  /\ wmLines' = wmLines \cup {wmDesc[p].line}
  /\ wmOn' = wmOn \cup {p}
  /\ UNCHANGED <<wmTables, wmPool, wmCommand, wmHandlers>>
WmIntDisable(p) ==
  /\ wmHeld[p] > 0
  /\ wmLines' = wmLines \ {wmDesc[p].line}
  /\ wmOn' = wmOn \ {p}
  /\ UNCHANGED <<wmTables, wmPool, wmCommand, wmHandlers>>

WmInputs == {p \in DOMAIN wmHeld : wmHeld[p] > 0 /\ wmDesc[p].type \in {"keyboard", "pointer"}}
WmIds == {<<"0", "0">>} \cup {<<wmFns[k].ven, "0">> : k \in DOMAIN wmFns}
                        \cup {<<wmFns[k].ven, wmFns[k].dev>> : k \in DOMAIN wmFns}
WmNext ==
  \/ WmPciInit
  \/ \E n \in 0..(Len(wmFns) - 1), id \in WmIds, type \in {"graphics", "audio"} :
       WmGetEntry(type, n, id[1], id[2])
  \/ WmGetVga(0)
  \/ \E type \in {"keyboard", "pointer"} :
       Cardinality(WmInputs) < WmMaxGets /\ WmGetInput(type, 0)
  \/ \E p \in 1..WmMaxDev : \/ WmAccessModeSet(p) \/ WmDevRelease(p)
                            \/ WmIntConnect(p) \/ WmIntEnable(p) \/ WmIntDisable(p)

WmSpec == WmInit /\ [][WmNext]_wmVars

\* What the proofs assume of machines: functions with the same identifiers are of
\* the same class.
IdsTellClass ==
  \A m \in WmMachines : \A j, k \in DOMAIN m :
    m[j].ven = m[k].ven /\ m[j].dev = m[k].dev => m[j].class = m[k].class
-----------------------------------------------------------------------------
(* Properties.                                                             *)

\* Every variable stays in its type.
WmTypeOK ==
  /\ wmFns \in WmMachines
  /\ wmPos \in Nat
  /\ wmFree \in Seq(1..WmMaxDev)
  /\ DOMAIN wmDesc = 1..WmMaxDev
  /\ \A p \in 1..WmMaxDev : /\ wmDesc[p].type \in WmTypes \cup {"none"}
                            /\ wmDesc[p].pci \in BOOLEAN
                            /\ wmDesc[p].vector \in {wmDesc[p].line, NoVector}
  /\ wmDisplays \in Seq(1..WmMaxDev) /\ wmAudios \in Seq(1..WmMaxDev)
  /\ wmVga \in BOOLEAN
  /\ wmHeld \in [1..WmMaxDev -> Nat]
  /\ wmCommand \in (0..WmMaxDev) \X Nat
  /\ wmLines \subseteq {wmDesc[p].line : p \in 1..WmMaxDev} \cup {KBD_INT_LVL, MSE_INT_LVL, 0}
  /\ wmOn \subseteq 1..WmMaxDev

\* Every descriptor has one owner (lines 158 to 204 and 522 to 544): the free list,
\* the table of its type for good, or the one client that has it; clients that
\* release what they got once never make it two.
Times(s, p) == Cardinality({k \in DOMAIN s : s[k] = p})
WmOneOwner ==
  \A p \in 1..WmMaxDev :
    LET tabled == Times(wmDisplays, p) + Times(wmAudios, p)
    IN  /\ Times(wmFree, p) + tabled + (IF wmDesc[p].pci THEN 0 ELSE wmHeld[p]) = 1
        /\ tabled = 1 => wmDesc[p].pci

\* WINDML_ACCESS_MODE_SET writes the command register of the very function that
\* the descriptor's base addresses are of (lines 475 to 488 against 778 to 826).
WmRightFunction ==
  LET p == wmCommand[1]
  IN  p # 0 => wmDesc[p].base = wmCommand[2]

\* A device whose client enabled its interrupt and did not disable it has its
\* line on.  Nothing counts the users of a line, so this is true only where no
\* two devices share one.
WmLineServed == \A p \in wmOn : wmDesc[p].line \in wmLines
=============================================================================
