------------------------------ MODULE PciRoute -------------------------------
(***************************************************************************)
(* Interrupt lines of PCI functions (pciCfgIntStub.c, the part for          *)
(* INCLUDE_SYMMETRIC_IO_MODE): sysPciPirqEnable lists the bridges, then     *)
(* looks up every function in the MP interrupt table, climbing from bridge *)
(* to bridge, and programs the function's INT_LINE and the PIRQ routing of *)
(* the LPC bridge.  sysPciPirqShow climbs alike.  A function visited, and  *)
(* one turn of the climb, is a step.                                       *)
(***************************************************************************)
EXTENDS Integers, Sequences

CONSTANTS
  Machines,       \* [funcs : Seq(function), mp : Seq(MP_INTERRUPT)]
  IoBaseId,       \* glbMpApicIoBaseId
  IoApics,        \* ioApicIntrDrvInitializedCount
  RedEntries,     \* ioApicRedNumEntries
  Firmware,       \* INT_LINE as the firmware leaves it
  MaxFails,       \* bound: failures of hwMemAlloc
  MaxCalls        \* bound: calls

IOAPIC_PIRQA_INT_LVL == 16
N_IOAPIC_PIRQS == 8
Kinds == {"device", "p2p", "cardbus"}
Pirqs == 0..(N_IOAPIC_PIRQS - 1)      \* PIRQA to PIRQH

\* A function in the order of the scan; pri and sec are a bridge's registers,
\* sec is 0 while it is not configured.
Functions == [bus : Nat, dev : Nat, pin : 0..255, kind : Kinds, pri : Nat, sec : Nat]
MP_INTERRUPT == [bus : Nat, dev : Nat, pin : 1..4, intIn : Nat, apic : Nat]

ASSUME RouteAssumption ==
  /\ \A m \in Machines : m.funcs \in Seq(Functions) /\ m.mp \in Seq(MP_INTERRUPT)
  /\ IoBaseId \in Nat /\ IoApics \in Nat /\ RedEntries \in Nat
  /\ Firmware \in 0..255
  /\ MaxFails \in Nat /\ MaxCalls \in Nat

VARIABLES
  machine,     \* what the scan finds
  list,        \* pPciBridgeList: functions by number; pListPri is its last
  stage,       \* "idle", "find", "route" or "show"
  enable,      \* arg.enable
  pos,         \* function the scan is at
  climb,       \* copyBus, copyDev and copyPin, or NoClimb
  line,        \* INT_LINE of each function
  isaOff,      \* PIRQs whose ICH_IRQ_DIS bit is set
  done,        \* the last enabling or disabling that had the whole list
  fails, calls \* failures and calls left

vars == <<machine, list, stage, enable, pos, climb, line, isaOff, done, fails,
          calls>>

NoClimb == [bus |-> -1, dev |-> -1, pin |-> -1]
ERROR == -1
F == machine.funcs
Bridges == {i \in DOMAIN F : F[i].kind # "device"}

Init ==
  /\ machine \in Machines
  /\ list = <<>>
  /\ stage = "idle" /\ enable = FALSE
  /\ pos = 1 /\ climb = NoClimb
  /\ line = [i \in DOMAIN machine.funcs |-> Firmware]
  /\ isaOff = {N_IOAPIC_PIRQS - 1}
  /\ done = "none"
  /\ fails = MaxFails /\ calls = MaxCalls
-----------------------------------------------------------------------------
(* sysPciFindMpEntry and sysPciProgIrq.                                    *)

\* Inputs of the second and further IO APICs follow those of the first.
Irq(e) ==
  IF e.apic > IoBaseId /\ e.apic < IoBaseId + IoApics
  THEN e.intIn + RedEntries * (e.apic - IoBaseId) ELSE e.intIn

Matches(e, bus, dev, pin) == e.bus = bus /\ e.dev = dev /\ e.pin = pin

\* The first entry of the table for that bus, device and pin.
FindMpEntry(bus, dev, pin) ==
  LET hits == {k \in DOMAIN machine.mp : Matches(machine.mp[k], bus, dev, pin)}
  IN  IF hits = {} THEN ERROR
      ELSE Irq(machine.mp[CHOOSE k \in hits : \A j \in hits : k <= j])

\* Every interrupt that is no PIRQ comes to the register of PIRQA.
PirqOfFour(irq) == irq % 4
Pirq(irq) ==
  IF irq - IOAPIC_PIRQA_INT_LVL \in Pirqs THEN irq - IOAPIC_PIRQA_INT_LVL ELSE 0

\* INT_LINE has eight bits.
NeverTooWide(irq) == FALSE
TooWide(irq) == irq > 255

ProgIrq(irq) ==
  IF TooWide(irq) THEN UNCHANGED <<line, isaOff>>
  ELSE /\ line' = IF enable THEN [line EXCEPT ![pos] = irq] ELSE line
       /\ isaOff' = IF enable THEN isaOff \cup {Pirq(irq)}
                    ELSE isaOff \ {Pirq(irq)}
-----------------------------------------------------------------------------
(* sysPciPirqEnable.                                                       *)

PirqEnable(e) ==
  /\ stage = "idle" /\ calls > 0
  /\ calls' = calls - 1
  /\ stage' = "find" /\ pos' = 1 /\ enable' = e
  /\ UNCHANGED <<machine, list, climb, line, isaOff, done, fails>>

\* sysPciFindBridge appends every bridge, again in each call; without memory
\* it returns ERROR, which ends the scan.
FindBridge ==
  /\ stage = "find" /\ pos <= Len(F)
  /\ \/ /\ pos \notin Bridges
        /\ pos' = pos + 1
        /\ UNCHANGED <<stage, list, fails>>
     \/ /\ pos \in Bridges
        /\ list' = Append(list, pos)
        /\ pos' = pos + 1
        /\ UNCHANGED <<stage, fails>>
     \/ /\ pos \in Bridges /\ fails > 0
        /\ fails' = fails - 1
        /\ stage' = "route" /\ pos' = 1
        /\ UNCHANGED list
  /\ UNCHANGED <<machine, enable, climb, line, isaOff, done, calls>>

FindEnd ==
  /\ stage = "find" /\ pos > Len(F)
  /\ stage' = "route" /\ pos' = 1
  /\ UNCHANGED <<machine, list, enable, climb, line, isaOff, done, fails, calls>>

\* sysPciPirqEnable2 and sysPciShowIrq begin alike: the function's own entry,
\* or the way up from it.  Only the former programs anything.
Prog(irq) == IF stage = "route" THEN ProgIrq(irq) ELSE UNCHANGED <<line, isaOff>>
NextFunction == pos' = pos + 1 /\ climb' = NoClimb

Visit ==
  /\ stage \in {"route", "show"} /\ pos <= Len(F) /\ climb = NoClimb
  /\ LET f == F[pos]
         irq == FindMpEntry(f.bus, f.dev, f.pin)
     IN  \/ /\ f.pin \notin 1..4
            /\ NextFunction
            /\ UNCHANGED <<line, isaOff>>
         \/ /\ f.pin \in 1..4 /\ irq # ERROR
            /\ Prog(irq)
            /\ NextFunction
         \/ /\ f.pin \in 1..4 /\ irq = ERROR
            /\ IF list = <<>> THEN NextFunction
               ELSE /\ climb' = [bus |-> f.bus, dev |-> f.dev, pin |-> f.pin]
                    /\ UNCHANGED pos
            /\ UNCHANGED <<line, isaOff>>
  /\ UNCHANGED <<machine, list, stage, enable, done, fails, calls>>

\* The pin on the primary side of bridge b, less one.
SwizzleByOne(b) == (climb.dev + climb.pin) % 4
Swizzle(b) == (climb.dev + climb.pin - 1) % 4
PinPri(b) == IF b.kind = "cardbus" /\ b.pin # 0 THEN b.pin ELSE Swizzle(b)

\* sysPciPirqEnable2 ends at a root bridge; sysPciShowIrq has no such test.
NeverAtRoot(b) == FALSE
AtRoot(b) == stage = "route" /\ b.bus = 0 /\ b.pri = 0

Above == {k \in DOMAIN list : F[list[k]].sec = climb.bus}

Climb ==
  /\ stage \in {"route", "show"} /\ climb # NoClimb
  /\ \/ /\ Above = {}
        /\ NextFunction
        /\ UNCHANGED <<line, isaOff>>
     \/ /\ Above # {}
        /\ LET b == F[list[CHOOSE k \in Above : \A j \in Above : k <= j]]
               pin == PinPri(b) + 1
               irq == FindMpEntry(b.bus, b.dev, pin)
           IN  \/ /\ irq >= IOAPIC_PIRQA_INT_LVL
                  /\ Prog(irq)
                  /\ NextFunction
               \/ /\ irq < IOAPIC_PIRQA_INT_LVL      \* none, or an ISA device's
                  /\ IF AtRoot(b) THEN NextFunction
                     ELSE /\ climb' = [bus |-> b.bus, dev |-> b.dev, pin |-> pin]
                          /\ UNCHANGED pos
                  /\ UNCHANGED <<line, isaOff>>
  /\ UNCHANGED <<machine, list, stage, enable, done, fails, calls>>

Whole == \A i \in Bridges : \E k \in DOMAIN list : list[k] = i

Return ==
  /\ stage \in {"route", "show"} /\ pos > Len(F)
  /\ stage' = "idle"
  /\ done' = IF stage = "route"
             THEN IF Whole THEN IF enable THEN "enabled" ELSE "disabled"
                  ELSE "partial"
             ELSE done
  /\ UNCHANGED <<machine, list, enable, pos, climb, line, isaOff, fails, calls>>

\* sysPciPirqShow.
PirqShow ==
  /\ stage = "idle" /\ calls > 0
  /\ calls' = calls - 1
  /\ stage' = "show" /\ pos' = 1
  /\ UNCHANGED <<machine, list, enable, climb, line, isaOff, done, fails>>

Step == FindBridge \/ FindEnd \/ Visit \/ Climb \/ Return

Next == (\E e \in BOOLEAN : PirqEnable(e)) \/ PirqShow \/ Step

Spec == Init /\ [][Next]_vars

\* One task runs each call to its end.
FairSpec == Spec /\ WF_vars(Step)
-----------------------------------------------------------------------------
(* Reference: what the lines should be, from the tree of buses.            *)

\* The bridges above a bus, from the nearest on; a bus has a greater number than
\* the one its bridge is on.
Up(bus) == {i \in Bridges : F[i].sec = bus /\ F[i].bus < bus}
Nearest(bus) == F[CHOOSE i \in Up(bus) : TRUE]
Path[bus \in Nat] ==
  IF Up(bus) = {} THEN <<>> ELSE <<Nearest(bus)>> \o Path[Nearest(bus).bus]

PathOf(f) == Path[f.bus]

\* On the bus of the k-th bridge above it the function's pin is turned by the
\* device numbers on the way.
Turns(path) ==
  LET sum[k \in Nat] == IF k = 0 THEN 0 ELSE sum[k - 1] + path[k].dev IN sum
PinAt(f, path, k) == 1 + ((f.pin - 1 + f.dev + Turns(path)[k - 1]) % 4)

\* Its interrupt: its own entry, or that of the nearest bridge above it whose
\* slot has one that is not an ISA interrupt.
Interrupt(f) ==
  LET own  == FindMpEntry(f.bus, f.dev, f.pin)
      path == PathOf(f)
      at   == [k \in DOMAIN path |->
                 FindMpEntry(path[k].bus, path[k].dev, PinAt(f, path, k))]
      hits == {k \in DOMAIN path : at[k] >= IOAPIC_PIRQA_INT_LVL}
  IN  IF f.pin \notin 1..4 THEN ERROR
      ELSE IF own # ERROR THEN own
      ELSE IF hits = {} THEN ERROR ELSE at[CHOOSE k \in hits : \A j \in hits : k <= j]

\* Machines as buses are numbered: a bridge's secondary bus has a greater number
\* than the one it is on, and is no other bridge's.
BusTree ==
  \A m \in Machines : \A i, j \in DOMAIN m.funcs :
    m.funcs[i].kind # "device" /\ m.funcs[j].kind # "device" /\ m.funcs[i].sec # 0 =>
      /\ m.funcs[i].bus < m.funcs[i].sec
      /\ m.funcs[i].sec = m.funcs[j].sec => i = j
-----------------------------------------------------------------------------
(* Properties.                                                             *)

\* The variables stay in their ranges; INT_LINE has eight bits.
TypeOK ==
  /\ list \in Seq(Bridges)
  /\ stage \in {"idle", "find", "route", "show"}
  /\ enable \in BOOLEAN
  /\ pos \in 1..(Len(F) + 1)
  /\ climb \in [bus : Nat, dev : Nat, pin : 1..256] \cup {NoClimb}
  /\ line \in [DOMAIN F -> 0..255]
  /\ isaOff \subseteq Pirqs
  /\ done \in {"none", "partial", "enabled", "disabled"}
  /\ fails \in 0..MaxFails /\ calls \in 0..MaxCalls

Configured == \A i \in Bridges : F[i].sec # 0
Plain(f) == LET path == PathOf(f) IN \A k \in DOMAIN path : path[k].kind = "p2p"

\* Every function behind configured PCI-to-PCI bridges keeps its line or gets the
\* one its slot is wired to, however bridges were listed, listed again or
\* missed for lack of memory; once all are listed it has got it.
LineRouted ==
  Configured =>
    \A i \in DOMAIN F :
      (line[i] # Firmware \/ done = "enabled") /\ Plain(F[i]) =>
        LET irq == Interrupt(F[i])
        IN  line[i] = IF irq \in 0..255 THEN irq ELSE Firmware

\* With the whole list, PIRQB to PIRQH are taken from the ISA interrupts by an
\* enabling, and given back by a disabling, exactly if a function uses them; the
\* others stay as the firmware had them.
PirqRouted ==
  stage = "idle" /\ Configured /\ (\A i \in DOMAIN F : Plain(F[i])) =>
    LET used == {Interrupt(F[i]) - IOAPIC_PIRQA_INT_LVL : i \in DOMAIN F}
    IN  \A p \in Pirqs \ {0} :
          IF p \in used
          THEN /\ done = "enabled" => p \in isaOff
               /\ done = "disabled" => p \notin isaOff
          ELSE p \in isaOff <=> p = N_IOAPIC_PIRQS - 1

\* The climb ends, over bridges that are not configured too (lines 534-536);
\* sysPciPirqShow, which lacks that test, only over configured ones.
CallsEnd ==
  /\ stage \in {"find", "route"} ~> stage = "idle"
  /\ (stage = "show" /\ Configured) ~> stage = "idle"

\* sysPciPirqShow ends on every machine sysPciPirqEnable ends on.
ShowEnds == stage = "show" ~> stage = "idle"

\* A function behind a CardBus bridge gets the interrupt of the pin the bridge
\* reports (line 245, "bridge's int pin").
CardbusRouted ==
  Configured /\ done = "enabled" =>
    \A i \in DOMAIN F :
      LET up == PathOf(F[i]) IN
      Len(up) > 0 /\ up[1].kind = "cardbus" /\ up[1].pin \in 1..4
        /\ F[i].pin \in 1..4 /\ FindMpEntry(F[i].bus, F[i].dev, F[i].pin) = ERROR =>
          LET irq == FindMpEntry(up[1].bus, up[1].dev, up[1].pin)
          IN  irq \in IOAPIC_PIRQA_INT_LVL..255 => line[i] = irq
=============================================================================
