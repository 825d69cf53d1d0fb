------------------------------ MODULE IntLines -------------------------------
(***************************************************************************)
(* Interrupt lines and who uses them: apicIntrIntHelper collects the       *)
(* methods of the APIC drivers device by device, sysIntEnablePIC and       *)
(* sysIntDisablePIC reach the IO APICs through them (sysLib.c), and the    *)
(* USB stack counts the users of each line (usbPciStub.c).  A task of the  *)
(* stack may be delayed between any two of its steps.                      *)
(***************************************************************************)
EXTENDS Integers, Sequences, SequencesExt

CONSTANTS
  IrqMachines,  \* devices in the order of vxbDevIterate: [mp, lo : BOOLEAN, io : lines]
  UsbUsers,     \* tasks that connect and restore interrupts
  UsbFunc,      \* the handler each user connects; its param is the user
  UsbLines,     \* lines the users ask for
  UsbSerial     \* the users' calls do not overlap

MAX_INT_NO == 256
INT_NUM_LOAPIC_SPURIOUS == 255
UINT16_MAX == 65535
NoLine == -1

ASSUME IrqAssumption ==
  /\ IrqMachines \subseteq Seq([mp : BOOLEAN, lo : BOOLEAN, io : SUBSET Nat])
  /\ UsbFunc \in [UsbUsers -> STRING]
  /\ UsbLines \subseteq Nat
  /\ UsbSerial \in BOOLEAN

VARIABLES
  irqDevs,     \* the devices of this machine
  irqPos,      \* device the iteration is at
  irqPtr,      \* device behind each method pointer, 0 for NULL
  irqMask,     \* lines whose redirection is on
  irqChain,    \* handlers on each line: <<func, param>>
  irqEoi,      \* routine that intConnect got for each line
  usbUsage,    \* intUsage
  usbPc,       \* where each user is in its call
  usbLine      \* its intNo

irqSetup == <<irqDevs, irqPos, irqPtr>>
irqVars == <<irqSetup, irqMask, irqChain, irqEoi, usbUsage, usbPc, usbLine>>

IrqInit ==
  /\ irqDevs \in IrqMachines
  /\ irqPos = 1
  /\ irqPtr = [mp |-> 0, lo |-> 0, io |-> 0, enable |-> 0, disable |-> 0]
  /\ irqMask = {}
  /\ irqChain = [i \in UsbLines |-> <<>>]
  /\ irqEoi = [i \in UsbLines |-> "none"]
  /\ usbUsage = [i \in UsbLines |-> 0]
  /\ usbPc = [u \in UsbUsers |-> "idle"]
  /\ usbLine = [u \in UsbUsers |-> NoLine]
-----------------------------------------------------------------------------
(* sysLib.c.                                                               *)

\* apicIntrIntHelper: a device with a method takes its pointer over; of the two
\* that enable and disable lines a device without them takes it away.
KeepPtr(has, old) == IF has THEN irqPos ELSE old
ResetPtr(has, old) == IF has THEN irqPos ELSE 0

ApicIntrIntHelper ==
  /\ irqPos <= Len(irqDevs)
  /\ LET d == irqDevs[irqPos]
         io == d.io # {}
     IN  irqPtr' = [mp |-> KeepPtr(d.mp, irqPtr.mp), lo |-> KeepPtr(d.lo, irqPtr.lo),
                    io |-> KeepPtr(io, irqPtr.io),
                    enable  |-> ResetPtr(io, irqPtr.enable),
                    disable |-> ResetPtr(io, irqPtr.disable)]
  /\ irqPos' = irqPos + 1
  /\ UNCHANGED <<irqDevs, irqMask, irqChain, irqEoi, usbUsage, usbPc, usbLine>>

\* Without a pointer the method is run on every device that has it.
Reached(ptr) == IF ptr = 0 THEN UNION {irqDevs[k].io : k \in DOMAIN irqDevs}
                ELSE irqDevs[ptr].io

IntEnablePIC(i) == irqMask' = irqMask \cup ({i} \cap Reached(irqPtr.enable))
IntDisablePIC(i) == irqMask' = irqMask \ ({i} \cap Reached(irqPtr.disable))

\* Every interrupt but the spurious one ends with a write to the local APIC.
IntEoiGet(intNum) == IF intNum = INT_NUM_LOAPIC_SPURIOUS THEN "NULL"
                     ELSE "sysLoApicIntEoi"
-----------------------------------------------------------------------------
(* usbPciStub.c.                                                           *)

MayStart(u) ==
  /\ irqPos > Len(irqDevs)
  /\ UsbSerial => \A v \in UsbUsers : usbPc[v] \in {"idle", "on"}

UsbGoto(u, l) == usbPc' = [usbPc EXCEPT ![u] = l]

\* usbPciIntConnect: connect, enable, count; without the line, disconnect.
UsbIntConnect(u, i) ==
  /\ MayStart(u) /\ usbPc[u] = "idle"
  /\ irqChain' = [irqChain EXCEPT ![i] = Append(@, <<UsbFunc[u], u>>)]
  /\ irqEoi' = [irqEoi EXCEPT ![i] = IntEoiGet(i)]
  /\ usbLine' = [usbLine EXCEPT ![u] = i]
  /\ UsbGoto(u, "enable")
  /\ UNCHANGED <<irqSetup, irqMask, usbUsage>>

UsbIntEnable(u) ==
  /\ usbPc[u] = "enable"
  /\ IntEnablePIC(usbLine[u])
  /\ UsbGoto(u, IF usbLine[u] \in Reached(irqPtr.enable) THEN "count" ELSE "undo")
  /\ UNCHANGED <<irqSetup, irqChain, irqEoi, usbUsage, usbLine>>

UsbCount(u) ==
  /\ usbPc[u] = "count"
  /\ usbUsage' = IF usbLine[u] < MAX_INT_NO
                 THEN [usbUsage EXCEPT ![usbLine[u]] = (@ + 1) % 65536] ELSE usbUsage
  /\ UsbGoto(u, "on")
  /\ UNCHANGED <<irqSetup, irqMask, irqChain, irqEoi, usbLine>>

\* usbPciIntRestore: the last user takes the line off.
LastAtOne(i) == usbUsage[i] >= 1
LastUser(i) == i >= MAX_INT_NO \/ usbUsage[i] = 1

UsbIntRestore(u) ==
  /\ MayStart(u) /\ usbPc[u] = "on"
  /\ usbUsage' = [usbUsage EXCEPT ![usbLine[u]] = IF @ = 0 THEN 0 ELSE @ - 1]
  /\ UsbGoto(u, IF LastUser(usbLine[u]) THEN "disable" ELSE "undo")
  /\ UNCHANGED <<irqSetup, irqMask, irqChain, irqEoi, usbLine>>

UsbIntDisable(u) ==
  /\ usbPc[u] = "disable"
  /\ IntDisablePIC(usbLine[u])
  /\ UsbGoto(u, "undo")
  /\ UNCHANGED <<irqSetup, irqChain, irqEoi, usbUsage, usbLine>>

\* INT_DISCONNECT passes the handler and not its parameter: the first entry with
\* that handler goes.
FirstWith(s, f) == CHOOSE k \in DOMAIN s : /\ s[k][1] = f
                                           /\ \A j \in 1..(k - 1) : s[j][1] # f
UsbDisconnect(u) ==
  /\ usbPc[u] = "undo"
  /\ irqChain' = [irqChain EXCEPT ![usbLine[u]] =
                    RemoveAt(@, FirstWith(@, UsbFunc[u]))]
  /\ usbLine' = [usbLine EXCEPT ![u] = NoLine]
  /\ UsbGoto(u, "idle")
  /\ UNCHANGED <<irqSetup, irqMask, irqEoi, usbUsage>>

IrqNext ==
  \/ ApicIntrIntHelper
  \/ \E u \in UsbUsers :
       \/ \E i \in UsbLines : UsbIntConnect(u, i)
       \/ UsbIntEnable(u)
       \/ UsbCount(u)
       \/ UsbIntRestore(u)
       \/ UsbIntDisable(u)
       \/ UsbDisconnect(u)

IrqSpec == IrqInit /\ [][IrqNext]_irqVars
-----------------------------------------------------------------------------
(* Users that count: calls one after the other, a handler of their own, no *)
(* more users than a UINT16 counts, and IO APIC lines that usbPciStub.c    *)
(* counts.                                                                 *)

UsbDiscipline ==
  /\ UsbSerial
  /\ \A u, v \in UsbUsers : UsbFunc[u] = UsbFunc[v] => u = v
  /\ \A m \in IrqMachines : \A k \in DOMAIN m : \A i \in m[k].io : i < MAX_INT_NO
  /\ IsFiniteSet(UsbUsers) /\ Cardinality(UsbUsers) < 65536

\* A machine on which vxBus visits a device without interrupt lines last.
NoApicLast == \A m \in IrqMachines : m # <<>> /\ m[Len(m)].io = {}
-----------------------------------------------------------------------------
(* Properties.                                                             *)

\* Every variable stays in its type.
IrqTypeOK ==
  /\ irqDevs \in IrqMachines
  /\ irqPos \in Nat
  /\ irqPtr \in [{"mp", "lo", "io", "enable", "disable"} -> Nat]
  /\ irqMask \subseteq UsbLines
  /\ irqChain \in [UsbLines -> Seq(STRING \X UsbUsers)]
  /\ irqEoi \in [UsbLines -> {"none", "NULL", "sysLoApicIntEoi"}]
  /\ usbUsage \in [UsbLines -> 0..UINT16_MAX]
  /\ usbPc \in [UsbUsers -> {"idle", "enable", "count", "on", "disable", "undo"}]
  /\ usbLine \in [UsbUsers -> UsbLines \cup {NoLine}]

\* A user whose usbPciIntConnect returned OK (lines 427 to 439) has its handler,
\* with its parameter, on an enabled line until it restores it, whoever else
\* connects and restores; with nobody left the line is off and the count zero.
UsbLineServed ==
  /\ \A u \in UsbUsers :
       usbPc[u] = "on"
         => /\ usbLine[u] \in irqMask
            /\ \E k \in DOMAIN irqChain[usbLine[u]] :
                 irqChain[usbLine[u]][k] = <<UsbFunc[u], u>>
  /\ \A i \in UsbLines :
       (\A u \in UsbUsers : usbLine[u] # i)
         => i \notin irqMask /\ usbUsage[i] = 0 /\ irqChain[i] = <<>>

\* The pointers that apicIntrIntHelper leaves reach the lines of every IO APIC
\* (lines 1939 to 1953): connecting fails only on a line no IO APIC has.
UsbFailsWithoutLine ==
  \A u \in UsbUsers :
    usbPc[u] = "undo" /\ usbLine[u] \in Reached(0) => usbLine[u] \in Reached(irqPtr.enable)
=============================================================================
