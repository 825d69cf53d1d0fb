-------------------------------- MODULE Board --------------------------------
(***************************************************************************)
(* The board: the boot calls the parts, and when it is through the rest of *)
(* the system uses them.  hardWareInterFaceInit lets the serial driver     *)
(* make its channels and apicIntrIntHelper visit the devices, vxbDevInit   *)
(* is the second level of initialization, sysSerialConnectAll connects the *)
(* channels, sysWindMLHwInit walks over the PCI functions, and             *)
(* vxbDevConnect starts the SD monitor.                                    *)
(*                                                                         *)
(* Each behaviour exercises one part next to the boot, the other parts     *)
(* keep their initial state: their variables are disjoint, and no code of  *)
(* one is called by another.                                               *)
(***************************************************************************)
EXTENDS Boot, SioDevices, IntLines, WindMl, SdMonitor, NvRam

VARIABLE part    \* what this behaviour exercises

Parts == {"boot", "sio", "irq", "windml", "sd", "nvram"}
boardVars == <<part, bootVars, sioVars, irqVars, wmVars, sdVars, nvVars>>

\* Of the parts that are not exercised, any one machine.
OneOf(S, p) == IF part = p THEN S ELSE {CHOOSE y \in S : TRUE}

\* The build a part is in: WindML's own devices are in kernels without vxBus, and
\* the SD monitor's processors are those of the kernel.
BuildOf(p) == CASE p = "boot" -> BootBuilds
                [] p = "windml" -> {o \in BootBuilds : "windml" \in o /\ "vxbus" \notin o}
                [] OTHER -> {o \in BootBuilds :
                               /\ {"symmetric", "vxbus", "sioutils", "ns16550", "e820"}
                                    \subseteq o
                               /\ "smp" \in o <=> (p = "sd" => SdSmp)}

BoardInit ==
  /\ part \in Parts
  /\ bootBuild \in OneOf(BuildOf(part), "boot")
  /\ bootLoader \in OneOf(BootLoaders, "boot")
  /\ bootImage \in OneOf(BootImages, "boot")
  /\ sioMachine \in OneOf(SioMachines, "sio")
  /\ irqDevs \in OneOf(IrqMachines, "irq")
  /\ wmFns \in OneOf(WmMachines, "windml")
  /\ sdBoard \in OneOf(SdBoards, "sd")
  /\ BootInit /\ SioInit /\ IrqInit /\ WmInit /\ SdInit /\ NvInit

\* A call of the boot returns when the part has done what it is for.
Returned(call) ==
  \/ part = "boot"
  \/ /\ part = "sio"
     /\ call = "hardWareInterFaceInit" => sioDev > Len(sioMachine)
     /\ call = "vxbDevInit" => sioStage # "init"
     /\ call = "sysSerialConnectAll" => sioStage = "run"
  \/ part = "irq" /\ (call = "apicIntrIntHelper" => irqPos > Len(irqDevs))
  \/ part = "windml" /\ (call = "sysWindMLHwInit" => WmReady)
  \/ part = "sd" /\ (call = "vxbDevInit" => sdPc # "init2")
  \/ part = "nvram"

BoardBoot ==
  /\ BootStep /\ Returned(BootCall)
  /\ UNCHANGED <<part, sioVars, irqVars, wmVars, sdVars, nvVars>>
BoardReset ==
  /\ part = "boot" /\ SysToMonitor
  /\ UNCHANGED <<part, sioVars, irqVars, wmVars, sdVars, nvVars>>

\* Which steps of a part the boot has come to.
During(call) == BootCall = call
Up == ~Booting

BoardSio ==
  /\ part = "sio" /\ SioNext
  /\ UNCHANGED <<part, bootVars, irqVars, wmVars, sdVars, nvVars>>
  /\ \/ During("hardWareInterFaceInit") /\ sioStage' = "init"
     \/ During("vxbDevInit") /\ sioStage = "init" /\ sioStage' # "init"
     \/ During("sysSerialConnectAll") /\ sioStage = "connect"
     \/ Up

BoardIrq ==
  /\ part = "irq" /\ IrqNext
  /\ UNCHANGED <<part, bootVars, sioVars, wmVars, sdVars, nvVars>>
  /\ During("apicIntrIntHelper") \/ Up

BoardWm ==
  /\ part = "windml" /\ WmNext
  /\ UNCHANGED <<part, bootVars, sioVars, irqVars, sdVars, nvVars>>
  /\ During("sysWindMLHwInit") \/ Up

SdRuns == \/ During("vxbDevInit") /\ sdPc = "init2"
          \/ Up
SdPart(A) ==
  /\ part = "sd" /\ A /\ SdRuns
  /\ UNCHANGED <<part, bootVars, sioVars, irqVars, wmVars, nvVars>>
BoardSd == SdPart(SdNext)

BoardNv ==
  /\ part = "nvram" /\ NvNext /\ Up
  /\ UNCHANGED <<part, bootVars, sioVars, irqVars, wmVars, sdVars>>

BoardNext == BoardBoot \/ BoardReset \/ BoardSio \/ BoardIrq \/ BoardWm \/ BoardSd \/ BoardNv

\* The boot goes on, and so do the tasks of the SD host controller.
BoardFairness ==
  /\ WF_boardVars(BoardBoot)
  /\ WF_boardVars(SdPart(SdConnectStep))
  /\ WF_boardVars(SdPart(SdMonitorStep))
  /\ WF_boardVars(SdPart(SdErfInit))

BoardSpec == BoardInit /\ [][BoardNext]_boardVars /\ BoardFairness
-----------------------------------------------------------------------------
(* Properties.                                                             *)

\* Every variable of every part stays in its type.
BoardTypeOK ==
  /\ part \in Parts
  /\ BootTypeOK /\ SioTypeOK /\ IrqTypeOK /\ WmTypeOK /\ SdTypeOK /\ NvTypeOK
=============================================================================
