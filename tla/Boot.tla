-------------------------------- MODULE Boot ---------------------------------
(***************************************************************************)
(* The order in which the kernel boots the board and resets it (sysLib.c,  *)
(* multiboot.c): the calls of sysHwInit0, sysHwInit and sysHwInit2, what   *)
(* each needs from earlier ones, in every configuration the sources can be *)
(* built in; sysMemTop; and sysToMonitor, which may come at any time.      *)
(***************************************************************************)
EXTENDS Integers, FiniteSets

CONSTANTS
  BootBuilds,    \* builds: sets of Options
  BootLoaders,   \* multiboot loaders: [magic, mmap : BOOLEAN, entries : Nat]
  BootPage,      \* VM_PAGE_SIZE
  BootPhysTops,  \* tops of memory the loader or BIOS may report
  BootLocalTop,  \* LOCAL_MEM_LOCAL_ADRS + LOCAL_MEM_SIZE
  BootImages,    \* values of *BOOT_IMAGE_SIZE
  BootEbda,      \* EBDA_START
  BootRamLow,    \* SYS_RAM_LOW_ADRS & 0xfff00000
  BootPm         \* PM_RESERVED_MEM

Modes == {"symmetric", "wire", "pic"}
Options == Modes \cup
  {"smp", "vxbus", "e820", "mpapic", "multiboot", "fast", "stages", "edr", "dbgstr",
   "sioutils", "ns16550", "windml", "pci", "console", "lowimage", "highimage"}

ASSUME BootAssumption ==
  /\ \A o \in BootBuilds : o \subseteq Options /\ Cardinality(o \cap Modes) = 1
  /\ BootLoaders \subseteq [magic : BOOLEAN, mmap : BOOLEAN, entries : Nat]
  /\ BootPage \in Nat \ {0}
  /\ BootPhysTops \subseteq Nat /\ BootLocalTop \in Nat
  /\ BootImages \subseteq Nat \ {0}
  /\ {BootEbda, BootRamLow, BootPm} \subseteq Nat

VARIABLES
  bootBuild,    \* the options this kernel was built with
  bootLoader,   \* what started it
  bootPhys,     \* its memory
  bootImage,    \* size of the boot image
  bootLine,     \* line of the next call
  bootGiven,    \* what the calls so far have set up
  bootE820,     \* entries in the E820 area
  bootTop,      \* memTop of sysMemTop, 0 for NULL
  bootRom,      \* memRom
  bootPool      \* top of memory the kernel was started with, 0 before

bootBoard == <<bootBuild, bootLoader, bootPhys, bootImage>>
bootVars == <<bootBoard, bootLine, bootGiven, bootE820, bootTop, bootRom, bootPool>>
-----------------------------------------------------------------------------
(* The calls, in the order of their lines in sysLib.c.  A call is made in    *)
(* builds with all of on and none of off.                                  *)

\* What calls set up.
Setups == {"gdt", "loader", "cpuId", "inumTbl", "tramp", "cpuIndex", "numEnt", "memTop",
           "mpTable", "plb", "devices", "apic", "intLvl", "pic", "eoi", "ipiVec", "serial",
           "devInit"}

Call(at, c, on, off, needs, gives) ==
  [at |-> at, call |-> c, on |-> on, off |-> off, needs |-> needs, gives |-> gives]
If(cond, s) == IF cond THEN s ELSE {}

SysHwInit0 ==
  {Call(951, "sysConfInit0", {"vxbus"}, {}, {}, {}),
   Call(963, "sysInitGDT", {}, {}, {}, {"gdt"}),
   Call(970, "multibootInit", {"multiboot"}, {}, {}, {"loader"}),
   Call(979, "vxCpuIdProbe", {}, {}, {}, {"cpuId"})}

CpuCalls ==
  {Call(1021, "sysInumTbl", {}, {"symmetric"}, {}, {"inumTbl"}),
   Call(1027, "tramp_code", {"symmetric", "smp"}, {}, {}, {"tramp"}),
   Call(1058, "vxKernelVars", {"smp"}, {}, {"gdt"}, {"cpuIndex"}),
   Call(1075, "pentiumMtrrEnable", {}, {}, {"cpuId"}, {}),
   Call(1089, "pentiumMcaEnable", {}, {}, {}, {})}

\* sysMemTop sets the length of one entry and adds others; drivers add theirs.
MemTopEarly == 1110
MemTopLine == 1125
MemoryCalls(o) ==
  {Call(1118, "sysPhysMemDescNumEnt", {}, {}, {}, {"numEnt"}),
   Call(MemTopLine, "sysMemTop", {"e820"}, {},
        {"numEnt", "gdt"} \cup If("multiboot" \in o, {"loader"}), {"memTop"})}

\* "Make sure autosize completes prior to vxBus initialization".
DeviceCalls(o) ==
  {Call(1130, "sysConfInit", {}, {}, {}, {}),
   Call(1139, "usrMpapicInit", {"mpapic"}, {"pic"}, {}, {"mpTable"}),
   Call(1144, "vxCpuIdCalcFreq", {}, {}, {"cpuId"}, {}),
   Call(1148, "pSysPlbMethods", {"vxbus"}, {}, {}, {"plb"}),
   Call(1150, "hardWareInterFaceInit", {"vxbus"}, {},
        {"plb", "numEnt"} \cup If("e820" \in o, {"memTop"})
          \cup If("mpapic" \in o /\ "pic" \notin o, {"mpTable"}), {"devices"})}

InterruptCalls(o) ==
  {Call(1155, "apicIntrIntHelper", {"vxbus"}, {"pic"}, {"devices"}, {"apic"}),
   Call(1160, "sysIntLvlEnableRtn", {"vxbus"}, {}, {}, {"intLvl"}),
   Call(1165, "sysIntInitPIC", {"vxbus"}, {}, If("pic" \notin o, {"apic", "numEnt"}),
        {"pic"}),
   Call(1166, "intEoiGet", {"vxbus"}, {}, {}, {"eoi"}),
   Call(1172, "ipiVecInit", {"vxbus", "smp"}, {}, {"cpuIndex"}, {"ipiVec"}),
   Call(1199, "sysSerialHwInit", {}, {"ns16550"}, {}, {"serial"}),
   Call(1204, "sysWindMLHwInit", {"windml", "pci"}, {"vxbus"}, {}, {})}

\* The kernel starts between sysHwInit and sysHwInit2, with sysMemTop.
KernelCalls == {Call(1208, "kernelInit", {}, {}, {"numEnt", "gdt"}, {"memTop"})}

\* intConnect calls intEoiGet, and that looks into sysInumTbl, which symmetric
\* I/O has from a driver.
IntConnects(o) == {"eoi", "pic"} \cup If("symmetric" \notin o, {"inumTbl"})

SysHwInit2(o) ==
  {Call(1243, "saveBootImage", {"fast", "stages"}, {"multiboot"}, {"memTop"}, {}),
   Call(1256, "sysSerialHwInit2", {}, {"ns16550"}, {"serial"} \cup IntConnects(o), {}),
   Call(1262, "sysStrayInt", {}, {}, IntConnects(o), {}),
   Call(1277, "kbdIntr", {"console"}, {"vxbus"}, IntConnects(o), {}),
   Call(1285, "ipiConnect", {"smp"}, {}, {"ipiVec"}, {}),
   Call(1290, "vxbDevInit", {"vxbus"}, {}, {"devices"}, {"devInit"}),
   Call(1293, "sysSerialConnectAll", {"vxbus", "sioutils"}, {}, {"devInit"}, {}),
   Call(1299, "sysDbgStrInit", {"dbgstr"}, {}, IntConnects(o), {}),
   Call(1303, "vxbDevConnect", {"vxbus"}, {}, {"devInit", "intLvl"} \cup IntConnects(o), {})}
BootEnd == 1307

BootCallsOf ==
  [o \in BootBuilds |->
     {c \in SysHwInit0 \cup CpuCalls \cup MemoryCalls(o) \cup DeviceCalls(o)
              \cup InterruptCalls(o) \cup KernelCalls \cup SysHwInit2(o) :
        c.on \subseteq o /\ c.off \cap o = {}}]
BootCalls == BootCallsOf[bootBuild]

\* The line of the first call from line n on.
NextCall(calls, n) ==
  LET later == {c.at : c \in {d \in calls : d.at >= n}} \cup {BootEnd}
  IN  CHOOSE l \in later : \A m \in later : l <= m

Booting == bootLine < BootEnd
AtCall == CHOOSE c \in BootCalls : c.at = bootLine
BootCall == IF Booting THEN AtCall.call ELSE "none"

BootInit ==
  /\ bootBuild \in BootBuilds /\ bootLoader \in BootLoaders
  /\ bootPhys \in BootPhysTops /\ bootImage \in BootImages
  /\ bootLine = NextCall(BootCalls, 0) /\ bootGiven = {}
  /\ bootE820 = 1
  /\ bootTop = 0 /\ bootRom = 0 /\ bootPool = 0
-----------------------------------------------------------------------------
(* sysMemTop.                                                              *)

BootRoundDown(n) == (n \div BootPage) * BootPage
ImageUnrounded(n) == BootRoundDown(n)
ImageRounded(n) == BootRoundDown(n + BootPage - 1)

\* multibootInit: the loader's map replaces the one in the E820 area; without
\* entries the area is marked in error.
MultibootE820 ==
  IF "e820" \in bootBuild /\ bootLoader.magic /\ bootLoader.mmap THEN bootLoader.entries
  ELSE bootE820

\* sysPhysMemTop: from the E820 area, from the loader, or LOCAL_MEM_SIZE.
PhysMemTop ==
  LET found == IF "e820" \in bootBuild THEN bootE820 > 0
               ELSE "multiboot" \in bootBuild /\ bootLoader.magic
  IN  BootRoundDown(IF found THEN bootPhys ELSE BootLocalTop)

KeepsImage == {"fast", "stages"} \subseteq bootBuild /\ "multiboot" \notin bootBuild

\* The boot image is kept at the top; below it comes the ED&R memory.  A boot
\* image in low memory, or between 1 MB and SYS_RAM_LOW_ADRS, ends lower.
SysMemTop ==
  LET top == IF KeepsImage THEN PhysMemTop - ImageRounded(bootImage) ELSE PhysMemTop
  IN  /\ bootTop' = IF bootTop # 0 THEN bootTop
                    ELSE IF "lowimage" \in bootBuild THEN BootEbda
                    ELSE IF "highimage" \in bootBuild THEN BootRamLow
                    ELSE top - (IF "edr" \in bootBuild THEN BootPm ELSE 0)
      /\ bootRom' = IF bootTop = 0 /\ KeepsImage THEN BootRoundDown(top) ELSE bootRom
-----------------------------------------------------------------------------
(* The steps.                                                              *)

BootStep ==
  /\ Booting
  /\ bootLine' = NextCall(BootCalls, bootLine + 1)
  /\ bootGiven' = bootGiven \cup AtCall.gives
  /\ bootE820' = IF BootCall = "multibootInit" THEN MultibootE820 ELSE bootE820
  /\ IF BootCall \in {"sysMemTop", "kernelInit"} THEN SysMemTop
     ELSE UNCHANGED <<bootTop, bootRom>>
  /\ bootPool' = IF BootCall = "kernelInit" THEN bootTop' ELSE bootPool
  /\ UNCHANGED bootBoard

\* sysToMonitor goes straight to the cold start, whatever its startType: the
\* clock is disabled and sysHardReset resets everything.
SysToMonitor ==
  /\ "gdt" \in bootGiven
  /\ bootLine' = NextCall(BootCalls, 0) /\ bootGiven' = {}
  /\ bootE820' = 1 /\ bootTop' = 0 /\ bootRom' = 0 /\ bootPool' = 0
  /\ UNCHANGED bootBoard

BootNext == BootStep \/ SysToMonitor

BootSpec == BootInit /\ [][BootNext]_bootVars

\* Memory that holds the boot image above the places where a bootrom of its own in
\* low memory, or between 1 MB and SYS_RAM_LOW_ADRS, ends the pool.
RamHoldsImage ==
  \A t \in BootPhysTops \cup {BootLocalTop} : \A size \in BootImages :
    LET rom == BootRoundDown(t) - ImageRounded(size)
    IN  BootEbda <= rom /\ BootRamLow <= rom
-----------------------------------------------------------------------------
(* Properties.                                                             *)

\* Every variable stays in its type.
BootTypeOK ==
  /\ bootBuild \in BootBuilds /\ bootLoader \in BootLoaders
  /\ bootPhys \in BootPhysTops /\ bootImage \in BootImages
  /\ bootLine \in 0..BootEnd
  /\ bootGiven \subseteq Setups
  /\ bootE820 \in Nat
  /\ {bootTop, bootRom, bootPool} \subseteq Int

\* In every build with vxBus each call comes after the calls that set up what it
\* uses (the order of lines 942 to 1304), also after a reset at any moment.
BootCallReady ==
  Booting /\ "vxbus" \in bootBuild => AtCall.needs \subseteq bootGiven

\* As much for the builds without vxBus, which the sources also have lines for:
\* their interrupts are connected without intEoiGet.
BootAnyCallReady == Booting => AtCall.needs \subseteq bootGiven

\* The boot image that sysHwInit2 saves for the next fast reboot (lines 1237 to
\* 1243) lies in memory and above the pool the kernel was started with.
BootImageSafe ==
  bootPool # 0 /\ KeepsImage
    => bootPool <= bootRom /\ bootRom + bootImage <= PhysMemTop
=============================================================================
