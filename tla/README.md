# Verification of the Atom E3845 board support package

TLA+ models, TLC runs and TLAPS proofs for the C and assembler code of the
VxWorks 6.9 BSP in `src/BSP_BT` (Intel Bay Trail, `INCLUDE_SYMMETRIC_IO_MODE`).
The code is the reference: every definition listed under `map` in
`PROJECT.json` names the lines it stands for.

## 1. Inventory

| Part | State it keeps | Operations | Interacts with |
|---|---|---|---|
| **NS16550 serial channel** `vxbNs16550Sio.c` | `NS16550VXB_CHAN`: copy of IER, mode, options, `txDefer`, rate, spinlock; the chip's registers | `SIO_*` ioctls, `TxStartup`, polled I/O, interrupt routine, deferred jobs `IntRd2` and `IntWr2`; `DevProbe`, `InstInit`, `InstInit2`, `InstConnect`, `SioChanConnect`, `SioChanGet` | vxBus, serial utility, tty layer (callbacks), kprintf, isrDeferLib, interrupt controller |
| **Memory map** `sysLib.c` 300-435, 1100-1120, 1335-1505, 1817-1873, 2480-2643 | `sysPhysMemDesc`, `sysPhysMemDescNumEnt`, `memTopPhys` | `sysMmuMapAdd`, `sysPhysMemTop` with the E820 map | every driver that maps its registers, `usrMmuInit` |
| **Application processors** `sysLib.c` 2745-3522, `sysALib.s` 259-400 | `sysCpuInitTable`, per-processor GDT and TSS, scratch area, warm reset vector, page zero, `vxCpuEnabled` | `sysCpuEnable/Start/Stop/Reset/...`, `sysCpuInit`, trampoline | kernel (`kernelCpuEnable`, `windCpuEntry`), IPIs |
| **PCI interrupt routing** `pciCfgIntStub.c` | `pPciBridgeList`, INT_LINE registers, PIRQ routing of the LPC bridge | `sysPciPirqEnable`, `FindBridge`, `FindMpEntry`, `ProgIrq`, `PirqShow` | PCI configuration, MP table, IO-APIC driver |
| **Interrupt glue** `sysLib.c` 1890-2446, 3777-3858 | the pointers to APIC methods, `sysStrayIntCount` | `apicIntrIntHelper`, `sysIntLock/Unlock`, `sysIntEnablePIC`, `sysIntEoiGet`, `sysIntLevel` | vxBus, `intConnect` |
| **Boot and reboot** `sysLib.c` 942-1307, 1576-1804, 3873-3885 | phase of the start-up | `sysHwInit0/Init/Init2`, `sysToMonitor`, `sysHardReset` | everything above |
| **USB PCI stub** `usbPciStub.c` | `intUsage[]` | `usbPciIntConnect/Restore`, configuration reads | `intConnect` |
| **SD host controller** `vxbPciSdhcCtrl.c` | `attached`, the status and signal masks, the list of devices | three levels of initialization, bus monitor task | vxBus, SD library, the card |
| **WindML devices** `sysWindML.c` | pool of 32 descriptors, tables of PCI devices, `vgaCreated` | `DevGet`, `DevCtrl`, `DevRelease`, `HwInit` | PCI, graphics library |
| **NVRAM** `sysNvRam.c` | a file | `sysNvRamGet`, `sysNvRamSet` | tasks, file system, resets |
| **Serial tables** `hwconf.c`, `sysSerial.c`, **multiboot** | constants; a copied map | `sysSerialConnectAll`; `multibootInit` | vxBus; boot loader |
| **Debug store** `sysDbgStr.c` | a buffer | `sysDbgStrInit` (not in this build) | performance counters |
| Boot loader, host tool, configuration | - | - | not part of the running system |

### What makes this code hard

* Serial channel: three actors (clients on any processor, the interrupt
  routine, the worker task) and an autonomous chip share IER, THR and the FIFO.
  The spinlock is given and taken again inside single operations
  (`IntWr2` 2706-2745), the interrupt input is edge-triggered, IER cannot be
  trusted to hold what the copy says, reads of LSR, MSR and IIR have side
  effects, kprintf enters in the middle of everything.
* Processors: all starts share one trampoline, one stack slot, one reset vector
  and page zero; starts time out; an application processor goes on alone.
* Creation of channels: unit numbers, remapped base addresses, a list read from
  both ends, callbacks stored in two halves while interrupts are already on.
* Interrupt lines and descriptors: users counted in a table of
  256 lines, pointers left behind by the last device visited, a pool whose
  descriptors have three kinds of owners.
* SD monitor: a task that starts before the interrupts it needs, and a card that
  comes and goes between any two of its steps.
* NVRAM: a file that several tasks read and write in place, across resets.
* Boot: about forty calls in an order that build options change, some of which
  need what others set up, and a reset at any of them.
* Memory map: overlaps, rounding, a table that may fill up, and refusals in the
  middle of a series of regions.

What must hold, per component: the channel loses, repeats and corrupts no
output, always has someone to send what waits, keeps its interrupt alive and
its lock exclusive; the map covers what it has accepted, refuses what
conflicts, and touches no earlier entry; every processor runs on its own stack,
the shared start resources are handed back, `vxCpuEnabled` is the truth and no
start waits for ever; channels have their own registers, number and connected
interrupt; a user of a line stays served; a descriptor has one owner and stands
for the function it was made of; what NVRAM acknowledged stays; the devices of a
card come and go with it; no boot call comes before what it needs. The `hazards` of `PROJECT.json` list each such point at
its line with the property that catches it, or the reason there is none yet.

## 2. Modules

| Module | What it is |
|---|---|
| `SioOutput` | abstract specification: pending and sent characters; each accepted character is sent once, sending goes on |
| `Ns16550Chan` | one serial channel in full, implements `SioOutput` |
| `Ns16550ChanMC` | its values for TLC |
| `Ns16550Chan_proofs` | its theorems |
| `ApStart`, `ApStartMC` | start, stop and reset of application processors |
| `ApStart_proofs` | its theorems |
| `MmuMap`, `MmuMapMC` | the memory map |
| `MmuMap_proofs` | its theorems |
| `PciRoute`, `PciRouteMC` | interrupt lines of PCI functions |
| `PciRoute_proofs` | its theorems |
| `SioDevices`, `SioDevices_proofs` | from devices to serial channels, their numbers, callbacks and rates |
| `IntLines` | the pointers to the APIC drivers, and the USB users of interrupt lines |
| `WindMl`, `WindMl_proofs` | WindML's pool of device descriptors |
| `SdMonitor` | the SD host controller, its monitor and the card |
| `NvRam` | the file behind the non-volatile RAM |
| `Devices_proofs` | theorems about `NvRam`, `IntLines` and `SdMonitor` |
| `Boot` | order of the boot calls in every build, top of memory, reset |
| `Board`, `BoardMC` | the boot composed with the five parts it starts |
| `Board_proofs` | theorems about `Boot`, and those of all parts on the board |

### Ns16550Chan

State: `ier mode opts txDefer baud` are the fields of the channel structure;
`lock` owns the spinlock *between* steps (inside a step it is taken and given);
`uart` is the chip (IER, characters in the transmitter `thr`, the latched
transmit interrupt `thri`, characters received `rbr`, line error, CTS with its
change bit and `dmsr`, the change bits of DSR, RI and DCD, RTS, FIFO enable, DLAB, divisor); `irq` is the latched edge;
`isr`/`passes` is the interrupt routine and its `count`; `rdJobs`/`wrJobs` the
deferred-work queue; `job`/`room` the worker task with `fifoSize - i`; `call`
each client's place in its call. Characters are counted, not named: no code
looks at them. `wire` and `lost` are history counters.

Step boundaries. Everything between taking and giving the lock is one step
because all writers of that state take the lock. Steps of their own are: what
runs without the lock (`getTxChar`, `isrDeferJobAdd`, the MCR read of `Open`),
and the halves of sections where the lock is held while other unlocked code or
the chip can be observed (DLAB window, kprintf's `SIO_DEV_LOCK` ... `UNLOCK`).
The chip moves (shifts, receives, modem lines) between any two steps. This is the SMP
build; on one processor the same spinlock calls lock interrupts, whose
behaviours are a subset.

`Access` writes a register file and latches an edge if the interrupt line
rises; `Drive(via, end)` does it through an intermediate level, which is how
the interrupt routine's "disable all, serve, enable again" makes a new edge for
a cause that stays.

Outside the repository (marked external): the 16550's registers, the tty layer
(sends a character: buffer plus `TxStartup`; after options it starts again), isrDeferLib
(one worker task, FIFO-less choice between the two jobs), the interrupt
controller, and the way kprintf uses the polled entry points.

### ApStart

Callers are tasks of the boot processor which work through a `plan` of
start/stop/reset routines (one for `sysCpuEnable`, three for `sysCpuRe_Enable`,
all processors for the `_APs` and `_ABM` forms). A start is split where other
processors can see it: state, copy, scratch, vector, IPI, wait, restore, unmap.
Each application processor moves alone from the startup IPI through
trampoline, `sysCpuInit` and `windCpuEntry`. `Faults` names what the environment
may do: `dead`, `late` (outlasts the 200000 delays), `init`, `memory`,
`map` (`vmMap` fails), `overlap` (two starts at once), `share` (two calls may work
on one processor, which nothing in lines 3193 to 3521 forbids). A start whose
`vmMap` fails notes ERROR at line 2986 and still reads the reset vector, on page
zero, at 2990: its task is suspended (`Fault`, place `nomap`) with nothing changed
yet. Logical and physical index are one number, as
in this board's configuration; `kernelCpuEnable` serialises starts, which
`overlap` would lift; that callers keep to different processors is assumed of the
board's tasks, which `share` lifts.

### MmuMap

`table` with `num` active entries, filled by `E820Segment`s and `DeviceMap`s in
every order through the operator `sysMmuMapAdd`, which translates the routine
test by test, including the flags that outlive a turn of the loop. Addresses
are small numbers with a page of 2, so both aligned and unaligned regions are
covered. `Behind` is the word the linker puts after the table, which the
routine reads when the table is full.

### PciRoute

`machine` holds what the scan of `vxbPciConfigForeachFunc` finds, in its order,
and the MP interrupt table; it never changes. `list` is `pPciBridgeList`, which
every `sysPciPirqEnable` extends by all bridges again. `pos` and `climb` are the
place of the second scan: a function visited and a turn of its `while` loop are
one step each, so that a loop without an end is a behaviour and not an undefined
recursion. `line` is INT_LINE, `isaOff` the PIRQs whose ICH_IRQ_DIS bit is set.
`sysPciPirqShow` walks alike without programming. The reference (`Path`,
`PinAt`, `Interrupt`) follows the tree of buses and sums the device numbers on the
way, without the list and without the turn-by-turn pin.

### SioDevices

`sioMachine` is what vxBus finds, device by device: bus, board, clock, base
addresses, and the registers its UARTs really have. `SioInstInit` is one turn of
the loop of `ns16550vxbInstInit` over the base addresses, after the remapping of
the board (lines 1251 to 1453), with probe, allocation (which may fail) and
number. `sioChans` is the list of channels, `sioReady` and `sioInts` what the
second level and the connection add. Then a client takes a channel by number,
installs its callbacks (`SioInstall` and `StoreArg`: the routine and its argument
are two stores), sets mode and options (`sioIer` is whether some interrupt is
enabled, `sioQueue` whether SIO_MODE_INT has made the job queue), and the worker
calls back. Rates are numbers: `Divisor` is the formula of lines 2444 to 2464
with its rounding and its two bytes, `HsuartBaudSet` that of the other chip.

### IntLines

`irqPtr` holds, per method, the place of the device that `apicIntrIntHelper`
found last; two of the pointers a device without the method clears again, as the
code does. `usbPciIntConnect` is three steps (connect; enable; count or undo), and
`usbPciIntRestore` three (count down; disable; disconnect): a task may be delayed
between them. `irqChain` is the list of handlers of a line, from which
`INT_DISCONNECT` takes by routine only. `UsbSerial` says whether the users' calls overlap.

### WindMl

`wmFree` and `wmDesc` are bufLib's free list and the pool; `wmDisplays` and
`wmAudios` the tables made while walking over the PCI functions (`WmPciInit` is one
function). `wmHeld` counts per descriptor how many clients have it, `wmCommand` is
the descriptor and the function of the last write to a command register,
`wmLines` and `wmOn` the lines enabled and the devices that asked for it.

### SdMonitor

`sdPc` is the place in the three levels of initialization (`pciSdhcInstInit2`, then
`pciSdhcInstConnect` with mask, interrupt and early card), `sdMon` the place of
`pciSdhcCtrlMonitor`, which the second level spawns. `sdCard` is the card in the slot,
numbered in the order of insertion; `sdList` the devices vxBus has, each with the
card it was announced for. A removal reads `pNext` of a device just taken off the
list, so `sdNext` may be either. What the SD library does is external.

### NvRam

`nvFile` is the file, `nvMounted` the file system. Each task is in one call at a
time: `sysNvRamGet` opens, waits, opens again, reads; `sysNvRamSet` opens with
O_CREAT and writes in place. Writes may be short and operations may fail, `NvReset`
ends everything but the file, of which a write under way has changed a part.
`nvAcked` is a history variable.

### Boot and Board

`Boot` has the calls of `sysHwInit0`, `sysHwInit`, the kernel and `sysHwInit2`, each with its
line in `sysLib.c`, the options it is compiled under, what it gives and what it needs
from others, read off the routines' bodies; a build is a set of options. The boot is
at the line of its next call (`bootLine`), so the order of the calls is that of the source. `SysMemTop` computes the top
of memory, `SysToMonitor` restarts from any place.

`Board` runs `Boot` and lets each call return when the part it starts has done its
work: `hardWareInterFaceInit` makes the channels, `apicIntrIntHelper` visits
the devices, `vxbDevInit` is the second level, `sysSerialConnectAll`, `sysWindMLHwInit`
and `vxbDevConnect` the rest. The parts' variables are disjoint and none calls
another, so a behaviour exercises one part next to the boot (`part`), and the
instance is the sum of the parts and not their product.

## 3. Runs

| Run | Shows | Bounds |
|---|---|---|
| `chan_safety` | lock, transmit job, interrupt edge, IER copy, divisor, all calls of two tasks | 1 character out and 1 in, 1 change of a modem line, 2 ioctls, FIFO 2, `{"Ls"}` left on by the firmware |
| `chan_wakeup` | waiting output has something that will come for it | 2 characters, 2 changes of modem lines, 2 ioctls but SIO_MODE_SET |
| `chan_live` | output is drained and input taken, under fairness | 1 task, 1 character out, 2 in, 2 changes of modem lines, 1 options or kprintf call |
| `chan_promise` | refinement of `SioOutput`, no overrun | 4 characters against a FIFO of 2: two full bursts |
| `chan_kprintf` | *violation*: kprintf between test and burst overruns the FIFO | 3 characters, 2 kprintf |
| `ap_start` | truth of `vxCpuEnabled`, own state, restored vector, honest OK, every call returns unless `vmMap` fails | 2 callers, on different processors, 3 application processors, 3 calls, dead/init/memory/map faults |
| `ap_late` | *violation*: a late processor takes another's stack | 2 application processors, `late` |
| `mmu_map` | accepted regions are mapped, refusals have a reason, old mappings stay | table of 7 with 4 static entries, 4 additions |
| `mmu_count` | *violation*: an overlap is counted twice | 2 additions |
| `mmu_conflict` | *violation*: conflicting regions that are accepted | 2 additions |
| `pci_route` | each function gets the line of its slot, PIRQs are taken and given back, calls end | 384 machines (two levels of bridges), 2 calls, 1 failed allocation |
| `board` | every boot call has what it needs, kernel memory stays clear of the boot image, and the safety of the five parts; the devices of a card come and go with it | see below |

Two tasks are enough for the channel: the code distinguishes only "this task"
and "another holder", and the interrupt routine, worker and chip are further
actors. FIFO depth 2 separates "room left" from "last place" and from "full".
Two ioctls let any call meet any other at any step. Three processors and three
calls allow a stop, a start and a reset to overlap on distinct processors while
one of them is shared over time. The map bounds let a region meet an entry in
each of the thirteen ways two intervals can lie, then fill the table.
Two levels of bridges make the pin turn twice and let the first bridge's slot
be an ISA interrupt that must be passed over; two calls build the list twice or
undo what was done.

Bounds of `board`: 145 builds (three interrupt modes, with and without SMP, and the
ways of starting, sizing memory and configuring devices) and 3 loaders, for
the boot; 8 serial machines, which between them have every board the driver
names, the IC0607KB under both its vendors, 3 rates, 1 failed allocation; 2 machines with one and two IO APICs, 3
users with a handler each on the lines 16, 30 and 300 (of the first IO APIC, of
the second, of none); 3 machines with up to four PCI functions, a pool of 3 in
place of 32 so that it runs out, one client per function and one keyboard or
pointer; 5 SD controllers, 2 devices a card, 2 insertions; 2 tasks,
2 strings and 2 offsets in a file of 2 bytes, 2 calls of `sysNvRamSet`, 1 reset,
failure or short write. Two insertions let a card be exchanged between two looks of the
monitor, two sets overlap or follow each other, and three users let a line be
shared while another user comes and goes. `UsbSerial` is TRUE, as vxBus
attaches controllers from one task. `SdSmp` is FALSE: on one processor the
connecting task (priority 11) is not preempted by the monitor (priority 100).
`Board` takes a build without SMP for that part; `SdSmp.cfg` shows what an SMP build adds.
`SioLateInstall` is FALSE: a client installs its callbacks before SIO_MODE_INT, as
ttyDrv does. TLC also evaluates, as an ASSUME of `BoardMC`, what the proofs
assume of these machines.

Deadlock checking is off because every bound ends the environment's moves:
a channel with nothing to do, or callers out of calls, rightly stop.

Fairness. A task inside a call goes on, the controller delivers a latched edge,
the interrupt routine and worker run, the transmitter shifts: these are
processors and hardware that keep executing. Nothing obliges a client to call,
a line to receive, a modem line to change or a dead processor to wake. `OutputDrained`
assumes CTS on in the end, as flow control does; `InputTaken` also CREAD.
`SdRemoved` and `SdCardServed` need that the boot goes on, that the connecting task and
the monitor run, and that error reporting comes up (`BoardFairness`); nothing obliges
a card to come or go. WF suffices: each fair action stays enabled until taken, but `TxStartup` and the
worker wait for a lock that fair steps return.

Further configurations reproduce divergences met while modelling; they are
not in the list of runs, `tlc -config X.cfg Ns16550ChanMC` shows them:
`ChanPolled.cfg` (interrupts are on in polled mode once the routine or TxStartup
has written the copy), `ChanCts.cfg` (the transmit interrupt goes on although CTS
is off), `ChanOneRx.cfg` (two receive jobs queued), `ChanReceiverOff.cfg` (CREAD
off, receive interrupt on), `ChanSwitch.cfg` (output waiting through a switch of
mode is not sent). With `ApStartMC`: `ApMapFails.cfg` (`EveryCallReturns`: a start
whose `vmMap` fails never comes back with its ERROR), `ApShared.cfg` (`EnabledRuns`: a
stop and a start of the same processor leave a wrong bit in
`vxCpuEnabled`). With `PciRouteMC`: `PciShow.cfg` (`sysPciPirqShow` does not end
below a bridge without bus numbers, since lines 636-679 lack the test for the
root of lines 534-536), `PciCardbus.cfg` (a CardBus bridge's own pin, counted
from 1, is taken as one counted from 0: line 519).

With `BoardMC`, each a violation:

| Configuration | Property | What happens |
|---|---|---|
| `SioLate.cfg` | `SioCallbackSound` | a callback that is replaced while interrupts are on is called with the other one's argument (line 3220) |
| `SioAxxon.cfg` | `SioAllInUarts` | on an AXXON IC0607KB channels are made on base addresses 2 to 5, though its two UARTs are at base address 0 (lines 331 and 1333 to 1337) |
| `SioRates.cfg` | `SioRateHonoured` | at 460800, which line 2601 accepts, the divisor is 0; 230400 gives half the rate |
| `UsbOverlap.cfg` | `UsbLineServed` | overlapping calls: the last user's disable comes after another one's enable |
| `WmShared.cfg` | `WmLineServed` | two functions on one line: one client's disable silences the other |
| `BootOthers.cfg` | `BootAnyCallReady` | without vxBus, calls that `intConnect` needs are not made |
| `SdSmp.cfg` | `SdAsksWhenAnswered` | on several processors the monitor asks a card before interrupts are set up |
| `SdSleeps.cfg` | `SdSleeps` | while a card is attached the monitor looks again at once, without its delay of two seconds |
| `SdStale.cfg` | `SdDevicesOfCard` | a card exchanged between two looks keeps the devices of the first |
| `NvMixed.cfg` | `NvOldOrNew` | a Get during a Set, or after a reset in it, reads half of each string |
| `NvFits.cfg` | `NvGetFits` | EOS is stored behind `strLen` bytes |
| `NvRange.cfg` | `NvInRange` | `offset + strLen` wraps and passes the test of the range |

## 4. Proofs

`tlapm Ns16550Chan_proofs.tla` proves for every set of tasks, FIFO depth, set of
rates and bound:

* `TypeCorrect`, `Mutex` (`LockExclusive`), `TxJobUnique` (`OneTxJob`),
  `NoLockUp` (`EdgeNotLost`), `ShadowOfIer` (`IerShadow`), `DivisorKept`
  (`DivisorIntact`). Argument: each is inductive relative to the type invariant and
  the ones before it, one lemma per step of `Next`. `DivisorKept` needs `Mutex`
  (who is in the window owns the lock); `NoLockUp` needs that a pass
  ends in the off/on write or leaves the line low, and `ShadowOfIer` that the
  worker and routine write copy and chip together (`ChipInv`).
* `WakeupKept` (`TxWakeup`), with `Calls` free of `mode` (`OneMode`): waiting
  output has an interrupt, a job, a call or a change of CTS that will come for it. The
  strengthening `WakeInv` follows the modem status bit, which kprintf may clear by
  reading MSR but then looks at CTS itself.
* `BurstFits`: with `Calls` free of `kprintf` and `hup`, `NoOverrun`. The
  strengthening `BurstInv` says that between test and last write of a burst
  `thr + room <= FifoSize`: only the worker adds to the transmitter.
* `OutputRefines`: with `Calls \subseteq {"baud", "mode"}`, initial states map to
  initial states of `SioOutput` and each step to a step or a stutter.

`tlapm ApStart_proofs.tla`, for every number of processors, callers and calls:

* `TypeCorrect`, with every fault.
* `StacksAreOwn` (`OwnState`), `BitsAreRight` (`EnabledRuns`),
  `FirmwareRestored` (`VectorRestored`) and `StartedRuns` (`OkMeansUp`) under
  `Orderly`: none of `late`, `overlap` and `share` is in `Faults`; `map`, as the
  others, may be. `ap_late` shows that `OwnState` fails without the first,
  `ApShared.cfg` that `EnabledRuns` does without the last. All four follow from one invariant,
  `ApInv`. Callers are on different processors and one of them starts any
  (`Disjoint`), so what a start has done to scratch area, vector and page zero
  can be told from the place it is at (`StartAt`); a processor between its
  startup IPI and the kernel is waited for by the start of that processor
  (`Awaited`), hence the slot it reads its stack from is its own, and nobody is
  about to stop it when it sets its bit. `Awaited` is what a late processor breaks.

`tlapm MmuMap_proofs.tla`, for every table, page size and address space:

* `TypeCorrect`, `OldMappingsKept` (`MappingsKept`): the dummy the routine finds
  is behind all active entries (`MapInv`), so no write reaches one of them.
* `RegionsMapped` (`RegionMapped`) and `RefusalsJustified` (`ErrorHasReason`) under
  `SaneBoard`, which says what a real board's table and devices are (no empty
  region, none inside page zero) and which TLC evaluates for the board of the
  run. The first needs that entries are sane in every state, since after a
  partial overlap only the rest is entered and the entry met has to cover what
  was cut off; the second that every slot behind the count is free.

`tlapm SioDevices_proofs.tla`, for every list of machines, rates and failures:

* `SioCallbacksSound` (`SioCallbackSound`) where clients install first
  (`~SioLateInstall`): a job needs an enabled interrupt, that needs the queue, and by
  then no half of a callback is missing.
* `NumbersAreUnique` (`SioNumbersUnique`) and `GotIsConnected` (`SioGotIsConnected`) under
  `HwConfTable`, which is how `hwconf.c` lists its UARTs: first, one base address each,
  units in order. Numbers are then 0, 1, 2... in the order of creation.
* `RatesAreNearest` (`SioRateNearest`) under `ClocksInRange`: the divisor of 50 baud
  fits two bytes. Only arithmetic about the formula's rounding.
* `OwnUarts` (`SioOwnUart`) under `UartsOfBoards`, which says where the boards have their UARTs
  as the comments of `ns16550vxbInstInit` do: the base addresses that are UARTs' and how
  long the registers at each are, that no two the driver uses share an address, and that a
  base address others are computed from has been assigned. Of the channels on base addresses 2
  to 5 of an AXXON IC0607KB, which `DevProbe` lets through (991 to 998), it is proved that they
  share no register with another channel, not that a UART is there. The
  invariant `OwnInv` keeps for each channel the base address it was made of, and that the
  loop has passed it (`MadeAt`, `Passed`): a channel of a later address is then in other registers.
* `SioTyped` (`SioTypeOK`).

`tlapm Devices_proofs.tla`, for any tasks, file size, strings, users, lines, controllers and cards:

* `NvTyped` (`NvTypeOK`) and `NvAcknowledgedKept` (`NvAcknowledged`). `AckedInv` adds that
  while something is acknowledged no call that writes is under way.
* `LineServedKept` (`UsbLineServed`) under `UsbDiscipline` (calls one after the other, a handler
  each, lines the stub counts, fewer than 65536 users): the count of a line is the number
  of users on it.
* `IrqTyped` (`IrqTypeOK`) without the discipline. `INT_DISCONNECT` removes the first entry with
  the user's handler, which must be there although calls overlap and users share handlers:
  `HeldInv` says that the users of a line can be given entries of its chain with their
  handlers, no two the same one. A user that loses its entry takes the one of the user that left.
* `LinesReached` (`UsbFailsWithoutLine`) under `NoApicLast`: the two pointers that are
  cleared are NULL in the end, and NULL means that every IO APIC is asked.
* `SdTyped` (`SdTypeOK`).

`tlapm WindMl_proofs.tla`, for any machines, pool and number of clients: `OneOwnerKept`
(`WmOneOwner`) counts how often a descriptor occurs in the free list and the tables,
and who holds it. `RightFunctionKept` (`WmRightFunction`) under `IdsTellClass`: a table has
all functions of its type that were walked over as long as the pool lasts, so
the instance number is the number of functions with the same identifiers before,
which is what `pciFindDevice` counts. Both use bijections between places in a table and
functions (`OrdinalCounts`). `WmTyped` (`WmTypeOK`) needs `OneOwner`'s invariant too: a line that was
enabled stays the line of a descriptor, because the descriptors that are made over
were no PCI function's.

`tlapm PciRoute_proofs.tla`, for any number of functions, levels of bridges and entries of the table:

* `TypeCorrect` (`TypeOK`): a pin that is turned stays a pin, and INT_LINE a byte.
* `LinesRouted` (`LineRouted`) and `PirqsRouted` (`PirqRouted`) under `BusTree` (a bridge's secondary
  bus has a greater number than the one it is on, and is no other bridge's), which
  TLC evaluates for the machines of the run. `ClimbInv` says that the climb is on the
  function's path: after some number of bridges it is at that bus and device of the path with the
  pin turned that often, and no bridge it has passed has an entry from the PIRQ range on.
  `LineInv` and `PirqInv` say what the functions already visited have got, with
  certainty only where the bridge list is whole. The reference
  is two recursive functions on bus numbers. What they compute is proved without the induction
  theorems, from the least bus number for which it would not hold (`LeastNat`, `PathDef`, `TurnsDef`).

`tlapm Board_proofs.tla`, for any builds, loaders and sizes:

* `CallsReady` (`BootCallReady`). `BootReachInv`: whatever the calls at earlier lines give is
  there. What a call needs is then given at an earlier line, in every build with vxBus
  (`Providers`), which is the argument that build options never remove a provider alone.
* `ImageSafe` (`BootImageSafe`) under `RamHoldsImage`: memory holds the boot image above the two
  low places where a bootrom's pool may end. Both roundings, to pages down and up, are
  used: the top minus a whole number of pages is a whole number of pages.
* `BootTyped` (`BootTypeOK`).
* `BoardImplementsParts`: each part on the board does no more than its own specification
  allows. With it the parts' theorems hold of the board: `BoardNvAcknowledged`,
  `BoardCallbacksSound`, `BoardLineServed`, `BoardOneOwner`, `BoardOwnUarts`, `BoardBoots`, and
  `BoardTyped` (`BoardTypeOK`), the types of all parts.

The assumptions on constants are `ChanAssumption`, `ApAssumption`, `MmuAssumption`,
`RouteAssumption`, `SioAssumption`, `IrqAssumption`, `WmAssumption`, `SdAssumption`,
`NvAssumption` and `BootAssumption`, and where a theorem says so the conditions named
above. TLC evaluates the conditions on machines (`SaneBoard`, `BusTree`, `HwConfTable`,
`ClocksInRange`, `UartsOfBoards`, `NoApicLast`, `UsbDiscipline`, `IdsTellClass`, `RamHoldsImage`) for
the machines of the runs.

Every invariant and every action property of a passing run is stated by a theorem. Only
model-checked: liveness (`OutputDrained`, `InputTaken`, the fairness of `SioOutput`,
`CallsReturn`, `CallsEnd`, `SdRemoved`, `SdCardServed`), which is beyond this prover, and what
the configurations of section 3 refute.

## 5. What the runs refute

1. *Burst after kprintf* (`chan_kprintf`): `IntWr2` tests LSR once and re-takes
   the lock per character "to mutual exclude the TX Reg access between the
   kprintf()"; the exclusion does not cover the test.
2. *Late processor* (`ap_late`): the scratch area is called "unique memory space" for each
   processor but is one area every start overwrites.
3. *Double count* (`mmu_count`): `noOverlap` stays TRUE through an overlap.
4. *Missed conflicts* (`mmu_conflict`): three of the ways to meet an entry pass
   the tests that should "do nothing and return an ERROR".

Further disagreements of code, comments and documents met while modelling, some
with a configuration of section 3:

* `vxbNs16550Sio.c` line 88 says the maximal rate was set to 115200;
  `NS16550_MAX_RATE` is 460800 (line 829).
* Lines 602 to 606: a clock that is not specified is 0 Hz; lines 1549 to 1556 free
  the channel of such a device.
* The IC0607KB has two UARTs in use by the comments of line 331 ("only 2 are pinned") and
  lines 1333 to 1337 ("UART 1 = BAR 0 + 8", "and we are done"), under both its vendors; `DevProbe` (991 to 998) keeps only the
  one of OXFORDSEMI to two, so of one of AXXON each assigned base address becomes a
  channel (`SioAxxon.cfg`).
* Base addresses that were never assigned can be remapped to a few bytes above zero.
* `sysCpuStart` returns "ERROR - Fail" by lines 2856 and 2857, but after a `vmMap` that fails it sets ERROR (2986) and
  goes on to page zero, which is not mapped (2990): it does not return (`ApMapFails.cfg`).
* When the allocation of a PLB channel fails, the counter and the units of
  `hwconf.c` fall apart and a number may be given twice.
* `usbPciStub.c` lines 447 to 449 speak of removing a handler with its parameter;
  `INT_DISCONNECT` (75 to 76) drops it.
* An IO APIC that vxBus visits last hides the lines of the others.
* `sysWindML.c` line 648 writes all ones where the comment of line 644 keeps a
  mask; the VGA device has line 0, which enabling and disabling touch; `vgaCreated`
  is never reset; a descriptor released twice is given to two clients.
* Lines 1591 to 1791 of `sysToMonitor` are behind a `goto` and never run.

## 6. Plan

Done: 1. `Ns16550Chan`, 2. `ApStart`, 3. `MmuMap`, 4. `PciRoute`, 5. the devices
(`IntLines`, `WindMl`, `SdMonitor`, `NvRam`), 6. creation, callbacks and rates of channels
(`SioDevices`), 7. boot order and reset (`Boot`), composed in `Board`, 8. `TxWakeup` and the
proofs about the parts.

9. the routing theorems, the boot's, and the types of all parts on the board.

Left: addresses with their width of 32 and 64 bits in `MmuMap`; a board on which the parts
run next to each other; an abstract specification of the users of an interrupt line, and
of the processors, that `IntLines` and `ApStart` implement.

### Not modelled

* `romInit.s`, `sysInit` and the 16-bit boot loader: straight-line code before C runs.
* `vxsysnt.c`: a host tool.
* `sysIntLock`, `sysIntUnlock`, `sysIntLevel`, `sysStrayInt`: a forwarded call, a value read
  from a stack, a counter.
* The configuration-space accesses and address conversions of the USB stub, the
  parameters of the PCI autoconfiguration, the tables of `hwconf.c` and of the MP
  configuration: no state or constants only.
* The multiboot command line, delays and the beep.
* `sysDbgStr.c`, `sysSerial.c`, `usrMpapicInit` and the probe of
  `VXBUS_NS16550_INTRUSIVE_PROBE`: other builds.
