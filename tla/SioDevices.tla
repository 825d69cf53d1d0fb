----------------------------- MODULE SioDevices ------------------------------
(***************************************************************************)
(* From devices to serial channels (vxbNs16550Sio.c): vxBus hands each     *)
(* device it found to ns16550vxbInstInit, which makes a channel of each    *)
(* base address that holds a UART; the serial utility then connects the    *)
(* channels by number, and a client gets one by number, installs its       *)
(* callbacks, sets mode, options and rate.  What a channel does with       *)
(* characters is module Ns16550Chan.                                       *)
(***************************************************************************)
EXTENDS Integers, Sequences, FiniteSets

CONSTANTS
  SioMachines,      \* the machines: sequences of devices, in the order of vxBus
  SioRates,         \* rates asked for by SIO_BAUD_SET
  SioLateInstall,   \* callbacks are also installed after SIO_MODE_INT
  SioMaxFails,      \* bound: failures of hwMemAlloc
  SioMaxInstalls    \* bound: pairs of callback and argument installed

VXB_MAXBARS == 6
Bars == 0..(VXB_MAXBARS - 1)
PCI_CLK_FREQ == 1843200
NS16550_MIN_RATE == 50
NS16550_MAX_RATE == 460800
SioCallbacks == {"tx", "rx"}

\* The boards the driver registers for, by vendor.
OxfordBoards == {"LF659KB", "LF653KB", "LF662KB_FUNC1", "LF769KB", "IC0607KB"}
Boards ==
  [EASYSYNC |-> {"ESD1001", "ESD1002", "ESD1004"}, COMPUSA |-> {"COMPUSA"},
   NETLOGIC |-> {"XLP"}, INTEL |-> {"TOPCLIFF", "BAYTRAIL"},
   OXFORDSEMI |-> OxfordBoards, AXXON |-> OxfordBoards]

\* bar: pRegBase, 0 for NULL; unit and clk (0: no clkFreq resource) are of PLB
\* devices, scratch of the XLP.  uart: the <<address, length>> of the board's
\* UART registers.
SioDevice(d) ==
  /\ \/ d.bus = "PLB"
     \/ d.bus = "PCI" /\ d.dev \in Boards[d.vend]
  /\ d.bar \in [Bars -> Nat]
  /\ {d.unit, d.clk, d.scratch} \subseteq Nat
  /\ d.uart \subseteq Nat \X Nat

\* The two entries of hwconf.c for units 0 and 1 of the PLB.
COM_BASE_ADR == <<1016, 760>>
ComPort(u) ==
  [bus |-> "PLB", dev |-> "COM", vend |-> "none",
   bar |-> [i \in Bars |-> IF i = 0 THEN COM_BASE_ADR[u + 1] ELSE 0],
   unit |-> u, clk |-> PCI_CLK_FREQ, scratch |-> 0,
   uart |-> {<<COM_BASE_ADR[u + 1], 8>>}]

ASSUME SioAssumption ==
  /\ \A m \in SioMachines : /\ m \in Seq({m[k] : k \in DOMAIN m})
                            /\ \A k \in DOMAIN m : SioDevice(m[k])
  /\ SioRates \subseteq Nat \ {0}
  /\ SioLateInstall \in BOOLEAN
  /\ SioMaxFails \in Nat /\ SioMaxInstalls \in Nat

VARIABLES
  sioMachine,    \* the devices of this machine
  sioStage,      \* "init", "connect" or "run"
  sioDev,        \* device whose InstInit runs; in "connect", channel number
  sioBar,        \* loop counter i of ns16550vxbInstInit
  sioChans,      \* channels in the order they were made
  sioNumber,     \* what sioNextChannelNumberAssign returns next
  sioReady,      \* ns16550SpinlockFuncReady
  sioInts,       \* devices whose interrupt is connected and enabled
  sioUser,       \* the channel the client got, or 0
  sioMode,       \* its channelMode, 0 before the first SIO_MODE_SET
  sioIer,        \* its chip may interrupt
  sioQueue,      \* its queueId has been set
  sioJobs,       \* its deferred jobs in the queue
  sioRoutine,    \* getTxChar and putRcvChar: which pair's routine
  sioArg,        \* getTxArg and putRcvArg: which pair's argument
  sioHalf,       \* callback whose argument is yet to be stored, or "none"
  sioCalled,     \* the pair the last job called its routine with
  sioFails       \* failures left

sioBoot == <<sioMachine, sioStage, sioDev, sioBar, sioNumber, sioReady, sioInts,
             sioFails>>
sioClient == <<sioMode, sioIer, sioQueue, sioJobs, sioRoutine, sioArg, sioHalf,
               sioCalled>>
sioVars == <<sioBoot, sioChans, sioUser, sioClient>>

SioInit ==
  /\ sioMachine \in SioMachines
  /\ sioStage = "init" /\ sioDev = 1 /\ sioBar = 0
  /\ sioChans = <<>> /\ sioNumber = 0 /\ sioReady = FALSE
  /\ sioInts = {} /\ sioUser = 0
  /\ sioMode = "undef" /\ sioIer = FALSE /\ sioQueue = FALSE /\ sioJobs = {}
  /\ sioRoutine = [c \in SioCallbacks |-> 0]
  /\ sioArg = [c \in SioCallbacks |-> 0]
  /\ sioHalf = "none" /\ sioCalled = <<0, 0>>
  /\ sioFails = SioMaxFails
-----------------------------------------------------------------------------
(* ns16550vxbInstInit, the part for particular boards.                     *)

Only(d, bars) == [i \in Bars |-> IF i \in bars THEN d.bar[i] ELSE 0]

\* UARTs of one memory window: pRegBase[1], and pRegBase[3..5] remapped.
FourOverlapping(d, step) ==
  [i \in Bars |-> IF i \in 3..5 THEN d.bar[1] + (i - 3) * step
                  ELSE IF i = 1 THEN d.bar[1] ELSE 0]
Four(d, step) ==
  [i \in Bars |-> IF i \in 3..5 THEN d.bar[1] + (i - 2) * step
                  ELSE IF i = 1 THEN d.bar[1] ELSE 0]

\* pRegBase as the loop over the base addresses finds it.
RegBase(d) ==
  CASE d.dev = "XLP"       -> [i \in Bars |-> IF i = 0 THEN d.scratch + 259 ELSE 0]
    [] d.dev = "ESD1001"   -> Only(d, {1})
    [] d.dev = "ESD1002"   -> Only(d, {1, 2})
    [] d.dev = "ESD1004"   -> Only(d, {})
    [] d.dev = "IC0607KB"  -> [d.bar EXCEPT ![1] = d.bar[0] + 8]
    [] d.dev = "LF659KB"   -> Only(d, {1, 5})
    [] d.dev = "LF653KB"   -> Four(d, 32)
    [] d.dev = "LF662KB_FUNC1" -> Four(d, 1024)
    [] d.dev \in {"TOPCLIFF", "BAYTRAIL"} -> [d.bar EXCEPT ![1] = 0]
    [] OTHER               -> d.bar

RegDelta(d) ==
  IF d.dev \in {"XLP", "LF659KB", "LF653KB", "LF662KB_FUNC1", "BAYTRAIL"} THEN 4
  ELSE 1

\* setBaud is ns16550vxbHsuartBaudSet.
Hsuart(d) == d.dev = "BAYTRAIL"

\* ns16550vxbDevProbe: boards of which only the first two base addresses count.
TwoBars(d) == \/ d.dev = "COMPUSA" \/ d.dev = "XLP"
              \/ d.dev = "IC0607KB" /\ d.vend = "OXFORDSEMI"
DevProbe(d, i) == RegBase(d)[i] # 0 /\ (TwoBars(d) => i <= 1)

\* ns16550vxbProbe decides whether vxBus creates the instance at all.
SioProbe(d) == d.bus = "PCI" \/ \E i \in Bars : d.bar[i] # 0
-----------------------------------------------------------------------------
(* Rates.  A divisor is written as two bytes.                              *)

Xtal(d) == CASE d.bus = "PLB" -> d.clk
             [] d.vend = "EASYSYNC" -> PCI_CLK_FREQ * 8
             [] OTHER -> PCI_CLK_FREQ

DivisorValues == 65536
DivisorTruncated(xtal, rate) == ((xtal \div (8 * rate)) \div 2) % DivisorValues
Divisor(xtal, rate) == ((xtal \div (8 * rate) + 1) \div 2) % DivisorValues

BaudSet(c, rate) == [c EXCEPT !.baud = rate, !.div = Divisor(c.xtal, rate)]

\* The clock made with m = 6912 and n = 15625; an LSR of 0xff means there is no
\* device.  The rates with clocks of their own are above NS16550_MAX_RATE.
HSUART_CLK == 44236800
Lsr(d) == IF Hsuart(d) THEN {0, 255} ELSE {0}
HsuartBaudSet(c, rate, lsr) ==
  LET clocked == [c EXCEPT !.xtal = HSUART_CLK]
  IN  IF lsr = 255 THEN clocked ELSE BaudSet(clocked, rate)

SetBaud(c, rate, lsr) ==
  IF Hsuart(sioMachine[c.dev]) THEN HsuartBaudSet(c, rate, lsr)
  ELSE BaudSet(c, rate)
-----------------------------------------------------------------------------
(* ns16550vxbInstInit, the loop: one base address is a step.               *)

D == sioMachine[sioDev]
NextBar == sioBar' = sioBar + 1 /\ UNCHANGED sioDev
NextDevice == sioDev' = sioDev + 1 /\ sioBar' = 0
Initializing == sioStage = "init" /\ sioDev <= Len(sioMachine)

\* The number is drawn for every channel, and a PLB device's is overridden.
NumberForPci(d) == IF d.bus = "PLB" THEN sioNumber ELSE sioNumber + 1
NumberAfter(d) == sioNumber + 1
ChannelNo(d) == IF d.bus = "PLB" THEN d.unit ELSE sioNumber

NewChan(d, i) ==
  [dev |-> sioDev, base |-> RegBase(d)[i], delta |-> RegDelta(d), no |-> ChannelNo(d),
   xtal |-> Xtal(d), baud |-> 9600, div |-> 0]

\* Not an instance, or an XLP without its scratch register: nothing is made.
SioNoInstance ==
  /\ Initializing
  /\ ~SioProbe(D) \/ (D.dev = "XLP" /\ D.scratch = 0)
  /\ NextDevice
  /\ UNCHANGED <<sioMachine, sioStage, sioChans, sioNumber, sioReady, sioInts,
                 sioUser, sioClient, sioFails>>

\* One base address: none, no memory, no clock (a PLB device's, which ends the
\* routine), or a channel, which ns16550vxbDevInit then initializes.
SioInstInit ==
  /\ Initializing
  /\ SioProbe(D) /\ (D.dev = "XLP" => D.scratch # 0)
  /\ \/ /\ sioBar \notin Bars
        /\ NextDevice
        /\ UNCHANGED <<sioChans, sioNumber, sioFails>>
     \/ /\ sioBar \in Bars /\ ~DevProbe(D, sioBar)
        /\ NextBar
        /\ UNCHANGED <<sioChans, sioNumber, sioFails>>
     \/ /\ sioBar \in Bars /\ DevProbe(D, sioBar) /\ sioFails > 0
        /\ sioFails' = sioFails - 1
        /\ NextDevice
        /\ UNCHANGED <<sioChans, sioNumber>>
     \/ /\ sioBar \in Bars /\ DevProbe(D, sioBar) /\ D.bus = "PLB" /\ D.clk = 0
        /\ NextDevice
        /\ UNCHANGED <<sioChans, sioNumber, sioFails>>
     \/ /\ sioBar \in Bars /\ DevProbe(D, sioBar) /\ (D.bus = "PLB" => D.clk > 0)
        /\ \E lsr \in Lsr(D) :
             sioChans' = Append(sioChans, SetBaud(NewChan(D, sioBar), 9600, lsr))
        /\ sioNumber' = NumberAfter(D)
        /\ NextBar
        /\ UNCHANGED sioFails
  /\ UNCHANGED <<sioMachine, sioStage, sioReady, sioInts, sioUser, sioClient>>

\* vxBus calls ns16550vxbInstInit2 of every instance, then InstConnect.
SioInstInit2 ==
  /\ sioStage = "init" /\ sioDev > Len(sioMachine)
  /\ sioStage' = "connect" /\ sioDev' = 0
  /\ sioReady' = (\E d \in DOMAIN sioMachine : SioProbe(sioMachine[d]))
  /\ UNCHANGED <<sioMachine, sioBar, sioChans, sioNumber, sioInts, sioUser,
                 sioClient, sioFails>>
-----------------------------------------------------------------------------
(* ns16550vxbSioChanConnect and SioChanGet, run over all instances.        *)

Numbered(n) == {c \in DOMAIN sioChans : sioChans[c].no = n}

\* pDrvCtrl is a list with the newest first, searched device after device.
NewestOf(d, n) ==
  CHOOSE c \in Numbered(n) : /\ sioChans[c].dev = d
                             /\ \A b \in Numbered(n) : sioChans[b].dev = d => b <= c
DevicesWith(n) == {sioChans[c].dev : c \in Numbered(n)}

\* Connecting stops at the first device that has the number; getting goes on,
\* so the last one counts.
ChanConnected(n) ==
  NewestOf(CHOOSE d \in DevicesWith(n) : \A e \in DevicesWith(n) : d <= e, n)
ChanGot(n) ==
  NewestOf(CHOOSE d \in DevicesWith(n) : \A e \in DevicesWith(n) : d >= e, n)

SioChanConnectAll ==
  /\ sioStage = "connect" /\ sioDev = 0
  /\ sioInts' = {sioChans[c].dev : c \in DOMAIN sioChans}
  /\ sioStage' = "run"
  /\ UNCHANGED <<sioMachine, sioDev, sioBar, sioChans, sioNumber, sioReady, sioUser,
                 sioClient, sioFails>>

\* The utility's way: one number after the other.
SioChanConnect ==
  /\ sioStage = "connect"
  /\ IF Numbered(sioDev) = {} THEN sioStage' = "run" /\ UNCHANGED <<sioDev, sioInts>>
     ELSE /\ sioInts' = sioInts \cup {sioChans[ChanConnected(sioDev)].dev}
          /\ sioDev' = sioDev + 1
          /\ UNCHANGED sioStage
  /\ UNCHANGED <<sioMachine, sioBar, sioChans, sioNumber, sioReady, sioUser, sioClient,
                 sioFails>>

SioChanGet(n) ==
  /\ sioStage = "run" /\ sioUser = 0
  /\ Numbered(n) # {}
  /\ sioUser' = ChanGot(n)
  /\ UNCHANGED <<sioBoot, sioChans, sioClient>>
-----------------------------------------------------------------------------
(* The client of one channel.                                              *)

Using == sioStage = "run" /\ sioUser # 0

SioBaudSet(rate) ==
  /\ Using /\ rate \in NS16550_MIN_RATE..NS16550_MAX_RATE
  /\ \E lsr \in Lsr(sioMachine[sioChans[sioUser].dev]) :
       sioChans' = [sioChans EXCEPT ![sioUser] = SetBaud(@, rate, lsr)]
  /\ UNCHANGED <<sioBoot, sioUser, sioClient>>

\* ns16550vxbCallbackInstall: two stores, without the lock.
StoreCallback(c) ==
  /\ Using /\ sioHalf = "none"
  /\ SioLateInstall \/ sioMode = "undef"
  /\ sioRoutine[c] < SioMaxInstalls
  /\ sioRoutine' = [sioRoutine EXCEPT ![c] = @ + 1]
  /\ sioHalf' = c
  /\ UNCHANGED <<sioBoot, sioChans, sioUser, sioMode, sioIer, sioQueue, sioJobs,
                 sioArg, sioCalled>>

StoreArg ==
  /\ sioHalf # "none"
  /\ sioArg' = [sioArg EXCEPT ![sioHalf] = sioRoutine[sioHalf]]
  /\ sioHalf' = "none"
  /\ UNCHANGED <<sioBoot, sioChans, sioUser, sioMode, sioIer, sioQueue, sioJobs,
                 sioRoutine, sioCalled>>

\* Mode and options are set by the client or another task of the channel.
SioModeSet(m) ==
  /\ Using /\ (m = "INT" /\ ~SioLateInstall => sioHalf = "none")
  /\ sioMode' = m
  /\ sioIer' = (m = "INT")
  /\ sioQueue' = (sioQueue \/ m = "INT")
  /\ UNCHANGED <<sioBoot, sioChans, sioUser, sioJobs, sioRoutine, sioArg, sioHalf,
                 sioCalled>>

IerWritten == TRUE
IerKept == sioMode = "INT"      \* otherwise IER is left at ierInit
SioOptsSet ==
  /\ Using
  /\ sioIer' = IerKept
  /\ UNCHANGED <<sioBoot, sioChans, sioUser, sioMode, sioQueue, sioJobs, sioRoutine,
                 sioArg, sioHalf, sioCalled>>

\* ns16550vxbInt defers a job; the interrupt must be connected to come at all.
SioInterrupt(c) ==
  /\ Using /\ sioIer /\ sioChans[sioUser].dev \in sioInts
  /\ sioJobs' = sioJobs \cup {c}
  /\ UNCHANGED <<sioBoot, sioChans, sioUser, sioMode, sioIer, sioQueue, sioRoutine,
                 sioArg, sioHalf, sioCalled>>

\* The worker calls the routine with the argument it finds, and writes IER.
SioJob(c) ==
  /\ c \in sioJobs
  /\ sioJobs' = sioJobs \ {c}
  /\ sioCalled' = <<sioRoutine[c], sioArg[c]>>
  /\ sioIer' = TRUE
  /\ UNCHANGED <<sioBoot, sioChans, sioUser, sioMode, sioQueue, sioRoutine, sioArg,
                 sioHalf>>

SioNext ==
  \/ SioNoInstance
  \/ SioInstInit
  \/ SioInstInit2
  \/ SioChanConnectAll
  \/ SioChanConnect
  \/ \E n \in 0..sioNumber : SioChanGet(n)
  \/ \E rate \in SioRates : SioBaudSet(rate)
  \/ \E c \in SioCallbacks : StoreCallback(c)
  \/ StoreArg
  \/ \E m \in {"POLL", "INT"} : SioModeSet(m)
  \/ SioOptsSet
  \/ \E c \in SioCallbacks : SioInterrupt(c)
  \/ \E c \in SioCallbacks : SioJob(c)

SioSpec == SioInit /\ [][SioNext]_sioVars
-----------------------------------------------------------------------------
(* Machines: what the proofs assume of them beside their types.            *)

\* What hwconf.c promises: the PLB's devices come first, with one base address
\* each and the units 0, 1, 2..., and only the last may lack address or clock.
HwConfTable ==
  \A m \in SioMachines : \A k \in DOMAIN m :
    m[k].bus = "PLB" =>
      /\ m[k].dev = "COM" /\ m[k].unit = k - 1
      /\ \A i \in Bars : i # 0 => m[k].bar[i] = 0
      /\ \A j \in 1..(k - 1) : m[j].bus = "PLB" /\ m[j].bar[0] # 0 /\ m[j].clk > 0

\* A clock that the divisor of the least rate can divide: 50 baud is 800 clocks.
MaxClock == 800 * DivisorValues - 400
ClocksInRange ==
  \A m \in SioMachines : \A k \in DOMAIN m : m[k].bus = "PLB" => m[k].clk < MaxClock

\* Where the boards have their UARTs, as the comments of ns16550vxbInstInit say: the
\* base addresses that are of UARTs, and how long the registers at each are.
UartBars(d) ==
  CASE d.dev \in {"XLP"}                        -> {0}
    [] d.dev \in {"IC0607KB"}                   -> {0}
    [] d.dev \in {"LF653KB", "LF662KB_FUNC1"}   -> {1}
    [] d.dev \in {"ESD1001"}                    -> {i \in {1} : d.bar[i] # 0}
    [] d.dev \in {"ESD1002"}                    -> {i \in {1, 2} : d.bar[i] # 0}
    [] d.dev \in {"ESD1004"}                    -> {}
    [] d.dev \in {"LF659KB"}                    -> {i \in {1, 5} : d.bar[i] # 0}
    [] d.dev \in {"COMPUSA"}                    -> {i \in {0, 1} : d.bar[i] # 0}
    [] d.dev \in {"TOPCLIFF", "BAYTRAIL"}       -> {i \in Bars \ {1} : d.bar[i] # 0}
    [] OTHER                                    -> {i \in Bars : d.bar[i] # 0}
UartStart(d, i) == IF d.dev = "XLP" THEN d.scratch + 256 ELSE d.bar[i]
UartLength(d) ==
  CASE d.dev = "IC0607KB" -> 16 [] d.dev = "LF653KB" -> 128 [] d.dev = "LF662KB_FUNC1" -> 4096
    [] OTHER -> 8 * RegDelta(d)

\* DevProbe takes two base addresses of the IC0607KB with the vendor OXFORDSEMI and
\* all of the one with AXXON (lines 991 to 998): the driver makes channels on
\* these too, although two UARTs are pinned out (line 331), both at base address 0.
StrayBars(d) ==
  {i \in 2..5 : d.dev = "IC0607KB" /\ d.vend # "OXFORDSEMI" /\ d.bar[i] # 0}
DriverBars(d) == UartBars(d) \cup StrayBars(d)
UartEnd(d, i) ==
  UartStart(d, i) + IF i \in StrayBars(d) THEN 8 ELSE UartLength(d)

\* The UARTs' registers are the board's, no two base addresses that the driver uses
\* share a register, and the one that others are computed from has been assigned.
Instance(d) == SioProbe(d) /\ (d.dev = "XLP" => d.scratch # 0)
UartsOfBoards ==
  \A m \in SioMachines : \A k \in DOMAIN m :
    LET d == m[k]
    IN  Instance(d) =>
          /\ \A i \in UartBars(d) :
               \E u \in d.uart : u[1] <= UartStart(d, i) /\ UartEnd(d, i) <= u[1] + u[2]
          /\ \A j \in DOMAIN m : \A i \in DriverBars(d), h \in DriverBars(m[j]) :
               Instance(m[j]) /\ (k # j \/ i # h)
                 => \/ UartEnd(d, i) <= UartStart(m[j], h)
                    \/ UartEnd(m[j], h) <= UartStart(d, i)
          /\ d.dev = "IC0607KB" => d.bar[0] # 0
          /\ d.dev \in {"LF653KB", "LF662KB_FUNC1"} => d.bar[1] # 0
-----------------------------------------------------------------------------
(* Properties.                                                             *)

\* Every variable stays in its type.
SioTypeOK ==
  /\ sioMachine \in SioMachines
  /\ sioStage \in {"init", "connect", "run"}
  /\ sioDev \in Nat /\ sioBar \in Nat /\ sioNumber \in Nat
  /\ sioChans \in Seq([dev : Nat, base : Nat, delta : {1, 4}, no : Nat, xtal : Nat,
                       baud : Nat, div : 0..(DivisorValues - 1)])
  /\ sioReady \in BOOLEAN
  /\ sioInts \subseteq Nat
  /\ sioUser \in 0..Len(sioChans)
  /\ sioMode \in {"undef", "POLL", "INT"}
  /\ sioIer \in BOOLEAN /\ sioQueue \in BOOLEAN
  /\ sioJobs \subseteq SioCallbacks
  /\ sioRoutine \in [SioCallbacks -> Nat] /\ sioArg \in [SioCallbacks -> Nat]
  /\ sioHalf \in SioCallbacks \cup {"none"}
  /\ sioCalled \in Nat \X Nat
  /\ sioFails \in Nat

LastReg(c) == c.base + 7 * c.delta
InUart(c) == \E u \in sioMachine[c.dev].uart :
                u[1] <= c.base /\ LastReg(c) < u[1] + u[2]
OnStrayBar(c) ==
  LET d == sioMachine[c.dev] IN \E i \in StrayBars(d) : c.base = d.bar[i]
Disjoint(b, c) == LastReg(b) < c.base \/ LastReg(c) < b.base

\* The base addresses are remapped board by board (lines 1251 to 1453) and then
\* probed; each channel's eight registers must lie in registers of the board's
\* UARTs, but for the channels made on base addresses 2 to 5 of an AXXON
\* IC0607KB, and no two channels of the machine, those included, may share one.
SioOwnUart ==
  /\ \A c \in DOMAIN sioChans : InUart(sioChans[c]) \/ OnStrayBar(sioChans[c])
  /\ \A b, c \in DOMAIN sioChans :
       b # c => Disjoint(sioChans[b], sioChans[c])

\* Without that exception, which the code does not bear out: "UART 0 = BAR 0, UART
\* 1 = BAR 0 + 8 ... and we are done" (lines 1333 to 1337).
SioAllInUarts == \A c \in DOMAIN sioChans : InUart(sioChans[c])

\* Numbers come from a counter and from the unit numbers of hwconf.c; as long as
\* every channel of the PLB devices could be made, no number is given twice
\* (lines 1677 to 1689).
SioNumbersUnique ==
  sioFails = SioMaxFails
    => \A b, c \in DOMAIN sioChans :
         sioChans[b].no = sioChans[c].no => b = c

\* SioChanGet takes the last channel of a number and SioChanConnect the first
\* (lines 1838 and 1952): without failures the channel a client gets is one
\* whose interrupt has been connected.
SioGotIsConnected ==
  sioUser # 0 /\ sioFails = SioMaxFails => sioChans[sioUser].dev \in sioInts

\* CallbackInstall stores routine and argument separately and ModeSet makes the
\* queue (lines 3220 and 2515).  A client that installs before SIO_MODE_INT is
\* never called with another routine's argument, and no job is deferred to a
\* queue that does not exist, whatever options are set meanwhile.
SioCallbackSound ==
  /\ sioCalled[1] = sioCalled[2]
  /\ sioIer \/ sioJobs # {} => sioQueue

Abs(x) == IF x < 0 THEN -x ELSE x
Honoured(c) == Abs(16 * c.baud * c.div - c.xtal) <= 8 * c.baud

\* The divisor written is the one nearest to the rate asked for, for every board's
\* clock, from 50 baud, where it must fit two bytes, to 115200.
SioRateNearest ==
  \A c \in DOMAIN sioChans :
    sioChans[c].div # 0 /\ sioChans[c].baud <= 115200 => Honoured(sioChans[c])

\* As much for every rate that SIO_BAUD_SET accepts (line 2601).
SioRateHonoured ==
  \A c \in DOMAIN sioChans :
    \/ Hsuart(sioMachine[sioChans[c].dev])
    \/ sioChans[c].div # 0 /\ Honoured(sioChans[c])
=============================================================================
