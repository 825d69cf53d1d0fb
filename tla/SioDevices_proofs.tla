-------------------------- MODULE SioDevices_proofs ---------------------------
(***************************************************************************)
(* Proofs about SioDevices, for any machines, rates and bounds.            *)
(***************************************************************************)
EXTENDS SioDevices, SequenceTheorems, FiniteSetTheorems, WellFoundedInduction, TLAPS

-----------------------------------------------------------------------------
(* Sets of numbers.                                                        *)

\* A set of numbers has a least one.
LEMMA LeastNat ==
  ASSUME NEW T, T \subseteq Nat, T # {}
  PROVE  \E m \in T : \A n \in T : m <= n
<1> DEFINE R == StrictSubsetOrdering(Nat)
           S == FiniteSubsetsOf(Nat)
           I == {1..n : n \in T}
<1>1. IsWellFoundedOn(R, S)
  BY FS_StrictSubsetOrderingWellFounded
<1>2. I \subseteq S
  <2>1. \A n \in Nat : IsFiniteSet(1..n)
    BY FS_Interval
  <2> QED
    BY <2>1 DEF FiniteSubsetsOf
<1>3. I # {}
  OBVIOUS
<1>4. PICK x \in I : \A y \in I : <<y, x>> \notin R
  <2> HIDE DEF R, S, I
  <2> QED
    BY <1>1, <1>2, <1>3, WFMin
<1>5. PICK m \in T : x = 1..m
  BY <1>4
<1>6. ASSUME NEW n \in T, n < m PROVE FALSE
  <2>1. n \in Nat /\ m \in Nat
    OBVIOUS
  <2>2. 1..n \in I
    OBVIOUS
  <2>3. 1..n \subseteq 1..m /\ m \in 1..m /\ m \notin 1..n
    BY <1>6, <2>1
  <2>4. <<1..n, 1..m>> \notin R
    <3> HIDE DEF R, I
    <3> QED
      BY <1>4, <1>5, <2>2
  <2>5. 1..n \in SUBSET Nat /\ 1..m \in SUBSET Nat
    BY <2>1
  <2>6. <<1..n, 1..m>> \in R
    <3> DEFINE a == 1..n
               b == 1..m
    <3>1. a \in SUBSET Nat /\ b \in SUBSET Nat /\ a \subseteq b /\ a # b
      BY <2>3, <2>5
    <3> HIDE DEF a, b
    <3>2. <<a, b>> \in StrictSubsetOrdering(Nat)
      BY <3>1 DEF StrictSubsetOrdering
    <3> QED
      BY <3>2 DEF a, b
  <2> QED
    BY <2>4, <2>6
<1> QED
  BY <1>6

\* A set of numbers with a bound has a greatest one.
LEMMA GreatestNat ==
  ASSUME NEW b \in Nat, NEW T, T \subseteq 0..b, T # {}
  PROVE  \E m \in T : \A n \in T : m >= n
<1> DEFINE S == {b - t : t \in T}
<1>0. \A t \in T : t \in 0..b
  OBVIOUS
<1>1. S \subseteq Nat /\ S # {}
  <2>1. \A t \in T : b - t \in Nat
    BY <1>0
  <2>2. S \subseteq Nat
    BY <2>1
  <2> QED
    BY <2>2
<1>2. PICK k \in S : \A j \in S : k <= j
  <2> HIDE DEF S
  <2> QED
    BY <1>1, LeastNat
<1>3. PICK m \in T : k = b - m
  BY <1>2
<1>4. ASSUME NEW n \in T PROVE m >= n
  <2>1. b - m <= b - n
    BY <1>2, <1>3
  <2>2. m \in 0..b /\ n \in 0..b
    BY <1>0
  <2>3. m \in Nat /\ n \in Nat
    BY <2>2
  <2> QED
    BY <2>1, <2>3
<1> QED
  BY <1>4

-----------------------------------------------------------------------------
(* The client's callbacks.                                                 *)

\* The type of the client's part of the state.
ClientType ==
  /\ sioMode \in {"undef", "POLL", "INT"}
  /\ sioQueue \in BOOLEAN
  /\ sioJobs \subseteq SioCallbacks
  /\ sioRoutine \in [SioCallbacks -> Nat] /\ sioArg \in [SioCallbacks -> Nat]
  /\ sioHalf \in SioCallbacks \cup {"none"}

\* A half-installed callback is one of a channel that never was in interrupt
\* mode, all others are whole, and only interrupt mode makes the queue.
CallbackInv ==
  /\ ClientType
  /\ sioMode = "undef" => ~sioQueue
  /\ sioMode = "INT" => sioQueue
  /\ sioHalf # "none" => ~sioQueue
  /\ \A c \in SioCallbacks : c # sioHalf => sioRoutine[c] = sioArg[c]
  /\ SioCallbackSound

\* The invariant holds initially.
LEMMA CallbackInit == SioInit => CallbackInv
<1> SUFFICES ASSUME SioInit PROVE CallbackInv
  OBVIOUS
<1>1. sioMode = "undef" /\ sioIer = FALSE /\ sioQueue = FALSE /\ sioJobs = {}
  BY DEF SioInit
<1>2. /\ sioRoutine = [c \in SioCallbacks |-> 0]
      /\ sioArg = [c \in SioCallbacks |-> 0]
      /\ sioHalf = "none" /\ sioCalled = <<0, 0>>
  BY DEF SioInit
<1>3. ClientType
  BY <1>1, <1>2 DEF ClientType
<1>4. SioCallbackSound
  BY <1>1, <1>2 DEF SioCallbackSound
<1>5. \A c \in SioCallbacks : c # sioHalf => sioRoutine[c] = sioArg[c]
  BY <1>2
<1> QED
  BY <1>1, <1>2, <1>3, <1>4, <1>5 DEF CallbackInv

\* Every step keeps it, when callbacks are installed before interrupt mode.
LEMMA CallbackStep ==
  ASSUME ~SioLateInstall, CallbackInv, [SioNext]_sioVars
  PROVE  CallbackInv'
<1> USE DEF CallbackInv, ClientType, SioCallbackSound, SioCallbacks
<1>1. ASSUME UNCHANGED sioClient
      PROVE  CallbackInv'
  BY <1>1 DEF sioClient
<1>2. ASSUME NEW c \in SioCallbacks, StoreCallback(c)
      PROVE  CallbackInv'
  <2>1. sioMode = "undef" /\ sioHalf = "none" /\ ~sioQueue
    BY <1>2 DEF StoreCallback
  <2> QED
    BY <1>2, <2>1 DEF StoreCallback
<1>3. ASSUME StoreArg
      PROVE  CallbackInv'
  BY <1>3 DEF StoreArg
<1>4. ASSUME NEW m \in {"POLL", "INT"}, SioModeSet(m)
      PROVE  CallbackInv'
  BY <1>4 DEF SioModeSet
<1>5. ASSUME SioOptsSet
      PROVE  CallbackInv'
  BY <1>5 DEF SioOptsSet, IerKept
<1>6. ASSUME NEW c \in SioCallbacks, SioInterrupt(c)
      PROVE  CallbackInv'
  BY <1>6 DEF SioInterrupt
<1>7. ASSUME NEW c \in SioCallbacks, SioJob(c)
      PROVE  CallbackInv'
  <2>1. sioQueue /\ sioHalf = "none"
    BY <1>7 DEF SioJob
  <2>2. sioRoutine[c] = sioArg[c]
    BY <1>7, <2>1
  <2> QED
    BY <1>7, <2>1, <2>2 DEF SioJob
<1> QED
  BY <1>1, <1>2, <1>3, <1>4, <1>5, <1>6, <1>7
     DEF SioNext, sioVars, SioNoInstance, SioInstInit, SioInstInit2, SioChanConnectAll,
         SioChanConnect, SioChanGet, SioBaudSet

\* A client that installs its callbacks before SIO_MODE_INT is never called with
\* another routine's argument, and nothing is deferred to a queue that does not
\* exist (ns16550vxbCallbackInstall, ns16550vxbModeSet, ns16550vxbOptsSet).
THEOREM SioCallbacksSound ==
  ASSUME ~SioLateInstall
  PROVE  SioSpec => []SioCallbackSound
<1>1. CallbackInv => SioCallbackSound
  BY DEF CallbackInv
<1> QED
  BY <1>1, CallbackInit, CallbackStep, PTL DEF SioSpec
-----------------------------------------------------------------------------
(* The channels that are made.                                             *)

Chan == [dev : Nat, base : Nat, delta : {1, 4}, no : Nat, xtal : Nat, baud : Nat,
         div : 0..(DivisorValues - 1)]

\* The type of the driver's part of the state.
ChansType ==
  /\ sioMachine \in SioMachines
  /\ sioStage \in {"init", "connect", "run"}
  /\ sioDev \in Nat /\ sioBar \in Nat /\ sioNumber \in Nat
  /\ sioStage = "init" => sioDev > 0
  /\ sioChans \in Seq(Chan)
  /\ sioFails \in Nat /\ sioFails <= SioMaxFails

\* A board's base addresses are addresses after the remapping, too.
LEMMA RegBaseType ==
  ASSUME NEW d, SioDevice(d)
  PROVE  RegBase(d) \in [Bars -> Nat]
<1>1. d.bar \in [Bars -> Nat] /\ d.scratch \in Nat
  BY DEF SioDevice
<1>2. ASSUME NEW S PROVE Only(d, S) \in [Bars -> Nat]
  BY <1>1 DEF Only
<1>3. ASSUME NEW s \in Nat PROVE Four(d, s) \in [Bars -> Nat]
  <2>1. ASSUME NEW i \in 3..5 PROVE d.bar[1] + (i - 2) * s \in Nat
    <3>1. d.bar[1] \in Nat
      BY <1>1 DEF Bars, VXB_MAXBARS
    <3>2. CASE i = 3
      BY <3>1, <3>2
    <3>3. CASE i = 4
      BY <3>1, <3>3
    <3>4. CASE i = 5
      BY <3>1, <3>4
    <3> QED
      BY <3>2, <3>3, <3>4
  <2> QED
    BY <1>1, <2>1 DEF Four, Bars, VXB_MAXBARS
<1>4. [i \in Bars |-> IF i = 0 THEN d.scratch + 259 ELSE 0] \in [Bars -> Nat]
  BY <1>1
<1>5. [d.bar EXCEPT ![1] = d.bar[0] + 8] \in [Bars -> Nat]
  BY <1>1 DEF Bars, VXB_MAXBARS
<1>6. [d.bar EXCEPT ![1] = 0] \in [Bars -> Nat]
  BY <1>1
<1>7. CASE d.dev = "XLP"
  BY <1>4, <1>7 DEF RegBase
<1>8. CASE d.dev \in {"ESD1001", "ESD1002", "ESD1004", "LF659KB"}
  BY <1>2, <1>8 DEF RegBase
<1>9. CASE d.dev \in {"LF653KB", "LF662KB_FUNC1"}
  BY <1>3, <1>9 DEF RegBase
<1>10. CASE d.dev \in {"IC0607KB", "TOPCLIFF", "BAYTRAIL"}
  BY <1>5, <1>6, <1>10 DEF RegBase
<1>11. CASE d.dev \notin {"XLP", "ESD1001", "ESD1002", "ESD1004", "LF659KB", "LF653KB",
                         "LF662KB_FUNC1", "IC0607KB", "TOPCLIFF", "BAYTRAIL"}
  BY <1>1, <1>11 DEF RegBase
<1> QED
  BY <1>7, <1>8, <1>9, <1>10, <1>11

\* Division, and the two bytes of the divisor.
LEMMA Quotient ==
  ASSUME NEW x \in Nat, NEW r \in Nat, r > 0
  PROVE  x \div r \in Nat /\ (x \div r) * r <= x /\ x < (x \div r) * r + r
BY SMT

LEMMA TwoBytes ==
  ASSUME NEW n \in Nat
  PROVE  /\ n % DivisorValues \in 0..(DivisorValues - 1)
         /\ n < DivisorValues => n % DivisorValues = n
<1>1. DivisorValues \in Nat /\ DivisorValues > 0
  BY DEF DivisorValues
<1> QED
  BY <1>1, SMT

\* A divisor fits its two bytes.
LEMMA DivisorType ==
  ASSUME NEW x \in Nat, NEW r \in Nat \ {0}
  PROVE  Divisor(x, r) \in 0..(DivisorValues - 1)
<1>1. 8 * r \in Nat /\ 8 * r > 0
  OBVIOUS
<1> DEFINE q == x \div (8 * r)
           h == (q + 1) \div 2
<1>2. q \in Nat
  BY <1>1, Quotient
<1> HIDE DEF q
<1>3. h \in Nat
  BY <1>2, Quotient
<1>4. Divisor(x, r) = h % DivisorValues
  BY DEF Divisor, q
<1> HIDE DEF h
<1> QED
  BY <1>3, <1>4, TwoBytes

\* Setting a rate keeps the device and the number of a channel.
LEMMA SetBaudType ==
  ASSUME NEW c \in Chan, NEW r \in Nat \ {0}, NEW lsr
  PROVE  /\ SetBaud(c, r, lsr) \in Chan
         /\ SetBaud(c, r, lsr).no = c.no
         /\ SetBaud(c, r, lsr).dev = c.dev
<1>1. ASSUME NEW b \in Chan
      PROVE  BaudSet(b, r) \in Chan /\ BaudSet(b, r).no = b.no /\ BaudSet(b, r).dev = b.dev
  <2>1. Divisor(b.xtal, r) \in 0..(DivisorValues - 1)
    <3>1. b.xtal \in Nat
      BY DEF Chan
    <3> QED
      BY <3>1, DivisorType
  <2> QED
    BY <2>1 DEF BaudSet, Chan
<1>2. [c EXCEPT !.xtal = HSUART_CLK] \in Chan
  BY DEF Chan, HSUART_CLK
<1>3. /\ [c EXCEPT !.xtal = HSUART_CLK].no = c.no
      /\ [c EXCEPT !.xtal = HSUART_CLK].dev = c.dev
  BY DEF Chan
<1> QED
  BY <1>1, <1>2, <1>3 DEF SetBaud, HsuartBaudSet

\* The device a step of InstInit is at.
LEMMA CurrentDevice ==
  ASSUME ChansType, Initializing
  PROVE  sioDev \in DOMAIN sioMachine /\ SioDevice(D)
<1>1. sioMachine \in Seq({sioMachine[k] : k \in DOMAIN sioMachine})
  BY SioAssumption DEF ChansType
<1>2. sioDev \in DOMAIN sioMachine
  BY <1>1 DEF ChansType, Initializing
<1> QED
  BY <1>2, SioAssumption DEF ChansType, D

\* A channel as it is made.
LEMMA NewChanType ==
  ASSUME ChansType, Initializing, sioBar \in Bars
  PROVE  NewChan(D, sioBar) \in Chan
<1>1. SioDevice(D)
  BY CurrentDevice
<1>2. RegBase(D)[sioBar] \in Nat
  BY <1>1, RegBaseType
<1>3. Xtal(D) \in Nat /\ ChannelNo(D) \in Nat
  BY <1>1 DEF Xtal, ChannelNo, SioDevice, PCI_CLK_FREQ, ChansType
<1>4. RegDelta(D) \in {1, 4}
  BY DEF RegDelta
<1>5. sioDev \in Nat /\ 0 \in 0..(DivisorValues - 1)
  BY DEF ChansType, DivisorValues
<1> QED
  BY <1>2, <1>3, <1>4, <1>5 DEF NewChan, Chan

\* The channel that is made of a base address, with its first rate.
Initialized(lsr) == SetBaud(NewChan(D, sioBar), 9600, lsr)

\* The type holds initially and is kept.
LEMMA ChansTypeKept ==
  /\ SioInit => ChansType
  /\ ChansType /\ [SioNext]_sioVars => ChansType'
<1>1. SioInit => ChansType
  BY SioAssumption DEF SioInit, ChansType
<1> SUFFICES ASSUME ChansType, [SioNext]_sioVars PROVE ChansType'
  BY <1>1
<1>2. CASE SioNoInstance
  BY <1>2 DEF SioNoInstance, NextDevice, ChansType
<1>3. CASE SioInstInit
  <2>1. ASSUME sioBar \in Bars, NEW lsr
        PROVE  Initialized(lsr) \in Chan
    BY <1>3, <2>1, NewChanType, SetBaudType DEF SioInstInit, Initialized
  <2>2. sioChans' \in Seq(Chan)
    <3>1. CASE UNCHANGED sioChans
      BY <3>1 DEF ChansType
    <3>2. ASSUME sioBar \in Bars, NEW lsr, sioChans' = Append(sioChans, Initialized(lsr))
          PROVE  sioChans' \in Seq(Chan)
      BY <2>1, <3>2 DEF ChansType
    <3> QED
      BY <1>3, <3>1, <3>2 DEF SioInstInit, Initialized
  <2>3. /\ sioNumber' \in Nat /\ sioFails' \in Nat /\ sioFails' <= SioMaxFails
        /\ sioDev' \in Nat /\ sioBar' \in Nat /\ sioDev' > 0
    <3>1. /\ sioNumber \in Nat /\ sioFails \in Nat /\ sioFails <= SioMaxFails
          /\ sioDev \in Nat /\ sioBar \in Nat /\ sioDev > 0
      BY <1>3 DEF SioInstInit, Initializing, ChansType
    <3>2. NextDevice \/ NextBar
      BY <1>3 DEF SioInstInit
    <3>3. sioNumber' \in {sioNumber, sioNumber + 1}
      BY <1>3 DEF SioInstInit, NumberAfter
    <3>4. UNCHANGED sioFails \/ (sioFails > 0 /\ sioFails' = sioFails - 1)
      BY <1>3 DEF SioInstInit
    <3>5. sioDev' \in Nat /\ sioBar' \in Nat /\ sioDev' > 0
      BY <3>1, <3>2 DEF NextDevice, NextBar
    <3>6. sioFails' \in Nat /\ sioFails' <= SioMaxFails
      BY <3>1, <3>4, SioAssumption
    <3> QED
      BY <3>1, <3>3, <3>5, <3>6
  <2>4. UNCHANGED <<sioMachine, sioStage>>
    BY <1>3 DEF SioInstInit
  <2> QED
    BY <2>2, <2>3, <2>4 DEF ChansType
<1>4. CASE SioInstInit2
  BY <1>4 DEF SioInstInit2, ChansType
<1>5. CASE SioChanConnectAll \/ SioChanConnect
  BY <1>5 DEF SioChanConnectAll, SioChanConnect, ChansType
<1>6. ASSUME NEW r \in SioRates, SioBaudSet(r)
      PROVE  ChansType'
  <2>1. r \in Nat \ {0}
    BY SioAssumption
  <2>2. PICK lsr : sioChans' = [sioChans EXCEPT ![sioUser] = SetBaud(@, r, lsr)]
    BY <1>6 DEF SioBaudSet
  <2>3. sioUser \in DOMAIN sioChans => SetBaud(sioChans[sioUser], r, lsr) \in Chan
    BY <2>1, SetBaudType, ElementOfSeq DEF ChansType
  <2>4. sioChans' \in Seq(Chan)
    <3>1. sioChans \in Seq(Chan)
      BY DEF ChansType
    <3>2. CASE sioUser \in DOMAIN sioChans
      <4>1. sioUser \in 1..Len(sioChans)
        BY <3>1, <3>2
      <4> QED
        BY <2>2, <2>3, <3>1, <3>2, <4>1, ExceptSeq
    <3>3. CASE sioUser \notin DOMAIN sioChans
      <4>1. sioChans' = sioChans
        BY <2>2, <3>1, <3>3, LenProperties
      <4> QED
        BY <3>1, <4>1
    <3> QED
      BY <3>2, <3>3
  <2> QED
    BY <1>6, <2>4 DEF SioBaudSet, sioBoot, ChansType
<1>7. CASE UNCHANGED <<sioBoot, sioChans>>
  BY <1>7 DEF sioBoot, ChansType
<1> QED
  BY <1>2, <1>3, <1>4, <1>5, <1>6, <1>7
     DEF SioNext, sioVars, SioChanGet, StoreCallback, StoreArg, SioModeSet, SioOptsSet,
         SioInterrupt, SioJob

-----------------------------------------------------------------------------
(* Channel numbers.                                                        *)

NoFailure == sioFails = SioMaxFails
Makes(d) == d.bar[0] # 0 /\ d.clk > 0

\* Without failures the channels have the numbers 0, 1, 2... in the order they
\* were made, since a unit number is what the counter has come to.
InOrder ==
  NoFailure =>
    /\ sioNumber = Len(sioChans)
    /\ \A c \in 1..Len(sioChans) : sioChans[c].no = c - 1
UnitIsNext ==
  NoFailure /\ Initializing /\ D.bus = "PLB" =>
    /\ sioBar = 0 => sioNumber = sioDev - 1
    /\ sioBar # 0 /\ Makes(D) => sioNumber = sioDev
NumberInv == ChansType /\ InOrder /\ UnitIsNext

\* A device of the PLB has one base address, and those before it made a channel.
LEMMA PlbDevice ==
  ASSUME HwConfTable, ChansType, Initializing, D.bus = "PLB"
  PROVE  /\ D.dev = "COM" /\ D.unit = sioDev - 1
         /\ \A i \in Bars : DevProbe(D, i) <=> i = 0 /\ D.bar[0] # 0
         /\ \A j \in 1..(sioDev - 1) : sioMachine[j].bus = "PLB" /\ Makes(sioMachine[j])
<1>1. sioDev \in DOMAIN sioMachine /\ sioMachine \in SioMachines
  BY CurrentDevice DEF ChansType
<1>2. /\ D.dev = "COM" /\ D.unit = sioDev - 1
      /\ \A i \in Bars : i # 0 => D.bar[i] = 0
      /\ \A j \in 1..(sioDev - 1) : sioMachine[j].bus = "PLB" /\ Makes(sioMachine[j])
  BY <1>1 DEF HwConfTable, D, Makes
<1>3. RegBase(D) = D.bar
  BY <1>2 DEF RegBase
<1>4. ~TwoBars(D)
  BY <1>2 DEF TwoBars
<1> QED
  BY <1>2, <1>3, <1>4 DEF DevProbe

\* Going on to the next device.
LEMMA UnitOfNext ==
  ASSUME HwConfTable, NumberInv, ChansType', Initializing, NextDevice,
         UNCHANGED <<sioMachine, sioNumber, sioFails>>,
         D.bus = "PLB" /\ Makes(D) => sioBar # 0
  PROVE  UnitIsNext'
<1> SUFFICES ASSUME NoFailure', Initializing', D'.bus = "PLB"
             PROVE  sioNumber = sioDev'  - 1
  <2>1. sioBar' = 0 /\ sioNumber' = sioNumber
    BY DEF NextDevice
  <2> QED
    BY <2>1 DEF UnitIsNext
<1>1. sioDev' = sioDev + 1 /\ sioDev \in Nat /\ sioDev > 0
  BY DEF NextDevice, NumberInv, ChansType, Initializing
<1>2. sioDev' \in DOMAIN sioMachine /\ sioMachine \in SioMachines
  <2>1. sioMachine \in Seq({sioMachine[k] : k \in DOMAIN sioMachine})
    BY SioAssumption DEF NumberInv, ChansType
  <2>2. sioDev' <= Len(sioMachine)
    BY DEF Initializing
  <2> QED
    BY <1>1, <2>1, <2>2 DEF NumberInv, ChansType
<1>3. sioMachine[sioDev'].bus = "PLB"
  BY DEF D
<1>4. D.bus = "PLB" /\ Makes(D)
  BY <1>1, <1>2, <1>3 DEF HwConfTable, D, Makes
<1>5. sioNumber = sioDev
  BY <1>4 DEF NumberInv, UnitIsNext, NoFailure
<1> QED
  BY <1>1, <1>5

\* The numbers stay in order when a base address is passed or a channel made.
LEMMA NumberInstInit ==
  ASSUME HwConfTable, NumberInv, ChansType', SioInstInit
  PROVE  InOrder' /\ UnitIsNext'
<1> USE DEF NoFailure
<1>0. /\ Initializing /\ SioProbe(D)
      /\ UNCHANGED <<sioMachine, sioStage>>
      /\ ChansType
  BY DEF SioInstInit, NumberInv
<1>1. ASSUME D.bus = "PLB"
      PROVE  \A i \in Bars : DevProbe(D, i) <=> i = 0 /\ D.bar[0] # 0
  BY <1>0, <1>1, PlbDevice
<1>2. CASE UNCHANGED <<sioChans, sioNumber, sioFails>> /\ NextDevice
           /\ (D.bus = "PLB" /\ Makes(D) => sioBar # 0)
  BY <1>0, <1>2, UnitOfNext DEF NumberInv, InOrder
<1>3. CASE /\ UNCHANGED <<sioChans, sioNumber, sioFails>> /\ NextBar
           /\ sioBar \in Bars /\ ~DevProbe(D, sioBar)
  <2>1. D' = D /\ sioBar' # 0
    BY <1>0, <1>3 DEF NextBar, D, ChansType
  <2>2. D.bus = "PLB" /\ Makes(D) => sioBar # 0
    BY <1>1, <1>3 DEF Makes
  <2>3. Initializing' => Initializing
    BY <1>0
  <2>4. sioDev' = sioDev
    BY <1>3 DEF NextBar
  <2> QED
    BY <1>3, <2>1, <2>2, <2>3, <2>4 DEF NumberInv, InOrder, UnitIsNext
<1>4. CASE sioFails > 0 /\ sioFails' = sioFails - 1
  <2>1. ~NoFailure'
    BY <1>0, <1>4, SioAssumption DEF ChansType
  <2> QED
    BY <2>1 DEF InOrder, UnitIsNext
<1>5. ASSUME NEW lsr, sioBar \in Bars, DevProbe(D, sioBar),
             sioChans' = Append(sioChans, Initialized(lsr)),
             sioNumber' = NumberAfter(D), NextBar, UNCHANGED sioFails
      PROVE  InOrder' /\ UnitIsNext'
  <2> SUFFICES ASSUME NoFailure PROVE InOrder' /\ UnitIsNext'
    BY <1>5 DEF InOrder, UnitIsNext
  <2>1. sioNumber = Len(sioChans) /\ \A c \in 1..Len(sioChans) : sioChans[c].no = c - 1
    BY DEF NumberInv, InOrder
  <2>2. sioChans \in Seq(Chan)
    BY <1>0 DEF ChansType
  <2>3. /\ Len(sioChans') = Len(sioChans) + 1
        /\ \A c \in 1..Len(sioChans) : sioChans'[c] = sioChans[c]
        /\ sioChans'[Len(sioChans) + 1] = Initialized(lsr)
        /\ Len(sioChans) \in Nat
    BY <1>5, <2>2, AppendProperties, NewChanType, SetBaudType, <1>0 DEF Initialized
  <2>4. Initialized(lsr).no = ChannelNo(D)
    <3>1. NewChan(D, sioBar) \in Chan
      BY <1>0, <1>5, NewChanType
    <3>2. Initialized(lsr).no = NewChan(D, sioBar).no
      BY <3>1, SetBaudType DEF Initialized
    <3> QED
      BY <3>2 DEF NewChan
  <2>5. ASSUME D.bus = "PLB"
        PROVE  sioBar = 0 /\ sioNumber = sioDev - 1 /\ D.unit = sioDev - 1
    BY <1>0, <1>1, <1>5, <2>5, PlbDevice DEF NumberInv, UnitIsNext
  <2>6. ChannelNo(D) = sioNumber
    BY <2>5 DEF ChannelNo
  <2>7. sioNumber' = sioNumber + 1
    BY <1>5 DEF NumberAfter
  <2>8. InOrder'
    BY <2>1, <2>3, <2>4, <2>6, <2>7 DEF InOrder
  <2>9. D' = D /\ sioDev' = sioDev /\ sioBar' # 0
    BY <1>0, <1>5 DEF NextBar, D, ChansType
  <2>10. D.bus = "PLB" => sioNumber' = sioDev
    BY <1>0, <2>5, <2>7 DEF ChansType
  <2> QED
    BY <2>8, <2>9, <2>10 DEF UnitIsNext
<1>6. sioBar \notin Bars => sioBar # 0
  BY DEF Bars, VXB_MAXBARS
<1>7. D.bus = "PLB" /\ D.clk = 0 => ~Makes(D)
  BY DEF Makes
<1> QED
  BY <1>2, <1>3, <1>4, <1>5, <1>6, <1>7 DEF SioInstInit, Initialized

\* Every step keeps the numbers in order.
LEMMA NumberKept ==
  ASSUME HwConfTable
  PROVE  /\ SioInit => NumberInv
         /\ NumberInv /\ [SioNext]_sioVars => NumberInv'
<1>1. ASSUME SioInit PROVE NumberInv
  <2>1. ChansType
    BY <1>1, ChansTypeKept
  <2>2. sioChans = <<>> /\ sioNumber = 0 /\ sioBar = 0 /\ sioDev = 1
    BY <1>1 DEF SioInit
  <2> QED
    BY <2>1, <2>2 DEF NumberInv, InOrder, UnitIsNext
<1> SUFFICES ASSUME NumberInv, [SioNext]_sioVars PROVE NumberInv'
  BY <1>1
<1>2. ChansType' /\ ChansType
  BY ChansTypeKept DEF NumberInv
<1>3. CASE SioNoInstance
  <2>1. Initializing /\ NextDevice /\ UNCHANGED <<sioMachine, sioChans, sioNumber, sioFails>>
    BY <1>3 DEF SioNoInstance
  <2>2. ~(D.bus = "PLB" /\ Makes(D))
    <3>1. D.bus = "PLB" => D.dev = "COM"
      BY <1>2, <2>1, PlbDevice
    <3>2. D.bar[0] # 0 => SioProbe(D)
      BY DEF SioProbe, Bars, VXB_MAXBARS
    <3> QED
      BY <1>3, <3>1, <3>2 DEF SioNoInstance, Makes
  <2>3. UnitIsNext'
    BY <1>2, <2>1, <2>2, UnitOfNext
  <2> QED
    BY <1>2, <2>1, <2>3 DEF NumberInv, InOrder, NoFailure
<1>4. CASE SioInstInit
  BY <1>2, <1>4, NumberInstInit DEF NumberInv
<1>5. CASE SioInstInit2 \/ SioChanConnectAll \/ SioChanConnect
  <2>1. ~Initializing' /\ UNCHANGED <<sioChans, sioNumber, sioFails>>
    BY <1>5 DEF SioInstInit2, SioChanConnectAll, SioChanConnect, Initializing
  <2> QED
    BY <1>2, <2>1 DEF NumberInv, InOrder, UnitIsNext, NoFailure
<1>6. ASSUME NEW r \in SioRates, SioBaudSet(r)
      PROVE  NumberInv'
  <2>1. ~Initializing' /\ UNCHANGED <<sioNumber, sioFails>>
    BY <1>6 DEF SioBaudSet, Using, Initializing, sioBoot
  <2>2. PICK lsr : sioChans' = [sioChans EXCEPT ![sioUser] = SetBaud(@, r, lsr)]
    BY <1>6 DEF SioBaudSet
  <2>3. sioChans \in Seq(Chan) /\ sioChans' \in Seq(Chan) /\ r \in Nat \ {0}
    BY <1>2, SioAssumption DEF ChansType
  <2>4. Len(sioChans') = Len(sioChans)
    BY <2>2, <2>3
  <2>5. ASSUME NEW c \in 1..Len(sioChans)
        PROVE  sioChans'[c].no = sioChans[c].no
    <3>1. sioChans[c] \in Chan
      BY <2>3, ElementOfSeq
    <3>2. sioChans'[c] = sioChans[c] \/ sioChans'[c] = SetBaud(sioChans[c], r, lsr)
      BY <2>2, <2>3
    <3> QED
      BY <2>3, <3>1, <3>2, SetBaudType
  <2> QED
    BY <1>2, <2>1, <2>4, <2>5 DEF NumberInv, InOrder, UnitIsNext, NoFailure
<1>7. CASE UNCHANGED <<sioBoot, sioChans>>
  <2>1. UNCHANGED <<sioMachine, sioStage, sioDev, sioBar, sioNumber, sioFails, sioChans>>
    BY <1>7 DEF sioBoot
  <2>2. (D' = D) /\ (Initializing' = Initializing)
    BY <2>1 DEF D, Initializing
  <2> QED
    BY <1>2, <2>1, <2>2 DEF NumberInv, InOrder, UnitIsNext, NoFailure
<1> QED
  BY <1>3, <1>4, <1>5, <1>6, <1>7
     DEF SioNext, sioVars, SioChanGet, StoreCallback, StoreArg, SioModeSet, SioOptsSet,
         SioInterrupt, SioJob

\* Without failures no two channels get the same number (the counter and the units
\* of ns16550vxbInstInit), whatever boards follow the devices of hwconf.c.
THEOREM NumbersAreUnique ==
  ASSUME HwConfTable
  PROVE  SioSpec => []SioNumbersUnique
<1>1. NumberInv => SioNumbersUnique
  <2> SUFFICES ASSUME NumberInv, NoFailure,
                      NEW b \in DOMAIN sioChans, NEW c \in DOMAIN sioChans,
                      sioChans[b].no = sioChans[c].no
               PROVE  b = c
    BY DEF SioNumbersUnique, NoFailure
  <2>1. b \in 1..Len(sioChans) /\ c \in 1..Len(sioChans) /\ Len(sioChans) \in Nat
    BY DEF NumberInv, ChansType
  <2>2. sioChans[b].no = b - 1 /\ sioChans[c].no = c - 1
    BY <2>1 DEF NumberInv, InOrder
  <2>3. b - 1 = c - 1
    BY <2>2
  <2>4. b \in Nat /\ c \in Nat
    BY <2>1
  <2> QED
    BY <2>3, <2>4
<1> QED
  BY <1>1, NumberKept, PTL DEF SioSpec

-----------------------------------------------------------------------------
(* A client's channel and its interrupt.                                   *)

\* With numbers in order each is the number of one channel.
LEMMA OneChannelOfNumber ==
  ASSUME NumberInv, NoFailure, NEW n \in Nat
  PROVE  /\ n + 1 \in 1..Len(sioChans) <=> Numbered(n) # {}
         /\ Numbered(n) # {} => ChanConnected(n) = n + 1 /\ ChanGot(n) = n + 1
<1>1. DOMAIN sioChans = 1..Len(sioChans) /\ Len(sioChans) \in Nat
  BY DEF NumberInv, ChansType
<1>2. \A c \in 1..Len(sioChans) : sioChans[c].no = n <=> c = n + 1
  BY <1>1 DEF NumberInv, InOrder
<1>3. ASSUME n + 1 \in 1..Len(sioChans)
      PROVE  /\ Numbered(n) = {n + 1}
             /\ ChanConnected(n) = n + 1 /\ ChanGot(n) = n + 1
  <2>1. Numbered(n) = {n + 1}
    BY <1>1, <1>2, <1>3 DEF Numbered
  <2> DEFINE d == sioChans[n + 1].dev
  <2>2. d \in Nat
    <3>1. sioChans[n + 1] \in Chan
      BY <1>3, ElementOfSeq DEF NumberInv, ChansType
    <3> QED
      BY <3>1 DEF Chan
  <2>3. DevicesWith(n) = {d}
    BY <2>1 DEF DevicesWith
  <2>4. NewestOf(d, n) = n + 1
    BY <2>1 DEF NewestOf
  <2> HIDE DEF d
  <2>5. (CHOOSE x \in DevicesWith(n) : \A y \in DevicesWith(n) : x <= y) = d
    BY <2>2, <2>3
  <2>6. (CHOOSE x \in DevicesWith(n) : \A y \in DevicesWith(n) : x >= y) = d
    BY <2>2, <2>3
  <2> QED
    BY <2>1, <2>4, <2>5, <2>6 DEF ChanConnected, ChanGot
<1>4. n + 1 \notin 1..Len(sioChans) => Numbered(n) = {}
  BY <1>1, <1>2 DEF Numbered
<1> QED
  BY <1>3, <1>4

\* The interrupts of the numbers passed are connected, in the end all; clients
\* come after that.
ConnectInv ==
  NoFailure =>
    /\ sioStage = "connect" =>
         \A c \in 1..Len(sioChans) : c <= sioDev => sioChans[c].dev \in sioInts
    /\ sioStage = "run" =>
         \A c \in 1..Len(sioChans) : sioChans[c].dev \in sioInts
    /\ sioUser # 0 => sioStage = "run" /\ sioUser \in 1..Len(sioChans)

\* Every step keeps it.
LEMMA ConnectKept ==
  ASSUME HwConfTable
  PROVE  /\ SioInit => ConnectInv
         /\ NumberInv /\ ConnectInv /\ [SioNext]_sioVars => ConnectInv'
<1> USE DEF NoFailure
<1>1. SioInit => ConnectInv
  BY DEF SioInit, ConnectInv
<1> SUFFICES ASSUME NumberInv, ConnectInv, [SioNext]_sioVars PROVE ConnectInv'
  BY <1>1
<1>2. Len(sioChans) \in Nat /\ sioDev \in Nat /\ DOMAIN sioChans = 1..Len(sioChans)
  BY DEF NumberInv, ChansType
<1>3. CASE SioNoInstance \/ SioInstInit
  <2>1. sioStage' = "init" /\ sioStage = "init" /\ UNCHANGED sioUser
    BY <1>3 DEF SioNoInstance, SioInstInit, Initializing, sioClient
  <2>2. NoFailure' => NoFailure
    BY <1>3, SioAssumption DEF SioNoInstance, SioInstInit, NumberInv, ChansType
  <2> QED
    BY <2>1, <2>2 DEF ConnectInv
<1>4. CASE SioInstInit2
  BY <1>2, <1>4 DEF SioInstInit2, ConnectInv
<1>5. CASE SioChanConnectAll
  BY <1>2, <1>5 DEF SioChanConnectAll, ConnectInv
<1>6. CASE SioChanConnect
  <2> SUFFICES ASSUME NoFailure PROVE ConnectInv'
    BY <1>6 DEF SioChanConnect, ConnectInv
  <2>1. /\ sioDev + 1 \in 1..Len(sioChans) <=> Numbered(sioDev) # {}
        /\ Numbered(sioDev) # {} => ChanConnected(sioDev) = sioDev + 1
    BY <1>2, OneChannelOfNumber
  <2>2. /\ sioStage = "connect" /\ UNCHANGED <<sioChans, sioUser, sioFails>>
        /\ \A c \in 1..Len(sioChans) : c <= sioDev => sioChans[c].dev \in sioInts
        /\ sioUser = 0
    BY <1>6 DEF SioChanConnect, ConnectInv
  <2>3. CASE Numbered(sioDev) = {}
    <3>1. \A c \in 1..Len(sioChans) : c <= sioDev
      BY <1>2, <2>1, <2>3
    <3> QED
      BY <1>6, <2>2, <2>3, <3>1 DEF SioChanConnect, ConnectInv
  <2>4. CASE Numbered(sioDev) # {}
    <3>1. /\ sioInts' = sioInts \cup {sioChans[sioDev + 1].dev}
          /\ sioDev' = sioDev + 1 /\ sioStage' = "connect"
      BY <1>6, <2>1, <2>2, <2>4 DEF SioChanConnect
    <3>2. \A c \in 1..Len(sioChans) : c <= sioDev + 1 => c <= sioDev \/ c = sioDev + 1
      BY <1>2
    <3> QED
      BY <2>2, <3>1, <3>2 DEF ConnectInv
  <2> QED
    BY <2>3, <2>4
<1>7. ASSUME NEW n \in 0..sioNumber, SioChanGet(n)
      PROVE  ConnectInv'
  <2> SUFFICES ASSUME NoFailure PROVE ConnectInv'
    BY <1>7 DEF SioChanGet, sioBoot, ConnectInv
  <2>1. n \in Nat
    BY DEF NumberInv, ChansType
  <2>2. sioUser' = n + 1 /\ n + 1 \in 1..Len(sioChans)
    BY <1>7, <2>1, OneChannelOfNumber DEF SioChanGet
  <2> QED
    BY <1>7, <2>2 DEF SioChanGet, sioBoot, ConnectInv
<1>8. ASSUME NEW r \in SioRates, SioBaudSet(r)
      PROVE  ConnectInv'
  <2>1. PICK lsr : sioChans' = [sioChans EXCEPT ![sioUser] = SetBaud(@, r, lsr)]
    BY <1>8 DEF SioBaudSet
  <2>2. sioChans \in Seq(Chan) /\ r \in Nat \ {0}
    BY SioAssumption DEF NumberInv, ChansType
  <2>3. Len(sioChans') = Len(sioChans)
    BY <2>1, <2>2
  <2>4. ASSUME NEW c \in 1..Len(sioChans)
        PROVE  sioChans'[c].dev = sioChans[c].dev
    <3>1. sioChans[c] \in Chan
      BY <2>2, ElementOfSeq
    <3>2. sioChans'[c] = sioChans[c] \/ sioChans'[c] = SetBaud(sioChans[c], r, lsr)
      BY <2>1, <2>2
    <3> QED
      BY <2>2, <3>1, <3>2, SetBaudType
  <2>5. UNCHANGED <<sioStage, sioDev, sioInts, sioUser, sioFails>>
    BY <1>8 DEF SioBaudSet, sioBoot
  <2> QED
    BY <2>3, <2>4, <2>5 DEF ConnectInv
<1>9. CASE UNCHANGED <<sioBoot, sioChans, sioUser>>
  BY <1>9 DEF sioBoot, ConnectInv
<1> QED
  BY <1>3, <1>4, <1>5, <1>6, <1>7, <1>8, <1>9
     DEF SioNext, sioVars, StoreCallback, StoreArg, SioModeSet, SioOptsSet,
         SioInterrupt, SioJob

\* Without failures the channel a client gets has its interrupt connected, though
\* SioChanGet and SioChanConnect search in different orders.
THEOREM GotIsConnected ==
  ASSUME HwConfTable
  PROVE  SioSpec => []SioGotIsConnected
<1>1. ConnectInv => SioGotIsConnected
  BY DEF ConnectInv, SioGotIsConnected, NoFailure
<1> QED
  BY <1>1, NumberKept, ConnectKept, PTL DEF SioSpec

-----------------------------------------------------------------------------
(* Rates.                                                                  *)

LEMMA ProductMonotone ==
  ASSUME NEW m \in Nat, NEW n \in Nat, NEW p \in Nat, m <= n
  PROVE  m * p <= n * p
<1>1. PICK d \in Nat : n = m + d
  <2>1. n - m \in Nat /\ n = m + (n - m)
    OBVIOUS
  <2> QED
    BY <2>1
<1>2. n * p = m * p + d * p /\ d * p \in Nat /\ m * p \in Nat
  BY <1>1
<1> QED
  BY <1>2

\* The divisor of ns16550vxbBaudSet is the nearest one.
LEMMA DivisorNearest ==
  ASSUME NEW x \in Nat, NEW b \in Nat, b >= 50, x < MaxClock
  PROVE  Abs(16 * b * Divisor(x, b) - x) <= 8 * b
<1> DEFINE p == 8 * b
           q == x \div p
           h == (q + 1) \div 2
<1>1. p \in Nat /\ p > 0 /\ p >= 400
  OBVIOUS
<1>2. DivisorValues \in Nat /\ DivisorValues > 0
  BY DEF DivisorValues
<1>3. Divisor(x, b) = h % DivisorValues
  BY DEF Divisor
<1>4. p = 8 * b
  OBVIOUS
<1> HIDE DEF p
<1>5. q \in Nat /\ q * p <= x /\ x < q * p + p
  BY <1>1, Quotient
<1> HIDE DEF q
<1>6. h \in Nat /\ h * 2 <= q + 1 /\ q + 1 < h * 2 + 2
  <2>1. q + 1 \in Nat
    BY <1>5
  <2> QED
    BY <2>1, Quotient
<1> HIDE DEF h
<1>7. h < DivisorValues
  <2>1. q * 400 <= q * p
    <3>1. 400 * q <= p * q
      BY <1>1, <1>5, ProductMonotone
    <3>2. q * 400 = 400 * q /\ q * p = p * q
      BY <1>1, <1>5
    <3> QED
      BY <3>1, <3>2
  <2>2. q * 400 < 800 * DivisorValues - 400
    <3>1. q * p \in Nat
      BY <1>1, <1>5
    <3> QED
      BY <1>2, <1>5, <2>1, <3>1 DEF MaxClock
  <2> QED
    BY <1>2, <1>5, <1>6, <2>2
<1>8. Divisor(x, b) = h
  BY <1>3, <1>6, <1>7, TwoBytes
<1>9. (h * 2) * p <= (q + 1) * p /\ q * p <= (h * 2) * p
  <2>1. h * 2 \in Nat /\ q + 1 \in Nat /\ q <= h * 2
    BY <1>5, <1>6
  <2> QED
    BY <1>1, <1>5, <1>6, <2>1, ProductMonotone
<1> DEFINE y == (h * 2) * p
<1>10. y \in Nat /\ 16 * b * h = y
  BY <1>1, <1>4, <1>6
<1>11. (q + 1) * p = q * p + p /\ q * p \in Nat
  BY <1>1, <1>5
<1>12. y <= x + p /\ x <= y + p
  BY <1>1, <1>5, <1>9, <1>10, <1>11
<1> HIDE DEF y
<1>13. Abs(y - x) <= p
  BY <1>1, <1>10, <1>12 DEF Abs
<1> QED
  BY <1>4, <1>8, <1>10, <1>13

\* A channel's clock is in range and that of an HSUART, once it has a divisor,
\* the one it was made for; the divisor is the nearest.
RateOk(c) ==
  /\ c.xtal < MaxClock
  /\ Hsuart(sioMachine[c.dev]) /\ c.div # 0 => c.xtal = HSUART_CLK
  /\ c.div # 0 => Honoured(c)
RateInv == ChansType /\ \A c \in 1..Len(sioChans) : RateOk(sioChans[c])

\* Setting a rate keeps it.
LEMMA SetBaudOk ==
  ASSUME ChansType, NEW c \in Chan, NEW r \in Nat, r >= 50, NEW lsr, RateOk(c)
  PROVE  RateOk(SetBaud(c, r, lsr))
<1> DEFINE k == [c EXCEPT !.xtal = HSUART_CLK]
<1>1. HSUART_CLK \in Nat /\ HSUART_CLK < MaxClock
  BY SMT DEF HSUART_CLK, MaxClock, DivisorValues
<1>2. k \in Chan /\ k.xtal = HSUART_CLK /\ k.dev = c.dev /\ k.div = c.div /\ k.baud = c.baud
  BY <1>1 DEF Chan
<1>3. ASSUME NEW b \in Chan, b.xtal < MaxClock,
             Hsuart(sioMachine[b.dev]) => b.xtal = HSUART_CLK
      PROVE  RateOk(BaudSet(b, r))
  <2>1. b.xtal \in Nat
    BY DEF Chan
  <2>2. Abs(16 * r * Divisor(b.xtal, r) - b.xtal) <= 8 * r
    BY <1>3, <2>1, DivisorNearest
  <2>3. /\ BaudSet(b, r).baud = r /\ BaudSet(b, r).div = Divisor(b.xtal, r)
        /\ BaudSet(b, r).xtal = b.xtal /\ BaudSet(b, r).dev = b.dev
    BY DEF BaudSet, Chan
  <2>4. Honoured(BaudSet(b, r))
    BY <2>2, <2>3 DEF Honoured
  <2> QED
    BY <1>3, <2>3, <2>4 DEF RateOk
<1> HIDE DEF k
<1>4. CASE ~Hsuart(sioMachine[c.dev])
  BY <1>3, <1>4 DEF SetBaud, RateOk
<1>5. CASE Hsuart(sioMachine[c.dev]) /\ lsr # 255
  <2>1. SetBaud(c, r, lsr) = BaudSet(k, r)
    BY <1>5 DEF SetBaud, HsuartBaudSet, k
  <2> QED
    BY <1>1, <1>2, <1>3, <2>1
<1>6. CASE Hsuart(sioMachine[c.dev]) /\ lsr = 255
  <2>1. SetBaud(c, r, lsr) = k
    BY <1>6 DEF SetBaud, HsuartBaudSet, k
  <2>2. k.div # 0 => Honoured(k)
    BY <1>2, <1>6 DEF RateOk, Honoured
  <2> QED
    BY <1>1, <1>2, <2>1, <2>2 DEF RateOk
<1> QED
  BY <1>4, <1>5, <1>6

\* It holds initially, and every step keeps it.
LEMMA RateKept ==
  ASSUME ClocksInRange
  PROVE  /\ SioInit => RateInv
         /\ RateInv /\ [SioNext]_sioVars => RateInv'
<1>1. ASSUME SioInit PROVE RateInv
  <2>1. ChansType /\ sioChans = <<>>
    BY <1>1, ChansTypeKept DEF SioInit
  <2> QED
    BY <2>1 DEF RateInv
<1> SUFFICES ASSUME RateInv, [SioNext]_sioVars PROVE RateInv'
  BY <1>1
<1>2. ChansType' /\ ChansType
  BY ChansTypeKept DEF RateInv
<1>3. sioChans \in Seq(Chan) /\ Len(sioChans) \in Nat
  BY <1>2 DEF ChansType
<1>4. ASSUME UNCHANGED <<sioMachine, sioChans>> PROVE RateInv'
  BY <1>2, <1>4 DEF RateInv, RateOk
<1>5. ASSUME SioInstInit, sioBar \in Bars, NEW lsr,
             sioChans' = Append(sioChans, Initialized(lsr)), UNCHANGED sioMachine
      PROVE  RateInv'
  <2>1. Initializing
    BY <1>5 DEF SioInstInit
  <2>2. NewChan(D, sioBar) \in Chan
    BY <1>2, <1>5, <2>1, NewChanType
  <2>3. RateOk(NewChan(D, sioBar))
    <3>1. NewChan(D, sioBar).div = 0 /\ NewChan(D, sioBar).xtal = Xtal(D)
      BY DEF NewChan
    <3>2. sioDev \in DOMAIN sioMachine /\ sioMachine \in SioMachines
      BY <1>2, <2>1, CurrentDevice DEF ChansType
    <3>3. D.bus = "PLB" => D.clk < MaxClock
      BY <3>2 DEF ClocksInRange, D
    <3>4. PCI_CLK_FREQ < MaxClock /\ PCI_CLK_FREQ * 8 < MaxClock
      BY SMT DEF PCI_CLK_FREQ, MaxClock, DivisorValues
    <3>5. Xtal(D) < MaxClock
      BY <3>3, <3>4 DEF Xtal
    <3> QED
      BY <3>1, <3>5 DEF RateOk
  <2>4. RateOk(Initialized(lsr))
    BY <1>2, <2>2, <2>3, SetBaudOk DEF Initialized
  <2>5. Initialized(lsr) \in Chan
    BY <2>2, SetBaudType DEF Initialized
  <2>6. /\ Len(sioChans') = Len(sioChans) + 1
        /\ \A c \in 1..Len(sioChans) : sioChans'[c] = sioChans[c]
        /\ sioChans'[Len(sioChans) + 1] = Initialized(lsr)
    BY <1>3, <1>5, <2>5, AppendProperties
  <2>7. \A c \in 1..(Len(sioChans) + 1) : RateOk(sioChans'[c])
    BY <1>3, <2>4, <2>6 DEF RateInv
  <2> QED
    BY <1>2, <1>5, <2>6, <2>7 DEF RateInv, RateOk
<1>6. CASE SioInstInit
  <2>1. UNCHANGED sioMachine
    BY <1>6 DEF SioInstInit
  <2> QED
    BY <1>4, <1>5, <1>6, <2>1 DEF SioInstInit, Initialized
<1>7. ASSUME NEW r \in SioRates, SioBaudSet(r)
      PROVE  RateInv'
  <2>1. PICK lsr : sioChans' = [sioChans EXCEPT ![sioUser] = SetBaud(@, r, lsr)]
    BY <1>7 DEF SioBaudSet
  <2>2. UNCHANGED sioMachine /\ r \in Nat /\ r >= 50
    <3>1. UNCHANGED sioMachine /\ r \in NS16550_MIN_RATE..NS16550_MAX_RATE
      BY <1>7 DEF SioBaudSet, sioBoot
    <3>2. r \in Nat
      BY SioAssumption
    <3>3. NS16550_MIN_RATE = 50
      BY DEF NS16550_MIN_RATE
    <3> QED
      BY <3>1, <3>2, <3>3
  <2>3. Len(sioChans') = Len(sioChans)
    BY <1>3, <2>1
  <2>4. ASSUME NEW c \in 1..Len(sioChans)
        PROVE  RateOk(sioChans'[c])
    <3>1. sioChans[c] \in Chan /\ RateOk(sioChans[c])
      BY <1>3, ElementOfSeq DEF RateInv
    <3>2. sioChans'[c] = sioChans[c] \/ sioChans'[c] = SetBaud(sioChans[c], r, lsr)
      BY <1>3, <2>1
    <3> QED
      BY <1>2, <2>2, <3>1, <3>2, SetBaudOk
  <2> QED
    BY <1>2, <2>2, <2>3, <2>4 DEF RateInv, RateOk
<1> QED
  BY <1>4, <1>6, <1>7
     DEF SioNext, sioVars, sioBoot, SioNoInstance, SioInstInit2, SioChanConnectAll,
         SioChanConnect, SioChanGet, StoreCallback, StoreArg, SioModeSet, SioOptsSet,
         SioInterrupt, SioJob

\* The divisor of every channel is the nearest to its rate (ns16550vxbBaudSet,
\* ns16550vxbHsuartBaudSet), whatever rates from 50 baud are asked for.
THEOREM RatesAreNearest ==
  ASSUME ClocksInRange
  PROVE  SioSpec => []SioRateNearest
<1>1. RateInv => SioRateNearest
  BY DEF RateInv, RateOk, SioRateNearest, ChansType
<1> QED
  BY <1>1, RateKept, PTL DEF SioSpec

-----------------------------------------------------------------------------
(* The registers of the channels.                                          *)

\* The base address that base address i of the driver was computed from.
FromBar(d, i) ==
  IF d.dev = "IC0607KB" THEN (IF i \in 2..5 THEN i ELSE 0)
  ELSE IF d.dev \in {"LF653KB", "LF662KB_FUNC1"} THEN 1 ELSE i
\* Its first register, and its last one.
FirstReg(d, i) == RegBase(d)[i]
EndReg(d, i) == RegBase(d)[i] + 7 * RegDelta(d)

\* What UartsOfBoards says of one board.
GoodBoard(d) ==
  /\ d.dev = "IC0607KB" => d.bar[0] # 0
  /\ d.dev \in {"LF653KB", "LF662KB_FUNC1"} => d.bar[1] # 0

\* The base addresses of a device.
LEMMA BarsAre ==
  ASSUME NEW d, SioDevice(d)
  PROVE  /\ Bars = 0..5
         /\ \A i \in 0..5 : d.bar[i] \in Nat
         /\ d.scratch \in Nat
         /\ d.bar = [i \in Bars |-> d.bar[i]]
BY DEF SioDevice, Bars, VXB_MAXBARS

\* Every base address that is probed lies in the registers of one UART base
\* address, or is one of those that hold no UART.
LEMMA InWindow ==
  ASSUME NEW d, SioDevice(d), Instance(d), GoodBoard(d), NEW i \in Bars, DevProbe(d, i)
  PROVE  /\ FromBar(d, i) \in DriverBars(d)
         /\ UartStart(d, FromBar(d, i)) <= FirstReg(d, i)
         /\ EndReg(d, i) < UartEnd(d, FromBar(d, i))
         /\ FromBar(d, i) \in UartBars(d)
            \/ /\ FromBar(d, i) \in StrayBars(d)
               /\ FirstReg(d, i) = d.bar[FromBar(d, i)]
<1>0. /\ i \in 0..5 /\ Bars = 0..5 /\ \A j \in 0..5 : d.bar[j] \in Nat
      /\ d.scratch \in Nat /\ d.bar = [j \in Bars |-> d.bar[j]]
  BY BarsAre
<1> USE DEF FromBar, FirstReg, EndReg, UartEnd, DriverBars
<1>6. d.dev # "IC0607KB" => StrayBars(d) = {}
  BY DEF StrayBars
<1>1. CASE d.dev = "XLP"
  <2>1. RegBase(d) = [j \in Bars |-> IF j = 0 THEN d.scratch + 259 ELSE 0]
    BY <1>1 DEF RegBase
  <2>2. i = 0
    BY <2>1, <1>0 DEF DevProbe
  <2>3. /\ UartBars(d) = {0} /\ RegDelta(d) = 4 /\ UartStart(d, 0) = d.scratch + 256
        /\ UartLength(d) = 8 * RegDelta(d)
    BY <1>1 DEF UartBars, RegDelta, UartStart, UartLength
  <2>4. RegBase(d)[i] = d.scratch + 259 /\ FromBar(d, i) = 0
    BY <1>0, <1>1, <2>1, <2>2
  <2> QED
    BY <1>0, <1>1, <1>6, <2>2, <2>3, <2>4
<1>2. CASE d.dev = "IC0607KB"
  <2>1. RegBase(d) = [d.bar EXCEPT ![1] = d.bar[0] + 8]
    BY <1>2 DEF RegBase
  <2>2. \A j \in 0..5 : RegBase(d)[j] = IF j = 1 THEN d.bar[0] + 8 ELSE d.bar[j]
    BY <1>0, <2>1
  <2>3. /\ UartBars(d) = {0} /\ RegDelta(d) = 1 /\ UartLength(d) = 16
        /\ \A j \in 0..5 : UartStart(d, j) = d.bar[j]
    BY <1>2 DEF UartBars, RegDelta, UartStart, UartLength
  <2>4. CASE i \in {0, 1}
    <3>1. FromBar(d, i) = 0 /\ 0 \notin StrayBars(d)
      BY <1>2, <2>4 DEF StrayBars
    <3> QED
      BY <1>0, <2>2, <2>3, <2>4, <3>1
  <2>5. CASE i \in 2..5
    <3>1. FromBar(d, i) = i /\ FirstReg(d, i) = d.bar[i]
      BY <1>0, <1>2, <2>2, <2>5
    <3>2. i \in StrayBars(d)
      BY <1>0, <1>2, <2>2, <2>5 DEF StrayBars, DevProbe, TwoBars
    <3> QED
      BY <1>0, <2>3, <2>5, <3>1, <3>2
  <2> QED
    BY <1>0, <2>4, <2>5
<1>3. CASE d.dev = "LF653KB"
  <2>1. RegBase(d) = Four(d, 32)
    BY <1>3 DEF RegBase
  <2>2. \A j \in 0..5 : RegBase(d)[j] = IF j \in 3..5 THEN d.bar[1] + (j - 2) * 32
                                        ELSE IF j = 1 THEN d.bar[1] ELSE 0
    BY <1>0, <2>1 DEF Four
  <2>3. i \in {1, 3, 4, 5}
    BY <1>0, <2>2 DEF DevProbe
  <2>4. /\ UartBars(d) = {1} /\ RegDelta(d) = 4 /\ UartStart(d, 1) = d.bar[1]
        /\ UartLength(d) = 128 /\ FromBar(d, i) = 1
    BY <1>3 DEF UartBars, RegDelta, UartStart, UartLength
  <2>5. RegBase(d)[i] \in {d.bar[1], d.bar[1] + 32, d.bar[1] + 64, d.bar[1] + 96}
    BY <1>0, <2>2, <2>3
  <2> QED
    BY <1>0, <1>3, <1>6, <2>4, <2>5
<1>4. CASE d.dev = "LF662KB_FUNC1"
  <2>1. RegBase(d) = Four(d, 1024)
    BY <1>4 DEF RegBase
  <2>2. \A j \in 0..5 : RegBase(d)[j] = IF j \in 3..5 THEN d.bar[1] + (j - 2) * 1024
                                        ELSE IF j = 1 THEN d.bar[1] ELSE 0
    BY <1>0, <2>1 DEF Four
  <2>3. i \in {1, 3, 4, 5}
    BY <1>0, <2>2 DEF DevProbe
  <2>4. /\ UartBars(d) = {1} /\ RegDelta(d) = 4 /\ UartStart(d, 1) = d.bar[1]
        /\ UartLength(d) = 4096 /\ FromBar(d, i) = 1
    BY <1>4 DEF UartBars, RegDelta, UartStart, UartLength
  <2>5. RegBase(d)[i] \in {d.bar[1], d.bar[1] + 1024, d.bar[1] + 2048, d.bar[1] + 3072}
    BY <1>0, <2>2, <2>3
  <2> QED
    BY <1>0, <1>4, <1>6, <2>4, <2>5
<1>5. CASE d.dev \notin {"XLP", "IC0607KB", "LF653KB", "LF662KB_FUNC1"}
  <2>1. FromBar(d, i) = i /\ UartLength(d) = 8 * RegDelta(d) /\ UartStart(d, i) = d.bar[i]
    BY <1>5 DEF UartLength, UartStart
  <2>2. RegDelta(d) \in {1, 4} /\ d.bar[i] \in Nat
    BY <1>0 DEF RegDelta
  <2>3. i \in UartBars(d) /\ RegBase(d)[i] = d.bar[i]
    <3>1. RegBase(d)[i] # 0 /\ (TwoBars(d) => i <= 1)
      BY DEF DevProbe
    <3>2. CASE d.dev = "ESD1001"
      BY <1>0, <3>1, <3>2 DEF RegBase, Only, UartBars
    <3>3. CASE d.dev = "ESD1002"
      BY <1>0, <3>1, <3>3 DEF RegBase, Only, UartBars
    <3>4. CASE d.dev = "ESD1004"
      BY <1>0, <3>1, <3>4 DEF RegBase, Only, UartBars
    <3>5. CASE d.dev = "LF659KB"
      BY <1>0, <3>1, <3>5 DEF RegBase, Only, UartBars
    <3>6. CASE d.dev \in {"TOPCLIFF", "BAYTRAIL"}
      <4>1. RegBase(d) = [d.bar EXCEPT ![1] = 0]
        BY <3>6 DEF RegBase
      <4>2. i # 1 /\ RegBase(d)[i] = d.bar[i]
        BY <1>0, <3>1, <4>1
      <4> QED
        BY <1>0, <3>1, <3>6, <4>2 DEF UartBars
    <3>7. CASE d.dev = "COMPUSA"
      <4>1. RegBase(d) = d.bar /\ i <= 1
        BY <3>1, <3>7 DEF RegBase, TwoBars
      <4>2. i \in {0, 1}
        BY <1>0, <4>1
      <4> QED
        BY <3>1, <3>7, <4>1, <4>2 DEF UartBars
    <3>8. CASE d.dev \notin {"ESD1001", "ESD1002", "ESD1004", "LF659KB", "TOPCLIFF",
                             "BAYTRAIL", "COMPUSA"}
      <4>1. RegBase(d) = d.bar
        BY <1>5, <3>8 DEF RegBase
      <4>2. UartBars(d) = {j \in Bars : d.bar[j] # 0}
        BY <1>5, <3>8 DEF UartBars
      <4> QED
        BY <3>1, <4>1, <4>2
    <3> QED
      BY <3>2, <3>3, <3>4, <3>5, <3>6, <3>7, <3>8
  <2> QED
    BY <1>5, <1>6, <2>1, <2>2, <2>3
<1> QED
  BY <1>1, <1>2, <1>3, <1>4, <1>5

\* Two base addresses computed from one do not overlap.
LEMMA OneWindow ==
  ASSUME NEW d, SioDevice(d), GoodBoard(d),
         NEW i \in Bars, DevProbe(d, i), NEW j \in Bars, DevProbe(d, j),
         i # j, FromBar(d, i) = FromBar(d, j)
  PROVE  EndReg(d, i) < FirstReg(d, j) \/ EndReg(d, j) < FirstReg(d, i)
<1>0. /\ i \in 0..5 /\ j \in 0..5 /\ Bars = 0..5 /\ \A l \in 0..5 : d.bar[l] \in Nat
      /\ d.bar = [l \in Bars |-> d.bar[l]]
  BY BarsAre
<1> USE DEF FirstReg, EndReg
<1>1. CASE d.dev = "IC0607KB"
  <2>1. RegBase(d) = [d.bar EXCEPT ![1] = d.bar[0] + 8]
    BY <1>1 DEF RegBase
  <2>2. \A l \in 0..5 : RegBase(d)[l] = IF l = 1 THEN d.bar[0] + 8 ELSE d.bar[l]
    BY <1>0, <2>1
  <2>3. i \in {0, 1} /\ j \in {0, 1}
    BY <1>0, <1>1 DEF FromBar
  <2>4. RegDelta(d) = 1
    BY <1>1 DEF RegDelta
  <2> QED
    BY <1>0, <2>2, <2>3, <2>4
<1>2. ASSUME NEW s \in {32, 1024}, RegBase(d) = Four(d, s), RegDelta(d) = 4
      PROVE  EndReg(d, i) < FirstReg(d, j) \/ EndReg(d, j) < FirstReg(d, i)
  <2>1. \A l \in 0..5 : RegBase(d)[l] = IF l \in 3..5 THEN d.bar[1] + (l - 2) * s
                                        ELSE IF l = 1 THEN d.bar[1] ELSE 0
    BY <1>0, <1>2 DEF Four
  <2>2. i \in {1, 3, 4, 5} /\ j \in {1, 3, 4, 5}
    BY <1>0, <2>1 DEF DevProbe
  <2> DEFINE Nr(l) == IF l = 1 THEN 0 ELSE l - 2
  <2>3. \A l \in {1, 3, 4, 5} : RegBase(d)[l] = d.bar[1] + Nr(l) * s
    BY <1>0, <2>1
  <2>4. Nr(i) \in 0..3 /\ Nr(j) \in 0..3 /\ Nr(i) # Nr(j)
    BY <2>2
  <2>5. d.bar[1] \in Nat
    BY <1>0
  <2> DEFINE a == Nr(i)
             b == Nr(j)
  <2>6. RegBase(d)[i] = d.bar[1] + a * s /\ RegBase(d)[j] = d.bar[1] + b * s
    BY <2>2, <2>3
  <2>7. a \in 0..3 /\ b \in 0..3 /\ a # b
    BY <2>4
  <2> HIDE DEF a, b
  <2>8. CASE s = 32
    BY <1>2, <2>5, <2>6, <2>7, <2>8
  <2>9. CASE s = 1024
    BY <1>2, <2>5, <2>6, <2>7, <2>9
  <2> QED
    BY <1>2, <2>8, <2>9
<1>3. CASE d.dev = "LF653KB"
  BY <1>2, <1>3 DEF RegBase, RegDelta
<1>4. CASE d.dev = "LF662KB_FUNC1"
  BY <1>2, <1>4 DEF RegBase, RegDelta
<1>5. CASE d.dev \notin {"IC0607KB", "LF653KB", "LF662KB_FUNC1"}
  BY <1>5 DEF FromBar
<1> QED
  BY <1>1, <1>3, <1>4, <1>5

\* Channel c is the one of base address i of device k of machine m.
MadeAt(m, c, k, i) ==
  /\ k \in DOMAIN m /\ i \in Bars
  /\ Instance(m[k]) /\ DevProbe(m[k], i)
  /\ c.dev = k /\ c.base = FirstReg(m[k], i) /\ c.delta = RegDelta(m[k])

\* Addresses are numbers.
LEMMA RegsType ==
  ASSUME NEW d, SioDevice(d), NEW i \in Bars
  PROVE  FirstReg(d, i) \in Nat /\ EndReg(d, i) \in Nat
<1>1. RegBase(d)[i] \in Nat /\ RegDelta(d) \in {1, 4}
  BY RegBaseType DEF RegDelta
<1> QED
  BY <1>1 DEF FirstReg, EndReg

LEMMA StartType ==
  ASSUME NEW d, SioDevice(d), NEW i \in Bars
  PROVE  LET h == FromBar(d, i)
         IN  UartStart(d, h) \in Nat /\ UartEnd(d, h) \in Nat
<1>1. FromBar(d, i) \in Bars
  BY DEF FromBar, Bars, VXB_MAXBARS
<1>2. UartStart(d, FromBar(d, i)) \in Nat
  BY <1>1 DEF UartStart, SioDevice
<1>3. UartLength(d) \in Nat
  <2>1. 8 * RegDelta(d) \in Nat
    BY DEF RegDelta
  <2> QED
    BY <2>1 DEF UartLength
<1> QED
  BY <1>2, <1>3 DEF UartEnd

\* Its registers are the board's UARTs', unless there is none at the base address.
LEMMA MadeInUart ==
  ASSUME UartsOfBoards, sioMachine \in SioMachines,
         NEW c, NEW k, NEW i, MadeAt(sioMachine, c, k, i)
  PROVE  InUart(c) \/ OnStrayBar(c)
<1> DEFINE d == sioMachine[k]
           h == FromBar(d, i)
<1>1. SioDevice(d) /\ Instance(d) /\ GoodBoard(d) /\ i \in Bars /\ DevProbe(d, i)
  BY SioAssumption DEF MadeAt, UartsOfBoards, GoodBoard
<1>2. /\ UartStart(d, h) <= FirstReg(d, i) /\ EndReg(d, i) < UartEnd(d, h)
      /\ h \in UartBars(d) \/ (h \in StrayBars(d) /\ FirstReg(d, i) = d.bar[h])
  BY <1>1, InWindow
<1>9. CASE h \in StrayBars(d) /\ FirstReg(d, i) = d.bar[h]
  BY <1>9 DEF OnStrayBar, MadeAt
<1> SUFFICES ASSUME h \in UartBars(d) PROVE InUart(c)
  BY <1>2, <1>9
<1>3. PICK u \in d.uart : u[1] <= UartStart(d, h) /\ UartEnd(d, h) <= u[1] + u[2]
  BY <1>1 DEF UartsOfBoards, MadeAt
<1>4. d = sioMachine[c.dev] /\ c.base = FirstReg(d, i) /\ LastReg(c) = EndReg(d, i)
  BY DEF MadeAt, LastReg, EndReg, FirstReg
<1>5. u[1] \in Nat /\ u[2] \in Nat
  BY <1>1 DEF SioDevice
<1>6. FirstReg(d, i) \in Nat /\ EndReg(d, i) \in Nat
  BY <1>1, RegsType
<1>7. UartStart(d, h) \in Nat /\ UartEnd(d, h) \in Nat
  BY <1>1, StartType
<1> HIDE DEF d, h
<1>8. u[1] <= c.base /\ LastReg(c) < u[1] + u[2]
  BY <1>2, <1>3, <1>4, <1>5, <1>6, <1>7
<1> QED
  BY <1>3, <1>4, <1>8 DEF InUart

\* The registers of two base addresses are apart.
LEMMA MadeApart ==
  ASSUME UartsOfBoards, NEW m \in SioMachines,
         NEW b, NEW j, NEW g, MadeAt(m, b, j, g),
         NEW c, NEW k, NEW i, MadeAt(m, c, k, i),
         j # k \/ g # i
  PROVE  Disjoint(b, c)
<1> DEFINE d == m[k]
           h == FromBar(d, i)
           e == m[j]
           f == FromBar(e, g)
<1>1. /\ SioDevice(d) /\ Instance(d) /\ GoodBoard(d) /\ i \in Bars /\ DevProbe(d, i)
      /\ SioDevice(e) /\ Instance(e) /\ GoodBoard(e) /\ g \in Bars /\ DevProbe(e, g)
  BY SioAssumption DEF MadeAt, UartsOfBoards, GoodBoard
<1>2. /\ c.base = FirstReg(d, i) /\ LastReg(c) = EndReg(d, i)
      /\ b.base = FirstReg(e, g) /\ LastReg(b) = EndReg(e, g)
  BY DEF MadeAt, LastReg, EndReg, FirstReg
<1>3. CASE j = k /\ h = f
  <2>1. EndReg(d, i) < FirstReg(d, g) \/ EndReg(d, g) < FirstReg(d, i)
    BY <1>1, <1>3, OneWindow
  <2> QED
    BY <1>2, <1>3, <2>1 DEF Disjoint
<1>4. CASE j # k \/ h # f
  <2>1. /\ h \in DriverBars(d) /\ UartStart(d, h) <= FirstReg(d, i)
        /\ EndReg(d, i) < UartEnd(d, h)
        /\ f \in DriverBars(e) /\ UartStart(e, f) <= FirstReg(e, g)
        /\ EndReg(e, g) < UartEnd(e, f)
    BY <1>1, InWindow
  <2>2. UartEnd(d, h) <= UartStart(e, f) \/ UartEnd(e, f) <= UartStart(d, h)
    <3>1. k \in DOMAIN m /\ j \in DOMAIN m
      BY DEF MadeAt
    <3> QED
      BY <1>1, <1>4, <2>1, <3>1 DEF UartsOfBoards
  <2>3. /\ UartStart(d, h) \in Nat /\ UartEnd(d, h) \in Nat
        /\ UartStart(e, f) \in Nat /\ UartEnd(e, f) \in Nat
    BY <1>1, StartType
  <2>4. /\ FirstReg(d, i) \in Nat /\ EndReg(d, i) \in Nat
        /\ FirstReg(e, g) \in Nat /\ EndReg(e, g) \in Nat
    BY <1>1, RegsType
  <2> HIDE DEF d, h, e, f
  <2> QED
    BY <1>2, <2>1, <2>2, <2>3, <2>4 DEF Disjoint
<1> QED
  BY <1>3, <1>4

\* Setting a rate does not move a channel.
LEMMA SetBaudPlace ==
  ASSUME NEW c \in Chan, NEW r \in Nat \ {0}, NEW lsr
  PROVE  LET s == SetBaud(c, r, lsr)
         IN  s.dev = c.dev /\ s.base = c.base /\ s.delta = c.delta
BY DEF SetBaud, HsuartBaudSet, BaudSet, Chan

\* Every channel was made of a base address that is passed, and no two overlap.
Passed(k, i) == sioStage = "init" => k < sioDev \/ (k = sioDev /\ i < sioBar)
OwnInv ==
  /\ ChansType
  /\ \A c \in 1..Len(sioChans) :
       \E k \in DOMAIN sioMachine, i \in Bars :
         MadeAt(sioMachine, sioChans[c], k, i) /\ Passed(k, i)
  /\ \A b, c \in 1..Len(sioChans) : b # c => Disjoint(sioChans[b], sioChans[c])

\* It holds initially, and every step keeps it.
LEMMA OwnKept ==
  ASSUME UartsOfBoards
  PROVE  /\ SioInit => OwnInv
         /\ OwnInv /\ [SioNext]_sioVars => OwnInv'
<1>1. ASSUME SioInit PROVE OwnInv
  <2>1. ChansType /\ sioChans = <<>>
    BY <1>1, ChansTypeKept DEF SioInit
  <2> QED
    BY <2>1 DEF OwnInv
<1> SUFFICES ASSUME OwnInv, [SioNext]_sioVars PROVE OwnInv'
  BY <1>1
<1>2. ChansType' /\ ChansType
  BY ChansTypeKept DEF OwnInv
<1>3. /\ sioChans \in Seq(Chan) /\ Len(sioChans) \in Nat /\ sioDev \in Nat /\ sioBar \in Nat
      /\ \A k \in DOMAIN sioMachine : k \in Nat
      /\ \A i \in Bars : i \in Nat
  <2>1. sioMachine \in Seq({sioMachine[k] : k \in DOMAIN sioMachine})
    BY <1>2, SioAssumption DEF ChansType
  <2> QED
    BY <1>2, <2>1 DEF ChansType, Bars, VXB_MAXBARS
<1>4. ASSUME UNCHANGED <<sioMachine, sioChans>>,
             \A k \in DOMAIN sioMachine, i \in Bars : Passed(k, i) => Passed(k, i)'
      PROVE  OwnInv'
  BY <1>2, <1>4 DEF OwnInv, Disjoint, LastReg
<1>5. ASSUME UNCHANGED sioStage,
             NextDevice \/ NextBar, NEW k \in DOMAIN sioMachine, NEW i \in Bars, Passed(k, i)
      PROVE  Passed(k, i)'
  BY <1>3, <1>5 DEF NextDevice, NextBar, Passed
<1>6. CASE SioNoInstance
  BY <1>4, <1>5, <1>6 DEF SioNoInstance
<1>7. ASSUME SioInstInit, sioBar \in Bars, DevProbe(D, sioBar), NEW lsr,
             sioChans' = Append(sioChans, Initialized(lsr)), NextBar
      PROVE  OwnInv'
  <2>1. Initializing /\ sioStage = "init" /\ UNCHANGED <<sioMachine, sioStage>>
    BY <1>7 DEF SioInstInit, Initializing
  <2>2. sioDev \in DOMAIN sioMachine /\ Instance(D) /\ NewChan(D, sioBar) \in Chan
    BY <1>2, <1>7, <2>1, CurrentDevice, NewChanType DEF SioInstInit, Instance
  <2> DEFINE n == Initialized(lsr)
  <2>3. MadeAt(sioMachine, n, sioDev, sioBar)
    <3>1. /\ NewChan(D, sioBar).dev = sioDev /\ NewChan(D, sioBar).base = FirstReg(D, sioBar)
          /\ NewChan(D, sioBar).delta = RegDelta(D)
      BY DEF NewChan, FirstReg
    <3>2. n.dev = sioDev /\ n.base = FirstReg(D, sioBar) /\ n.delta = RegDelta(D)
      BY <2>2, <3>1, SetBaudPlace DEF Initialized
    <3> QED
      BY <1>7, <2>2, <3>2 DEF MadeAt, D
  <2>4. n \in Chan
    BY <2>2, SetBaudType DEF Initialized
  <2> HIDE DEF n
  <2>5. /\ Len(sioChans') = Len(sioChans) + 1
        /\ \A c \in 1..Len(sioChans) : sioChans'[c] = sioChans[c]
        /\ sioChans'[Len(sioChans) + 1] = n
    BY <1>3, <1>7, <2>4, AppendProperties DEF n
  <2>6. ASSUME NEW k, NEW i, k = sioDev, i = sioBar PROVE Passed(k, i)'
    BY <1>3, <1>7, <2>6 DEF Passed, NextBar
  <2>7. ASSUME NEW c \in 1..(Len(sioChans) + 1)
        PROVE  \E k \in DOMAIN sioMachine, i \in Bars :
                 MadeAt(sioMachine, sioChans'[c], k, i) /\ Passed(k, i)'
    <3>1. CASE c \in 1..Len(sioChans)
      BY <1>5, <1>7, <2>1, <2>5, <3>1 DEF OwnInv
    <3>2. CASE c = Len(sioChans) + 1
      <4>1. PICK k \in DOMAIN sioMachine, i \in Bars : k = sioDev /\ i = sioBar
        BY <1>7, <2>2
      <4>2. MadeAt(sioMachine, sioChans'[c], k, i) /\ Passed(k, i)'
        BY <2>3, <2>5, <2>6, <3>2, <4>1
      <4> QED
        BY <4>2
    <3> QED
      BY <1>3, <3>1, <3>2
  <2>8. ASSUME NEW c \in 1..Len(sioChans)
        PROVE  Disjoint(sioChans[c], n) /\ Disjoint(n, sioChans[c])
    <3>1. PICK k \in DOMAIN sioMachine, i \in Bars :
            MadeAt(sioMachine, sioChans[c], k, i) /\ Passed(k, i)
      BY DEF OwnInv
    <3>2. k # sioDev \/ i # sioBar
      BY <1>3, <2>1, <3>1 DEF Passed
    <3>3. sioMachine \in SioMachines
      BY <1>2 DEF ChansType
    <3>4. Disjoint(sioChans[c], n)
      BY <2>3, <3>1, <3>2, <3>3, MadeApart, UartsOfBoards
    <3> QED
      BY <3>4 DEF Disjoint
  <2>9. ASSUME NEW b \in 1..(Len(sioChans) + 1), NEW c \in 1..(Len(sioChans) + 1), b # c
        PROVE  Disjoint(sioChans'[b], sioChans'[c])
    <3>1. CASE b \in 1..Len(sioChans) /\ c \in 1..Len(sioChans)
      BY <2>5, <2>9, <3>1 DEF OwnInv
    <3>2. CASE b = Len(sioChans) + 1 /\ c \in 1..Len(sioChans)
      BY <2>5, <2>8, <3>2
    <3>3. CASE b \in 1..Len(sioChans) /\ c = Len(sioChans) + 1
      BY <2>5, <2>8, <3>3
    <3> QED
      BY <1>3, <2>9, <3>1, <3>2, <3>3
  <2>10. \A b, c \in 1..Len(sioChans') : b # c => (Disjoint(sioChans[b], sioChans[c]))'
    BY <2>5, <2>9 DEF Disjoint, LastReg
  <2>11. \A c \in 1..Len(sioChans') :
           \E k \in DOMAIN sioMachine', i \in Bars :
             MadeAt(sioMachine', sioChans'[c], k, i) /\ Passed(k, i)'
    BY <2>1, <2>5, <2>7
  <2> QED
    BY <1>2, <2>10, <2>11 DEF OwnInv
<1>8. CASE SioInstInit
  <2>1. ASSUME UNCHANGED sioChans, NextDevice \/ NextBar PROVE OwnInv'
    BY <1>4, <1>5, <1>8, <2>1 DEF SioInstInit
  <2> QED
    BY <1>7, <1>8, <2>1 DEF SioInstInit, Initialized
<1>9. CASE SioInstInit2 \/ SioChanConnectAll \/ SioChanConnect
  <2>1. /\ UNCHANGED <<sioMachine, sioChans>> /\ sioStage' # "init"
    BY <1>9 DEF SioInstInit2, SioChanConnectAll, SioChanConnect
  <2> QED
    BY <1>4, <2>1 DEF Passed
<1>10. ASSUME NEW r \in SioRates, SioBaudSet(r)
       PROVE  OwnInv'
  <2>1. PICK lsr : sioChans' = [sioChans EXCEPT ![sioUser] = SetBaud(@, r, lsr)]
    BY <1>10 DEF SioBaudSet
  <2>2. r \in Nat \ {0} /\ UNCHANGED <<sioMachine, sioStage, sioDev, sioBar>>
    BY <1>10, SioAssumption DEF SioBaudSet, sioBoot
  <2>3. Len(sioChans') = Len(sioChans)
    BY <1>3, <2>1
  <2>4. ASSUME NEW c \in 1..Len(sioChans)
        PROVE  /\ sioChans'[c].dev = sioChans[c].dev /\ sioChans'[c].base = sioChans[c].base
               /\ sioChans'[c].delta = sioChans[c].delta
    <3>1. sioChans[c] \in Chan
      BY <1>3, ElementOfSeq
    <3>2. sioChans'[c] = sioChans[c] \/ sioChans'[c] = SetBaud(sioChans[c], r, lsr)
      BY <1>3, <2>1
    <3> QED
      BY <2>2, <3>1, <3>2, SetBaudPlace
  <2>5. \A c \in 1..Len(sioChans') :
           \E k \in DOMAIN sioMachine', i \in Bars :
             MadeAt(sioMachine', sioChans'[c], k, i) /\ Passed(k, i)'
    BY <2>2, <2>3, <2>4 DEF OwnInv, MadeAt, Passed
  <2>6. \A b, c \in 1..Len(sioChans') : b # c => (Disjoint(sioChans[b], sioChans[c]))'
    BY <2>3, <2>4 DEF OwnInv, Disjoint, LastReg
  <2> QED
    BY <1>2, <2>5, <2>6 DEF OwnInv
<1>11. CASE UNCHANGED <<sioBoot, sioChans>>
  BY <1>4, <1>11 DEF sioBoot, Passed
<1> QED
  BY <1>6, <1>8, <1>9, <1>10, <1>11
     DEF SioNext, sioVars, SioChanGet, StoreCallback, StoreArg, SioModeSet, SioOptsSet,
         SioInterrupt, SioJob

\* If the boards have their UARTs at the base addresses that the comments of
\* ns16550vxbInstInit name, and base addresses do not overlap, no two channels share
\* a register, on machines with any number and mix of the boards (lines 1251 to
\* 1453), and every channel's registers are registers of a UART, except those of
\* the channels made on base addresses 2 to 5 of an AXXON IC0607KB.
THEOREM OwnUarts ==
  ASSUME UartsOfBoards
  PROVE  SioSpec => []SioOwnUart
<1>1. OwnInv => SioOwnUart
  <2> SUFFICES ASSUME OwnInv PROVE SioOwnUart
    OBVIOUS
  <2>1. DOMAIN sioChans = 1..Len(sioChans) /\ sioMachine \in SioMachines
    BY DEF OwnInv, ChansType
  <2>2. \A c \in 1..Len(sioChans) : InUart(sioChans[c]) \/ OnStrayBar(sioChans[c])
    BY <2>1, MadeInUart, UartsOfBoards DEF OwnInv
  <2> QED
    BY <2>1, <2>2 DEF OwnInv, SioOwnUart
<1> QED
  BY <1>1, OwnKept, UartsOfBoards, PTL DEF SioSpec

-----------------------------------------------------------------------------
(* The types of all variables.                                             *)

\* Channels are of devices of the machine; the client's channel is one of them.
RestType ==
  /\ \A c \in 1..Len(sioChans) : sioChans[c].dev \in 1..Len(sioMachine)
  /\ sioReady \in BOOLEAN /\ sioInts \subseteq Nat
  /\ sioUser \in 0..Len(sioChans)
  /\ ClientType
  /\ sioIer \in BOOLEAN /\ sioCalled \in Nat \X Nat

\* The newest channel of a number that a device made is a channel of it.
LEMMA NewestIs ==
  ASSUME ChansType, NEW n, NEW d \in DevicesWith(n)
  PROVE  NewestOf(d, n) \in Numbered(n)
<1> DEFINE T == {c \in Numbered(n) : sioChans[c].dev = d}
<1>1. DOMAIN sioChans = 1..Len(sioChans) /\ Len(sioChans) \in Nat
  BY DEF ChansType
<1>2. T \subseteq 0..Len(sioChans) /\ T # {}
  BY <1>1 DEF Numbered, DevicesWith
<1>3. \E m \in T : \A b \in T : m >= b
  <2> HIDE DEF T
  <2> QED
    BY <1>1, <1>2, GreatestNat
<1>4. \E c \in Numbered(n) : /\ sioChans[c].dev = d
                             /\ \A b \in Numbered(n) : sioChans[b].dev = d => b <= c
  <2>1. PICK m \in T : \A b \in T : m >= b
    BY <1>3
  <2>2. \A b \in Numbered(n) : b \in Nat
    BY <1>1 DEF Numbered
  <2> QED
    BY <2>1, <2>2
<1> QED
  BY <1>4 DEF NewestOf

\* The channel that a number connects, and the one a client gets by it.
LEMMA FoundIs ==
  ASSUME ChansType, RestType, NEW n, Numbered(n) # {}
  PROVE  ChanConnected(n) \in 1..Len(sioChans) /\ ChanGot(n) \in 1..Len(sioChans)
<1> DEFINE T == DevicesWith(n)
<1>1. /\ DOMAIN sioChans = 1..Len(sioChans) /\ Len(sioMachine) \in Nat
      /\ Numbered(n) \subseteq 1..Len(sioChans)
  <2>1. sioMachine \in Seq({sioMachine[k] : k \in DOMAIN sioMachine})
    BY SioAssumption DEF ChansType
  <2> QED
    BY <2>1 DEF ChansType, Numbered
<1>2. T \subseteq 1..Len(sioMachine) /\ T # {}
  BY <1>1 DEF DevicesWith, RestType
<1>3. T \subseteq Nat /\ T \subseteq 0..Len(sioMachine)
  BY <1>1, <1>2
<1>4. /\ \E d \in T : \A e \in T : d <= e
      /\ \E d \in T : \A e \in T : d >= e
  <2> HIDE DEF T
  <2> QED
    BY <1>1, <1>2, <1>3, LeastNat, GreatestNat
<1>5. ChanConnected(n) \in Numbered(n)
  BY <1>4, NewestIs DEF ChanConnected
<1>6. ChanGot(n) \in Numbered(n)
  BY <1>4, NewestIs DEF ChanGot
<1> QED
  BY <1>1, <1>5, <1>6

\* The client's part, whenever callbacks are installed.
LEMMA ClientTypeKept ==
  ASSUME ClientType, [SioNext]_sioVars
  PROVE  ClientType'
<1> USE DEF ClientType, SioCallbacks
<1>1. CASE UNCHANGED sioClient
  BY <1>1 DEF sioClient
<1>2. ASSUME NEW c \in SioCallbacks, StoreCallback(c)
      PROVE  ClientType'
  BY <1>2 DEF StoreCallback
<1>3. CASE StoreArg
  BY <1>3 DEF StoreArg
<1>4. ASSUME NEW m \in {"POLL", "INT"}, SioModeSet(m)
      PROVE  ClientType'
  BY <1>4 DEF SioModeSet
<1>5. CASE SioOptsSet
  BY <1>5 DEF SioOptsSet
<1>6. ASSUME NEW c \in SioCallbacks, SioInterrupt(c) \/ SioJob(c)
      PROVE  ClientType'
  BY <1>6 DEF SioInterrupt, SioJob
<1> QED
  BY <1>1, <1>2, <1>3, <1>4, <1>5, <1>6
     DEF SioNext, sioVars, SioNoInstance, SioInstInit, SioInstInit2, SioChanConnectAll,
         SioChanConnect, SioChanGet, SioBaudSet

\* The rest of the types holds initially, and every step keeps it.
LEMMA RestTypeKept ==
  /\ SioInit => RestType
  /\ ChansType /\ RestType /\ [SioNext]_sioVars => RestType'
<1>1. ASSUME SioInit PROVE RestType
  <2>1. /\ sioReady = FALSE /\ sioInts = {} /\ sioUser = 0 /\ sioIer = FALSE
        /\ sioCalled = <<0, 0>> /\ sioChans = <<>>
    BY <1>1 DEF SioInit
  <2>2. ClientType
    BY <1>1, CallbackInit DEF CallbackInv
  <2> QED
    <3>1. Len(sioChans) = 0 /\ sioUser \in 0..Len(sioChans)
      BY <2>1
    <3>2. sioReady \in BOOLEAN /\ sioIer \in BOOLEAN
      BY <2>1
    <3> QED
      BY <2>1, <2>2, <3>1, <3>2 DEF RestType
<1> SUFFICES ASSUME ChansType, RestType, [SioNext]_sioVars PROVE RestType'
  BY <1>1
<1>2. ClientType'
  BY ClientTypeKept DEF RestType
<1>3. /\ sioChans \in Seq(Chan) /\ Len(sioChans) \in Nat /\ DOMAIN sioChans = 1..Len(sioChans)
      /\ \A c \in 1..Len(sioChans) : sioChans[c].dev \in Nat
  <2>1. sioChans \in Seq(Chan)
    BY DEF ChansType
  <2>2. \A c \in 1..Len(sioChans) : sioChans[c] \in Chan
    BY <2>1, ElementOfSeq
  <2>3. \A c \in 1..Len(sioChans) : sioChans[c].dev \in Nat
    BY <2>2 DEF Chan
  <2>4. Len(sioChans) \in Nat /\ DOMAIN sioChans = 1..Len(sioChans)
    BY <2>1
  <2> QED
    BY <2>1, <2>3, <2>4
<1>4. CASE SioNoInstance
  BY <1>2, <1>4 DEF SioNoInstance, RestType, sioClient
<1>5. ASSUME SioInstInit, sioBar \in Bars, NEW lsr,
             sioChans' = Append(sioChans, Initialized(lsr))
      PROVE  RestType'
  <2>1. Initializing /\ UNCHANGED <<sioMachine, sioReady, sioInts, sioUser, sioClient>>
    BY <1>5 DEF SioInstInit
  <2>2. sioDev \in 1..Len(sioMachine)
    BY <2>1 DEF Initializing, ChansType
  <2>3. Initialized(lsr) \in Chan /\ Initialized(lsr).dev = sioDev
    <3>1. NewChan(D, sioBar) \in Chan /\ NewChan(D, sioBar).dev = sioDev
      BY <1>5, <2>1, NewChanType DEF NewChan
    <3> QED
      BY <3>1, SetBaudType DEF Initialized
  <2>4. /\ Len(sioChans') = Len(sioChans) + 1
        /\ \A c \in 1..Len(sioChans) : sioChans'[c] = sioChans[c]
        /\ sioChans'[Len(sioChans) + 1] = Initialized(lsr)
    BY <1>3, <1>5, <2>3, AppendProperties
  <2>5. \A c \in 1..Len(sioChans') : sioChans'[c].dev \in 1..Len(sioMachine')
    BY <1>3, <2>1, <2>2, <2>3, <2>4 DEF RestType
  <2>6. sioUser' \in 0..Len(sioChans')
    BY <1>3, <2>1, <2>4 DEF RestType
  <2> QED
    BY <1>2, <2>1, <2>5, <2>6 DEF RestType, sioClient
<1>6. CASE SioInstInit
  <2>1. CASE UNCHANGED sioChans
    BY <1>2, <1>6, <2>1 DEF SioInstInit, RestType, sioClient
  <2> QED
    BY <1>5, <1>6, <2>1 DEF SioInstInit, Initialized
<1>7. CASE SioInstInit2
  <2>1. sioReady' \in BOOLEAN
    BY <1>7 DEF SioInstInit2
  <2> QED
    BY <1>2, <1>7, <2>1 DEF SioInstInit2, RestType, sioClient
<1>8. CASE SioChanConnectAll
  <2>1. sioInts' \subseteq Nat
    BY <1>3, <1>8 DEF SioChanConnectAll
  <2> QED
    BY <1>2, <1>8, <2>1 DEF SioChanConnectAll, RestType, sioClient
<1>9. CASE SioChanConnect
  <2>1. sioInts' \subseteq Nat
    <3>1. CASE Numbered(sioDev) = {}
      BY <1>9, <3>1 DEF SioChanConnect, RestType
    <3>2. CASE Numbered(sioDev) # {}
      <4>1. sioInts' = sioInts \cup {sioChans[ChanConnected(sioDev)].dev}
        BY <1>9, <3>2 DEF SioChanConnect
      <4>2. ChanConnected(sioDev) \in 1..Len(sioChans)
        BY <3>2, FoundIs
      <4> QED
        BY <1>3, <4>1, <4>2 DEF RestType
    <3> QED
      BY <3>1, <3>2
  <2> QED
    BY <1>2, <1>9, <2>1 DEF SioChanConnect, RestType, sioClient
<1>10. ASSUME NEW n \in 0..sioNumber, SioChanGet(n)
       PROVE  RestType'
  <2>1. sioUser' \in 0..Len(sioChans)
    <3>1. Numbered(n) # {} /\ sioUser' = ChanGot(n)
      BY <1>10 DEF SioChanGet
    <3>2. ChanGot(n) \in 1..Len(sioChans)
      BY <3>1, FoundIs
    <3> QED
      BY <1>3, <3>1, <3>2
  <2> QED
    BY <1>2, <1>10, <2>1 DEF SioChanGet, RestType, sioBoot, sioClient
<1>11. ASSUME NEW r \in SioRates, SioBaudSet(r)
       PROVE  RestType'
  <2>1. PICK lsr : sioChans' = [sioChans EXCEPT ![sioUser] = SetBaud(@, r, lsr)]
    BY <1>11 DEF SioBaudSet
  <2>2. r \in Nat \ {0} /\ Len(sioChans') = Len(sioChans)
    BY <1>3, <2>1, SioAssumption
  <2>3. ASSUME NEW c \in 1..Len(sioChans) PROVE sioChans'[c].dev = sioChans[c].dev
    <3>1. sioChans[c] \in Chan
      BY <1>3, ElementOfSeq
    <3>2. sioChans'[c] = sioChans[c] \/ sioChans'[c] = SetBaud(sioChans[c], r, lsr)
      BY <1>3, <2>1
    <3> QED
      BY <2>2, <3>1, <3>2, SetBaudType
  <2> QED
    BY <1>2, <1>11, <2>2, <2>3 DEF SioBaudSet, RestType, sioBoot, sioClient
<1>12. CASE UNCHANGED <<sioBoot, sioChans, sioUser>> /\ sioIer' \in BOOLEAN
            /\ sioCalled' \in Nat \X Nat
  BY <1>2, <1>12 DEF RestType, sioBoot
<1>13. ASSUME NEW c \in SioCallbacks, SioJob(c)
       PROVE  RestType'
  <2>1. sioRoutine[c] \in Nat /\ sioArg[c] \in Nat
    BY DEF RestType, ClientType
  <2> QED
    BY <1>12, <1>13, <2>1 DEF SioJob
<1>14. CASE (\E c \in SioCallbacks : StoreCallback(c) \/ SioInterrupt(c)) \/ StoreArg
            \/ SioOptsSet \/ \E m \in {"POLL", "INT"} : SioModeSet(m)
  <2>1. sioIer' \in BOOLEAN
    BY <1>14 DEF StoreCallback, StoreArg, SioModeSet, SioOptsSet, SioInterrupt, RestType,
       IerKept
  <2> QED
    BY <1>12, <1>14, <2>1 DEF StoreCallback, StoreArg, SioModeSet, SioOptsSet, SioInterrupt,
       RestType
<1>15. CASE UNCHANGED sioVars
  BY <1>2, <1>15 DEF sioVars, sioBoot, sioClient, RestType
<1> QED
  BY <1>4, <1>6, <1>7, <1>8, <1>9, <1>10, <1>11, <1>13, <1>14, <1>15 DEF SioNext

\* The variables of the serial driver's devices stay in their types; in particular,
\* the channel a client gets by its number always exists.
THEOREM SioTyped == SioSpec => []SioTypeOK
<1>1. ChansType /\ RestType => SioTypeOK
  BY DEF ChansType, RestType, ClientType, Chan, SioTypeOK
<1> QED
  BY <1>1, ChansTypeKept, RestTypeKept, PTL DEF SioSpec
=============================================================================
