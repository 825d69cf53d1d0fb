------------------------------ MODULE SdMonitor ------------------------------
(***************************************************************************)
(* The SD host controller (vxbPciSdhcCtrl.c): pciSdhcInstConnect spawns a  *)
(* monitor and sets up the interrupts; the monitor announces the devices   *)
(* of a card that is inserted and removes them when it is gone.  The       *)
(* generic SD driver, whose commands need a status or an interrupt, is     *)
(* external, and so is vxBus, which keeps the list of devices.             *)
(***************************************************************************)
EXTENDS Integers, Sequences

CONSTANTS
  SdBoards,     \* controllers: [drv, isr, irq, polling : BOOLEAN, dma]: has a
                \* pDrvCtrl, has vxbSdIsr, vxbIntConnect and vxbIntEnable succeed
  SdTargets,    \* most devices on a card
  SdMaxTarget,  \* MAX_TARGET_DEV
  SdSmp,        \* the monitor may run on another CPU while the spawner runs
  SdMaxMoves    \* bound: insertions of a card

ASSUME SdAssumption ==
  /\ SdBoards \subseteq [drv : BOOLEAN, isr : BOOLEAN, irq : BOOLEAN,
                         polling : BOOLEAN, dma : {"SDMA", "PIO"}]
  /\ SdTargets \in Nat \ {0} /\ SdMaxTarget \in Nat \ {0}
  /\ SdSmp \in BOOLEAN
  /\ SdMaxMoves \in Nat

VARIABLES
  sdBoard,     \* this controller
  sdPc,        \* pciSdhcInstConnect: "init2", "connect", "mask", "int", "present", "done"
  sdStatEn,    \* SDHC_IRQSTATEN: the events that set a status
  sdSigEn,     \* SDHC_IRQSIGEN written
  sdGiven,     \* devChange given
  sdErf,       \* erfLibInitialized
  sdMon,       \* the monitor: "none", "erf", "poll", "announce", "attach", "remove", "delay"
  sdCard,      \* the card inserted, 0 for none
  sdCards,     \* cards inserted so far
  sdAttached,  \* attached
  sdList,      \* instList: devices, each of a card
  sdNext,      \* pDevList # NULL
  sdI          \* i

sdSetup == <<sdBoard, sdPc, sdStatEn, sdSigEn, sdGiven>>
sdMonitor == <<sdMon, sdAttached, sdList, sdNext, sdI>>
sdSlot == <<sdCard, sdCards>>
sdVars == <<sdSetup, sdErf, sdMonitor, sdSlot>>

SdInit ==
  /\ sdBoard \in SdBoards
  /\ sdPc = "init2" /\ sdStatEn = {} /\ sdSigEn = FALSE /\ sdGiven = FALSE
  /\ sdErf = FALSE
  /\ sdMon = "none" /\ sdAttached = FALSE /\ sdList = <<>>
  /\ sdNext = FALSE /\ sdI = 0
  /\ sdCard = 0 /\ sdCards = 0
-----------------------------------------------------------------------------
(* The three levels of initialization.                                     *)

\* pciSdhcInstInit2: DMA mode, polling and operations from the resources.
SdInstInit2 ==
  /\ sdPc = "init2"
  /\ sdPc' = IF sdBoard.drv THEN "connect" ELSE "done"
  /\ UNCHANGED <<sdBoard, sdStatEn, sdSigEn, sdGiven, sdErf, sdMonitor, sdSlot>>

\* sdhcCtrlInstConnect initializes the host, with pciSdhcDevInit, or fails; then
\* the monitor is spawned.
SdInstConnect ==
  /\ sdPc = "connect"
  /\ \/ /\ sdPc' = "done"
        /\ UNCHANGED sdMon
     \/ /\ sdPc' = "mask"
        /\ sdMon' = "erf"
  /\ UNCHANGED <<sdBoard, sdStatEn, sdSigEn, sdGiven, sdErf, sdAttached, sdList,
                 sdNext, sdI, sdSlot>>

IntMask(b) == {"DATA", "CMD", "AC12E", "DINT", "CINS"}
                \cup (IF b.dma = "PIO" THEN {"BRR", "BWR"} ELSE {})
SdIrqStatEn ==
  /\ sdPc = "mask"
  /\ sdStatEn' = IntMask(sdBoard)
  /\ sdPc' = IF sdBoard.polling THEN "present" ELSE "int"
  /\ UNCHANGED <<sdBoard, sdSigEn, sdGiven, sdErf, sdMonitor, sdSlot>>

\* Without a routine, or when connecting or enabling fails, it returns.
SignalsOff == FALSE
SignalsOn == sdBoard.isr /\ sdBoard.irq
SdIntConnect ==
  /\ sdPc = "int"
  /\ sdSigEn' = SignalsOn
  /\ sdPc' = IF sdBoard.isr /\ sdBoard.irq THEN "present" ELSE "done"
  /\ UNCHANGED <<sdBoard, sdStatEn, sdGiven, sdErf, sdMonitor, sdSlot>>

\* "don't miss an already inserted card"
SdPresent ==
  /\ sdPc = "present"
  /\ sdGiven' = (sdCard # 0)
  /\ sdPc' = "done"
  /\ UNCHANGED <<sdBoard, sdStatEn, sdSigEn, sdErf, sdMonitor, sdSlot>>

SdConnectStep == SdInstInit2 \/ SdInstConnect \/ SdIrqStatEn \/ SdIntConnect \/ SdPresent
-----------------------------------------------------------------------------
(* pciSdhcCtrlMonitor, at priority 100; tDevConn connects at 11.           *)

MonitorRuns == SdSmp \/ sdPc = "done"
SdGoto(l) == MonitorRuns /\ sdMon' = l

SdErfReady ==
  /\ sdMon = "erf" /\ sdErf
  /\ SdGoto("poll")
  /\ UNCHANGED <<sdSetup, sdErf, sdAttached, sdList, sdNext, sdI, sdSlot>>

\* A card that is attached is polled again at once, without a delay.
RemoveIfAttached == IF sdAttached THEN "remove" ELSE "delay"
RemoveAlways == "remove"
SdPollStatus ==
  /\ sdMon = "poll"
  /\ \/ sdCard # 0 /\ sdAttached /\ SdGoto("poll")
     \/ sdCard # 0 /\ ~sdAttached /\ SdGoto("announce")
     \/ sdCard = 0 /\ SdGoto(RemoveAlways)
  /\ sdNext' = (sdList # <<>>)
  /\ sdI' = 0
  /\ UNCHANGED <<sdSetup, sdErf, sdAttached, sdList, sdSlot>>

\* Power, clock and width are set up, then sdBusAnnounceDevices asks the card:
\* a command ends with a status that is enabled, or with an interrupt.
Answered == sdStatEn # {} /\ (sdBoard.polling \/ sdSigEn)
SdAnnounce ==
  /\ sdMon = "announce"
  /\ \/ /\ sdCard # 0 /\ Answered
        /\ \E n \in 1..SdTargets : sdList' = sdList \o [k \in 1..n |-> sdCard]
     \/ /\ sdCard = 0 \/ ~Answered
        /\ UNCHANGED sdList
  /\ SdGoto("attach")
  /\ UNCHANGED <<sdSetup, sdErf, sdAttached, sdNext, sdI, sdSlot>>

\* The status of the announcement is not looked at.
SdAttach ==
  /\ sdMon = "attach"
  /\ sdAttached' = TRUE
  /\ SdGoto("delay")
  /\ UNCHANGED <<sdSetup, sdErf, sdList, sdNext, sdI, sdSlot>>

\* The loop over the devices: pNext is read from a device that has just been
\* taken off the list, which may have cleared it.
MoreOrOne == sdNext /\ sdI <= SdMaxTarget
More == sdNext /\ sdI < SdMaxTarget
SdRemove ==
  /\ sdMon = "remove" /\ More
  /\ SdGoto("remove")
  /\ sdList' = Tail(sdList)
  /\ sdNext' \in {Len(sdList) > 1, FALSE}
  /\ sdI' = sdI + 1
  /\ UNCHANGED <<sdSetup, sdErf, sdAttached, sdSlot>>
SdDetach ==
  /\ sdMon = "remove" /\ ~More
  /\ sdAttached' = FALSE
  /\ SdGoto("delay")
  /\ UNCHANGED <<sdSetup, sdErf, sdList, sdNext, sdI, sdSlot>>

SdWake ==
  /\ sdMon = "delay"
  /\ SdGoto("poll")
  /\ UNCHANGED <<sdSetup, sdErf, sdAttached, sdList, sdNext, sdI, sdSlot>>

SdMonitorStep == \/ SdErfReady \/ SdPollStatus \/ SdAnnounce \/ SdAttach
                 \/ SdRemove \/ SdDetach \/ SdWake
-----------------------------------------------------------------------------
(* The card, and the rest of the system.                                   *)

SdCardIn ==
  /\ sdCard = 0 /\ sdCards < SdMaxMoves
  /\ sdCards' = sdCards + 1
  /\ sdCard' = sdCards + 1
  /\ UNCHANGED <<sdSetup, sdErf, sdMonitor>>
SdCardOut ==
  /\ sdCard # 0
  /\ sdCard' = 0
  /\ UNCHANGED <<sdSetup, sdErf, sdMonitor, sdCards>>
SdErfInit ==
  /\ ~sdErf
  /\ sdErf' = TRUE
  /\ UNCHANGED <<sdSetup, sdMonitor, sdSlot>>

SdNext == SdConnectStep \/ SdMonitorStep \/ SdCardIn \/ SdCardOut \/ SdErfInit

SdFairness == /\ WF_sdVars(SdConnectStep)
              /\ WF_sdVars(SdMonitorStep)
              /\ WF_sdVars(SdErfInit)
SdSpec == SdInit /\ [][SdNext]_sdVars /\ SdFairness
-----------------------------------------------------------------------------
(* Properties.                                                             *)

\* Every variable stays in its type.
SdTypeOK ==
  /\ sdBoard \in SdBoards
  /\ sdPc \in {"init2", "connect", "mask", "int", "present", "done"}
  /\ sdStatEn \subseteq {"DATA", "CMD", "AC12E", "DINT", "CINS", "BRR", "BWR"}
  /\ sdSigEn \in BOOLEAN /\ sdGiven \in BOOLEAN /\ sdErf \in BOOLEAN
  /\ sdMon \in {"none", "erf", "poll", "announce", "attach", "remove", "delay"}
  /\ sdCard \in Nat /\ sdCards \in Nat
  /\ sdAttached \in BOOLEAN /\ sdNext \in BOOLEAN
  /\ sdList \in Seq(Nat)
  /\ sdI \in 0..SdMaxTarget

\* Once a card is out for good, all its devices are removed in the end, however
\* many there are and whatever a removal leaves in pNext: every round of the
\* monitor tries again (lines 585 to 602).
SdRemoved == <>[](sdCard = 0) => <>[](sdList = <<>>)

\* A card that the monitor finds while nothing is attached, and that stays, gets
\* its devices announced, whenever it was inserted (lines 565 to 583), where
\* interrupts can be had or are not needed.
Equipped == sdBoard.polling \/ (sdBoard.isr /\ sdBoard.irq)
SdCardServed ==
  \A c \in 1..SdMaxMoves :
    (sdMon = "poll" /\ ~sdAttached /\ sdCard = c /\ Equipped)
      ~> (sdCard # c \/ \E k \in DOMAIN sdList : sdList[k] = c)

\* The monitor asks the card only when commands are answered.
SdAsksWhenAnswered == sdMon = "announce" /\ Equipped => Answered

\* The devices on the list are of the card that is inserted.
SdDevicesOfCard ==
  sdMon = "poll" /\ sdAttached /\ sdCard # 0
    => \A k \in DOMAIN sdList : sdList[k] = sdCard

\* The monitor always comes to its delay of two seconds again.
SdSleeps == [](sdMon = "poll" => <>(sdMon = "delay"))
=============================================================================
