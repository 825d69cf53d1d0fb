-------------------------- MODULE Ns16550Chan_proofs --------------------------
(***************************************************************************)
(* Proofs about Ns16550Chan, for any number of tasks, any depth of FIFO,   *)
(* any mix of calls and any bounds.                                        *)
(***************************************************************************)
EXTENDS Ns16550Chan, TLAPS

-----------------------------------------------------------------------------
(* The registers keep their types under every access.                      *)

\* Writing IER and reading LSR or MSR leave the chip in a state of its type.
LEMMA AccessTypes ==
  ASSUME NEW u \in Uarts, NEW b \in SUBSET IerBits
  PROVE  /\ SetIer(u, b) \in Uarts
         /\ GetLsr(u) \in Uarts
         /\ GetMsr(u) \in Uarts
<1>1. SetIer(u, b) \in Uarts
  BY DEF SetIer, Uarts
<1>2. GetLsr(u) \in Uarts /\ GetMsr(u) \in Uarts
  BY DEF GetLsr, GetMsr, Uarts
<1> QED
  BY <1>1, <1>2

\* A character written to THR never fills the transmitter beyond its depth.
LEMMA SetThrType ==
  ASSUME NEW u \in Uarts
  PROVE  SetThr(u) \in Uarts
<1>1. Depth(u) \in 1..FifoSize
  BY ChanAssumption DEF Depth
<1>2. u.thr \in 0..FifoSize
  BY DEF Uarts
<1>3. (IF ~u.dlab /\ u.thr < Depth(u) THEN u.thr + 1 ELSE u.thr)
        \in 0..FifoSize
  BY <1>1, <1>2, ChanAssumption
<1>4. (u.thri /\ u.dlab) \in BOOLEAN
  OBVIOUS
<1>5. (IF u.dlab THEN NoOne ELSE u.div) \in Rates \cup {NoOne}
  BY DEF Uarts
<1> QED
  BY <1>3, <1>4, <1>5 DEF SetThr, Uarts

\* Clearing the FIFOs leaves the chip in a state of its type.
LEMMA ResetFifoType ==
  ASSUME NEW u \in Uarts, NEW e \in BOOLEAN
  PROVE  ResetFifo(u, e) \in Uarts
<1>1. 0 \in 0..FifoSize /\ 0 \in Nat
  BY ChanAssumption
<1>2. ("Tx" \in u.ier /\ (u.thri \/ u.thr > 0)) \in BOOLEAN
  OBVIOUS
<1> QED
  BY <1>1, <1>2 DEF ResetFifo, Uarts

\* An access leaves the chip in the state it ends in and irq a Boolean.
LEMMA DriveTypes ==
  ASSUME NEW via, NEW end \in Uarts, Drive(via, end)
  PROVE  uart' \in Uarts /\ irq' \in BOOLEAN
  BY DEF Drive

-----------------------------------------------------------------------------
(* Type correctness.                                                       *)

\* Which bits the calls of the clients leave in pChan->ier and in the chip.
LEMMA BitsTypes ==
  ASSUME TypeOK
  PROVE  /\ ierInit \in SUBSET IerBits
         /\ StartBits \in SUBSET IerBits
         /\ RearmTx \in SUBSET IerBits
         /\ RearmRx \in SUBSET IerBits
         /\ ier \cup {"Rx", "Tx"} \in SUBSET IerBits
         /\ ier \cup {"Tx"} \in SUBSET IerBits
         /\ \A x : ier \ {x} \in SUBSET IerBits
         /\ \A o \in Options : OptsBits(o) \in SUBSET IerBits
  BY DEF TypeOK, ierInit, StartBits, RearmTx, RearmRx, OptsBits, IerBits

\* Switching the mode keeps the types of what it changes.
LEMMA SetModeTypes ==
  ASSUME TypeOK, NEW m \in {"undef", "POLL", "INT"}, SetMode(m)
  PROVE  /\ uart' \in Uarts /\ irq' \in BOOLEAN
         /\ ier' \subseteq IerBits
         /\ mode' \in {"undef", "POLL", "INT"}
<1> DEFINE new == IF uart.cts THEN ier \cup {"Tx"} ELSE ier \ {"Tx"}
<1>1. uart \in Uarts /\ ier \subseteq IerBits
  BY DEF TypeOK
<1>2. new \in SUBSET IerBits
  BY BitsTypes
<1>3. GetMsr(uart) \in Uarts
  BY <1>1, AccessTypes DEF TypeOK
<1>4. /\ SetIer(uart, ier \cup {"Rx", "Tx"}) \in Uarts
      /\ SetIer(GetMsr(uart), new) \in Uarts
      /\ SetIer(uart, ierInit) \in Uarts
  BY <1>1, <1>2, <1>3, BitsTypes, AccessTypes
<1>5. uart' \in Uarts /\ irq' \in BOOLEAN
  BY <1>4, DriveTypes DEF SetMode, Access
<1> QED
  BY <1>1, <1>2, <1>5 DEF SetMode

\* One step of a pass of the interrupt routine over a pending channel.
LEMMA ServeTypes ==
  ASSUME NEW u \in Uarts, NEW b \in SUBSET IerBits, Serve(u, b)
  PROVE  uart' \in Uarts /\ irq' \in BOOLEAN /\ ier' \subseteq IerBits
<1>1. ierInit \in SUBSET IerBits
  BY DEF ierInit
<1>2. SetIer(SetIer(u, ierInit), b) \in Uarts
  BY <1>1, AccessTypes
<1> QED
  BY <1>2, DriveTypes DEF Serve

\* The end of a pass keeps the count in range.
LEMMA NextPassTypes ==
  ASSUME TypeOK, isr # "idle", NextPass
  PROVE  /\ isr' \in {"idle", "pass"}
         /\ passes' \in 0..NS16550_INT_COUNT
         /\ isr' = "idle" <=> passes' = 0
  BY DEF TypeOK, NextPass, NS16550_INT_COUNT

\* What an ioctl spends stays a record of numbers.
LEMMA SpendTypes ==
  ASSUME TypeOK, NEW kind \in {"chars", "rx", "modem", "calls"}, Spend(kind)
  PROVE  left' \in [chars : Nat, rx : Nat, modem : Nat, calls : Nat]
  BY DEF TypeOK, Spend

\* The state the device is initialized in has the right types.
LEMMA InitTypes == Init => TypeOK
<1> SUFFICES ASSUME Init PROVE TypeOK
  OBVIOUS
<1>1. 0 \in 0..FifoSize /\ 0 \in 0..NS16550_INT_COUNT
  BY ChanAssumption DEF NS16550_INT_COUNT
<1>2. uart \in Uarts
  BY <1>1, ChanAssumption DEF Init, Uarts, ierInit, IerBits
<1>3. ier \subseteq IerBits
  BY ChanAssumption DEF Init, IerBits
<1> QED
  BY <1>1, <1>2, <1>3, ChanAssumption DEF Init, TypeOK, Options

\* Every step of a client keeps the types.
LEMMA ClientTypes ==
  ASSUME TypeOK, NEW t \in Tasks, Client(t)
  PROVE  TypeOK'
<1> USE DEF Goto, Locked, Free, MayCall, Ioctl
<1>u. uart \in Uarts /\ uart.thr \in 0..FifoSize /\ left.calls \in Nat
  BY DEF TypeOK, Uarts
<1>1. CASE Write(t)
  <2>1. left' \in [chars : Nat, rx : Nat, modem : Nat, calls : Nat]
    BY <1>1, SpendTypes DEF Write
  <2> QED
    BY <1>1, <2>1 DEF Write, TypeOK, driver, isrVars, queues, worker
<1>2. CASE TxStartup(t)
  <2>1. /\ StartBits \in SUBSET IerBits
        /\ SetIer(uart, StartBits) \in Uarts
        /\ SetIer(GetMsr(uart), StartBits) \in Uarts
    BY <1>u, AccessTypes, BitsTypes
  <2>2. uart' \in Uarts /\ irq' \in BOOLEAN /\ ier' \subseteq IerBits
    <3>1. CASE mode = "INT"
      BY <1>2, <2>1, <3>1, DriveTypes DEF TxStartup
    <3>2. CASE mode # "INT"
      BY <1>2, <3>2 DEF TxStartup, TypeOK
    <3> QED
      BY <3>1, <3>2
  <2> QED
    BY <1>2, <2>2 DEF TxStartup, TypeOK, isrVars, queues, worker, chars
<1>3. ASSUME NEW m \in {"INT", "POLL"}, ModeSet(t, m)
      PROVE  TypeOK'
  <2>1. left' \in [chars : Nat, rx : Nat, modem : Nat, calls : Nat]
    BY <1>3, SpendTypes DEF ModeSet, TypeOK
  <2>2. /\ uart' \in Uarts /\ irq' \in BOOLEAN
        /\ ier' \subseteq IerBits
        /\ mode' \in {"undef", "POLL", "INT"}
    BY <1>3, SetModeTypes DEF ModeSet
  <2> QED
    BY <1>3, <2>1, <2>2 DEF ModeSet, TypeOK, isrVars, queues, worker, chars
<1>4. ASSUME NEW o \in Options, OptsSet(t, o)
      PROVE  TypeOK'
  <2> DEFINE off == SetIer(uart, ierInit)
             u == [ResetFifo(off, TRUE) EXCEPT !.rts = ~o.clocal]
  <2>1. off \in Uarts /\ ResetFifo(off, TRUE) \in Uarts
    BY <1>u, AccessTypes, BitsTypes, ResetFifoType
  <2>2. u \in Uarts
    BY <2>1 DEF Options, Uarts
  <2>3. OptsBits(o) \in SUBSET IerBits
    BY BitsTypes
  <2>4. (IF mode = "INT" THEN SetIer(u, OptsBits(o)) ELSE u) \in Uarts
    BY <2>2, <2>3, AccessTypes
  <2>5. uart' \in Uarts /\ irq' \in BOOLEAN
    BY <1>4, <2>4, DriveTypes DEF OptsSet
  <2>6. left' \in [chars : Nat, rx : Nat, modem : Nat, calls : Nat]
    BY <1>4, SpendTypes DEF OptsSet
  <2> HIDE DEF off, u
  <2> QED
    BY <1>4, <2>3, <2>5, <2>6
       DEF OptsSet, TypeOK, isrVars, queues, worker, chars
<1>5. CASE Hup(t)
  <2>1. left' \in [chars : Nat, rx : Nat, modem : Nat, calls : Nat]
    BY <1>5, SpendTypes DEF Hup
  <2>2. [uart EXCEPT !.rts = FALSE] \in Uarts
    BY <1>u DEF Uarts
  <2>3. ResetFifo([uart EXCEPT !.rts = FALSE], FALSE) \in Uarts
    BY <2>2, ResetFifoType
  <2>4. uart' \in Uarts /\ irq' \in BOOLEAN
    BY <1>5, <2>3, DriveTypes DEF Hup, Access, TypeOK
  <2> QED
    BY <1>5, <2>1, <2>4
       DEF Hup, TypeOK, driver, isrVars, queues, worker, chars
<1>6. CASE OpenCheck(t)
  <2>1. left' \in [chars : Nat, rx : Nat, modem : Nat, calls : Nat]
    BY <1>6, SpendTypes DEF OpenCheck
  <2> QED
    BY <1>6, <2>1 DEF OpenCheck, TypeOK, driver, isrVars, queues, worker, chars
<1>7. CASE OpenSet(t)
  <2>1. [uart EXCEPT !.rts = TRUE] \in Uarts
    BY <1>u DEF Uarts
  <2>2. ResetFifo([uart EXCEPT !.rts = TRUE], TRUE) \in Uarts
    BY <2>1, ResetFifoType
  <2>3. uart' \in Uarts /\ irq' \in BOOLEAN
    BY <1>7, <2>2, DriveTypes DEF OpenSet, Access
  <2> QED
    BY <1>7, <2>3 DEF OpenSet, TypeOK, driver, isrVars, queues, worker, chars
<1>8. ASSUME NEW r \in Rates, BaudOpen(t, r)
      PROVE  TypeOK'
  <2>1. left' \in [chars : Nat, rx : Nat, modem : Nat, calls : Nat]
    BY <1>8, SpendTypes DEF BaudOpen
  <2>2. [uart EXCEPT !.dlab = TRUE, !.div = r] \in Uarts
    BY <1>u DEF Uarts
  <2>3. uart' \in Uarts /\ irq' \in BOOLEAN
    BY <1>8, <2>2, DriveTypes DEF BaudOpen, Access
  <2> QED
    BY <1>8, <2>1, <2>3 DEF BaudOpen, TypeOK, isrVars, queues, worker, chars
<1>9. CASE BaudClose(t)
  <2>1. [uart EXCEPT !.dlab = FALSE] \in Uarts
    BY <1>u DEF Uarts
  <2>2. uart' \in Uarts /\ irq' \in BOOLEAN
    BY <1>9, <2>1, DriveTypes DEF BaudClose, Access
  <2> QED
    BY <1>9, <2>2 DEF BaudClose, TypeOK, driver, isrVars, queues, worker, chars
<1>10. CASE KprintfBegin(t)
  <2>1. /\ uart' \in Uarts /\ irq' \in BOOLEAN
        /\ ier' \subseteq IerBits
        /\ mode' \in {"undef", "POLL", "INT"}
    BY <1>10, SetModeTypes DEF KprintfBegin
  <2>2. left' \in [chars : Nat, rx : Nat, modem : Nat, calls : Nat]
    BY <1>10, SpendTypes DEF KprintfBegin
  <2> QED
    BY <1>10, <2>1, <2>2
       DEF KprintfBegin, TypeOK, isrVars, queues, worker, chars
<1>11. CASE PollOutput(t)
  <2>1. GetMsr(GetLsr(uart)) \in Uarts
    BY <1>u, AccessTypes DEF TypeOK
  <2>2. SetThr(GetMsr(GetLsr(uart))) \in Uarts
    BY <2>1, SetThrType
  <2>3. uart' \in Uarts /\ irq' \in BOOLEAN
    BY <1>11, <2>1, <2>2, DriveTypes DEF PollOutput, Access
  <2> QED
    BY <1>11, <2>3 DEF PollOutput, TypeOK, driver, isrVars, queues, worker
<1>12. CASE KprintfEnd(t)
  <2>1. /\ uart' \in Uarts /\ irq' \in BOOLEAN
        /\ ier' \subseteq IerBits
        /\ mode' \in {"undef", "POLL", "INT"}
    BY <1>12, SetModeTypes DEF KprintfEnd, TypeOK
  <2> QED
    BY <1>12, <2>1 DEF KprintfEnd, TypeOK, isrVars, queues, worker, chars
<1> QED
  BY <1>1, <1>2, <1>3, <1>4, <1>5, <1>6, <1>7, <1>8, <1>9, <1>10, <1>11,
     <1>12 DEF Client

\* Every step of the interrupt routine keeps the types.
LEMMA IsrTypes ==
  ASSUME TypeOK, Isr
  PROVE  TypeOK'
<1> DEFINE Others == UNCHANGED <<opts, baud, lock, worker, chars, clients>>
<1>u. uart \in Uarts /\ ier \in SUBSET IerBits /\ mode \in {"undef", "POLL", "INT"}
  BY DEF TypeOK
<1>0. \A x : /\ ier \ {x} \in SUBSET IerBits
             /\ ier \cup {"Tx"} \in SUBSET IerBits
  BY BitsTypes
<1>1. CASE IsrEnter
  <2>1. /\ isr' = "pass" /\ irq' = FALSE
        /\ passes' \in 0..NS16550_INT_COUNT /\ passes' # 0
    BY <1>1 DEF IsrEnter, NS16550_INT_COUNT
  <2> QED
    BY <1>1, <2>1 DEF IsrEnter, TypeOK, driver, queues, worker, chars, clients
<1>2. CASE IsrNone
  <2>1. /\ isr' \in {"idle", "pass"}
        /\ passes' \in 0..NS16550_INT_COUNT
        /\ isr' = "idle" <=> passes' = 0
    BY <1>2, NextPassTypes DEF IsrNone, InPass
  <2> QED
    BY <1>2, <2>1 DEF IsrNone, TypeOK, driver, queues, worker, chars, clients
<1>3. CASE IsrLineStatus
  <2>1. /\ isr' \in {"idle", "pass"}
        /\ passes' \in 0..NS16550_INT_COUNT
        /\ isr' = "idle" <=> passes' = 0
    BY <1>3, NextPassTypes DEF IsrLineStatus, InPass
  <2>2. GetLsr(uart) \in Uarts
    BY <1>u, AccessTypes
  <2>3. uart' \in Uarts /\ irq' \in BOOLEAN /\ ier' \subseteq IerBits
    BY <1>3, <1>u, <2>2, ServeTypes DEF IsrLineStatus
  <2> QED
    BY <1>3, <2>1, <2>3
       DEF IsrLineStatus, TypeOK, queues, worker, chars, clients
<1>4. CASE IsrReceive
  <2>1. uart' \in Uarts /\ irq' \in BOOLEAN /\ ier' \subseteq IerBits
    BY <1>4, <1>u, <1>0, ServeTypes DEF IsrReceive
  <2> QED
    BY <1>4, <2>1
       DEF IsrReceive, InPass, TypeOK, queues, worker, chars, clients
<1>5. CASE IsrTransmit
  <2>1. uart' \in Uarts /\ irq' \in BOOLEAN /\ ier' \subseteq IerBits
    BY <1>5, <1>u, <1>0, ServeTypes DEF IsrTransmit
  <2>2. /\ isr' \in {"idle", "pass", "addWr"}
        /\ passes' \in 0..NS16550_INT_COUNT
        /\ isr' = "idle" <=> passes' = 0
    <3>1. CASE MustDefer
      BY <1>5, <3>1 DEF IsrTransmit, InPass, TypeOK
    <3>2. CASE ~MustDefer
      BY <1>5, <3>2, NextPassTypes DEF IsrTransmit, InPass
    <3> QED
      BY <3>1, <3>2
  <2> QED
    BY <1>5, <2>1, <2>2
       DEF IsrTransmit, TypeOK, queues, worker, chars, clients
<1>6. CASE IsrModem
  <2>1. /\ isr' \in {"idle", "pass"}
        /\ passes' \in 0..NS16550_INT_COUNT
        /\ isr' = "idle" <=> passes' = 0
    BY <1>6, NextPassTypes DEF IsrModem, InPass
  <2>2. GetMsr(uart) \in Uarts
    BY <1>u, AccessTypes
  <2>3. BitsAfterMsr \in SUBSET IerBits
    BY <1>0 DEF BitsAfterMsr
  <2>4. uart' \in Uarts /\ irq' \in BOOLEAN /\ ier' \subseteq IerBits
    BY <1>6, <2>2, <2>3, ServeTypes DEF IsrModem
  <2> QED
    BY <1>6, <2>1, <2>4 DEF IsrModem, TypeOK, queues, worker, chars, clients
<1>7. CASE IsrAddRd
  <2>1. /\ isr' \in {"idle", "pass"}
        /\ passes' \in 0..NS16550_INT_COUNT
        /\ isr' = "idle" <=> passes' = 0
    BY <1>7, NextPassTypes DEF IsrAddRd
  <2> QED
    BY <1>7, <2>1 DEF IsrAddRd, TypeOK, driver, worker, chars, clients
<1>8. CASE IsrAddWr
  <2>1. /\ isr' \in {"idle", "pass"}
        /\ passes' \in 0..NS16550_INT_COUNT
        /\ isr' = "idle" <=> passes' = 0
    BY <1>8, NextPassTypes DEF IsrAddWr
  <2> QED
    BY <1>8, <2>1 DEF IsrAddWr, TypeOK, driver, worker, chars, clients
<1> QED
  BY <1>1, <1>2, <1>3, <1>4, <1>5, <1>6, <1>7, <1>8 DEF Isr

\* Every step of the worker keeps the types.
LEMMA WorkerTypes ==
  ASSUME TypeOK, Worker
  PROVE  TypeOK'
<1>u. uart \in Uarts /\ GetLsr(uart) \in Uarts
  BY AccessTypes, BitsTypes DEF TypeOK
<1>1. CASE JobTake
  BY <1>1 DEF JobTake, TypeOK, driver, isrVars, chars, clients
<1>2. CASE IntRd2
  <2>1. uart' \in Uarts /\ irq' \in BOOLEAN /\ ier' \subseteq IerBits
    <3>1. CASE uart.rbr > 0
      <4>1. GetLsr(uart).rbr = uart.rbr /\ uart.rbr - 1 \in Nat
        BY <1>u, <3>1 DEF GetLsr, Uarts
      <4>2. [GetLsr(uart) EXCEPT !.rbr = @ - 1] \in Uarts
        BY <1>u, <4>1 DEF Uarts
      <4> QED
        BY <1>2, <3>1, <4>2, DriveTypes DEF IntRd2, Access, TypeOK
    <3>2. CASE ~(uart.rbr > 0)
      <4>1. SetIer(GetLsr(uart), RearmRx) \in Uarts
        BY <1>u, BitsTypes, AccessTypes
      <4> QED
        BY <1>2, <3>2, <4>1, BitsTypes, DriveTypes DEF IntRd2
    <3> QED
      BY <3>1, <3>2
  <2> QED
    BY <1>2, <2>1 DEF IntRd2, TypeOK, isrVars, queues, chars, clients
<1>3. CASE IntWr2Test
  <2>1. SetIer(GetLsr(uart), RearmTx) \in Uarts
    BY <1>u, BitsTypes, AccessTypes
  <2>2. uart' \in Uarts /\ irq' \in BOOLEAN /\ ier' \subseteq IerBits
    <3>1. CASE THRE(uart)
      BY <1>3, <1>u, <3>1, DriveTypes DEF IntWr2Test, Access, TypeOK
    <3>2. CASE ~THRE(uart)
      BY <1>3, <3>2, <2>1, BitsTypes, DriveTypes DEF IntWr2Test
    <3> QED
      BY <3>1, <3>2
  <2>3. room' \in 0..FifoSize /\ (job' \in {"wrGet", "wrPut"} => room' > 0)
    BY <1>3, ChanAssumption DEF IntWr2Test, TypeOK, BurstLength
  <2> QED
    BY <1>3, <2>2, <2>3 DEF IntWr2Test, TypeOK, isrVars, queues, chars, clients
<1>4. CASE IntWr2Get
  BY <1>4 DEF IntWr2Get, TypeOK, driver, isrVars, queues, clients
<1>5. CASE IntWr2Put
  <2>1. uart' \in Uarts /\ irq' \in BOOLEAN
    BY <1>5, <1>u, SetThrType, DriveTypes DEF IntWr2Put, Access
  <2>2. /\ room' \in 0..FifoSize
        /\ job' \in {"wrLoop", "wrGet"}
        /\ job' \in {"wrGet", "wrPut"} => room' > 0
    BY <1>5, ChanAssumption DEF IntWr2Put, TypeOK
  <2>3. lost' \in Nat
    BY <1>5 DEF IntWr2Put, TypeOK
  <2> QED
    BY <1>5, <2>1, <2>2, <2>3
       DEF IntWr2Put, TypeOK, driver, isrVars, queues, clients
<1> QED
  BY <1>1, <1>2, <1>3, <1>4, <1>5 DEF Worker

\* Every step of the line keeps the types.
LEMMA LineTypes ==
  ASSUME TypeOK, TxShift \/ RxArrive \/ ModemChange
  PROVE  TypeOK'
<1>u. uart \in Uarts /\ uart.thr \in 0..FifoSize /\ uart.rbr \in Nat
  BY DEF TypeOK, Uarts
<1>1. CASE TxShift
  <2>1. uart.thr - 1 \in 0..FifoSize
    BY <1>1, <1>u, ChanAssumption DEF TxShift
  <2>2. (uart.thri \/ ("Tx" \in uart.ier /\ uart.thr = 1)) \in BOOLEAN
    OBVIOUS
  <2>3. [uart EXCEPT !.thr = @ - 1,
                     !.thri = @ \/ ("Tx" \in uart.ier /\ uart.thr = 1)]
          \in Uarts
    BY <1>u, <2>1, <2>2 DEF Uarts
  <2>4. uart' \in Uarts /\ irq' \in BOOLEAN
    BY <1>1, <2>3, DriveTypes DEF TxShift, Access
  <2> QED
    BY <1>1, <2>4 DEF TxShift, TypeOK, driver, isrVars, queues, worker, clients
<1>2. CASE RxArrive
  <2>0. uart.rbr + 1 \in Nat
    BY <1>u
  <2>1. /\ [uart EXCEPT !.rbr = @ + 1] \in Uarts
        /\ [uart EXCEPT !.lerr = TRUE] \in Uarts
    BY <1>u, <2>0 DEF Uarts
  <2>2. uart' \in Uarts /\ irq' \in BOOLEAN
    BY <1>2, <2>1, DriveTypes DEF RxArrive, Access
  <2>3. left' \in [chars : Nat, rx : Nat, modem : Nat, calls : Nat]
    BY <1>2, SpendTypes DEF RxArrive
  <2> QED
    BY <1>2, <2>2, <2>3
       DEF RxArrive, TypeOK, driver, isrVars, queues, worker, chars
<1>3. CASE ModemChange
  <2>1. /\ [uart EXCEPT !.cts = ~@, !.dcts = TRUE] \in Uarts
        /\ [uart EXCEPT !.dmsr = TRUE] \in Uarts
    BY <1>u DEF Uarts
  <2>2. uart' \in Uarts /\ irq' \in BOOLEAN
    BY <1>3, <2>1, DriveTypes DEF ModemChange, Access
  <2>3. left' \in [chars : Nat, rx : Nat, modem : Nat, calls : Nat]
    BY <1>3, SpendTypes DEF ModemChange
  <2> QED
    BY <1>3, <2>2, <2>3
       DEF ModemChange, TypeOK, driver, isrVars, queues, worker, chars
<1> QED
  BY <1>1, <1>2, <1>3

\* A stuttering step keeps everything.
LEMMA StutterTypes == TypeOK /\ UNCHANGED vars => TypeOK'
  BY DEF vars, TypeOK, driver, isrVars, queues, worker, chars, clients

\* The variables stay in their ranges in every behaviour of the channel.
THEOREM TypeCorrect == Spec => []TypeOK
<1>1. Init => TypeOK
  BY InitTypes
<1>2. TypeOK /\ [Next]_vars => TypeOK'
  BY ClientTypes, IsrTypes, WorkerTypes, LineTypes, StutterTypes DEF Next
<1> QED
  BY <1>1, <1>2, PTL DEF Spec

-----------------------------------------------------------------------------
(* The spinlock.                                                           *)

\* A step of a client gives the lock only if it had it and takes it only if
\* it was free.
LEMMA ClientLock ==
  ASSUME TypeOK, LockExclusive, NEW t \in Tasks, Client(t)
  PROVE  LockExclusive'
<1> USE ChanAssumption DEF Goto, Locked, Free, MayCall, Ioctl
<1>0. call \in [Tasks -> {"idle", "start", "open", "baud", "poll", "polled"}]
  BY DEF TypeOK
<1>1. CASE Write(t)
  BY <1>0, <1>1 DEF Write, LockExclusive
<1>2. CASE TxStartup(t)
  BY <1>0, <1>2 DEF TxStartup, LockExclusive
<1>3. ASSUME NEW m \in {"INT", "POLL"}, ModeSet(t, m)
      PROVE  LockExclusive'
  BY <1>3 DEF ModeSet, LockExclusive
<1>4. ASSUME NEW o \in Options, OptsSet(t, o)
      PROVE  LockExclusive'
  BY <1>0, <1>4 DEF OptsSet, LockExclusive
<1>5. CASE Hup(t)
  BY <1>5 DEF Hup, LockExclusive
<1>6. CASE OpenCheck(t)
  BY <1>0, <1>6 DEF OpenCheck, LockExclusive
<1>7. CASE OpenSet(t)
  BY <1>0, <1>7 DEF OpenSet, LockExclusive
<1>8. ASSUME NEW r \in Rates, BaudOpen(t, r)
      PROVE  LockExclusive'
  BY <1>0, <1>8 DEF BaudOpen, LockExclusive
<1>9. CASE BaudClose(t)
  BY <1>0, <1>9 DEF BaudClose, LockExclusive
<1>10. CASE KprintfBegin(t)
  BY <1>0, <1>10 DEF KprintfBegin, LockExclusive
<1>11. CASE PollOutput(t)
  BY <1>0, <1>11 DEF PollOutput, LockExclusive
<1>12. CASE KprintfEnd(t)
  BY <1>0, <1>12 DEF KprintfEnd, LockExclusive
<1> QED
  BY <1>1, <1>2, <1>3, <1>4, <1>5, <1>6, <1>7, <1>8, <1>9, <1>10, <1>11,
     <1>12 DEF Client

\* The interrupt routine, the worker and the line hold the lock within a step.
LEMMA OthersLock ==
  ASSUME LockExclusive,
         Isr \/ Worker \/ TxShift \/ RxArrive \/ ModemChange \/ UNCHANGED vars
  PROVE  LockExclusive'
<1>1. UNCHANGED <<lock, call>>
  <2>1. CASE Isr
    BY <2>1 DEF Isr, IsrEnter, IsrNone, IsrLineStatus, IsrReceive,
                IsrTransmit, IsrModem, IsrAddRd, IsrAddWr, clients
  <2>2. CASE Worker
    BY <2>2 DEF Worker, JobTake, IntRd2, IntWr2Test, IntWr2Get, IntWr2Put,
                clients
  <2>3. CASE TxShift \/ RxArrive \/ ModemChange \/ UNCHANGED vars
    BY <2>3 DEF TxShift, RxArrive, ModemChange, vars, clients
  <2> QED
    BY <2>1, <2>2, <2>3
<1> QED
  BY <1>1 DEF LockExclusive

\* No two tasks are ever together in the DLAB window of ns16550vxbBaudSet or
\* between SIO_DEV_LOCK and SIO_DEV_UNLOCK (lines 2326-2475, 2643-2650).
THEOREM Mutex == Spec => []LockExclusive
<1>1. Init => LockExclusive
  BY ChanAssumption DEF Init, LockExclusive
<1>2. TypeOK /\ LockExclusive /\ [Next]_vars => LockExclusive'
  BY ClientLock, OthersLock DEF Next
<1> QED
  BY <1>1, <1>2, TypeCorrect, PTL DEF Spec

-----------------------------------------------------------------------------
(* The transmit job.                                                       *)

\* What TxStartup and the other calls of clients do leaves the job alone.
LEMMA ClientTxJob ==
  ASSUME NEW t \in Tasks, Client(t)
  PROVE  UNCHANGED <<isr, wrJobs, job, txDefer>>
<1>1. ASSUME NEW m \in {"INT", "POLL"}, ModeSet(t, m)
      PROVE  UNCHANGED <<isr, wrJobs, job, txDefer>>
  BY <1>1 DEF ModeSet, isrVars, queues, worker
<1>2. ASSUME NEW o \in Options, OptsSet(t, o)
      PROVE  UNCHANGED <<isr, wrJobs, job, txDefer>>
  BY <1>2 DEF OptsSet, isrVars, queues, worker
<1>3. ASSUME NEW r \in Rates, BaudOpen(t, r)
      PROVE  UNCHANGED <<isr, wrJobs, job, txDefer>>
  BY <1>3 DEF BaudOpen, isrVars, queues, worker
<1>4. CASE Write(t) \/ TxStartup(t) \/ Hup(t) \/ OpenCheck(t) \/ OpenSet(t)
  BY <1>4 DEF Write, TxStartup, Hup, OpenCheck, OpenSet, driver, isrVars,
              queues, worker
<1>5. CASE BaudClose(t) \/ KprintfBegin(t) \/ PollOutput(t) \/ KprintfEnd(t)
  BY <1>5 DEF BaudClose, KprintfBegin, PollOutput, KprintfEnd, driver,
              isrVars, queues, worker
<1> QED
  BY <1>1, <1>2, <1>3, <1>4, <1>5 DEF Client

\* A pass that ends does not end on the way to isrDeferJobAdd.
LEMMA NextPassLeaves ==
  ASSUME NextPass
  PROVE  isr' # "addWr"
  BY DEF NextPass

\* The interrupt routine sets txDefer exactly when it decides on a job.
LEMMA IsrTxJob ==
  ASSUME TypeOK, OneTxJob, Isr
  PROVE  OneTxJob'
<1>0. wrJobs \in Nat /\ txDefer \in BOOLEAN
  BY DEF TypeOK
<1>1. CASE IsrEnter
  BY <1>1 DEF IsrEnter, OneTxJob, driver, queues, worker
<1>2. CASE IsrNone
  BY <1>2, NextPassLeaves DEF IsrNone, InPass, OneTxJob, driver, queues, worker
<1>3. CASE IsrLineStatus
  BY <1>3, NextPassLeaves DEF IsrLineStatus, InPass, OneTxJob, queues, worker
<1>4. CASE IsrReceive
  BY <1>4 DEF IsrReceive, InPass, OneTxJob, queues, worker
<1>5. CASE IsrTransmit
  <2>1. CASE txDefer
    <3>1. isr' # "addWr" /\ txDefer' = TRUE /\ UNCHANGED <<wrJobs, job>>
      BY <1>5, <2>1, NextPassLeaves
         DEF IsrTransmit, MustDefer, queues, worker
    <3> QED
      BY <1>0, <1>5, <2>1, <3>1 DEF IsrTransmit, InPass, OneTxJob
  <2>2. CASE ~txDefer
    <3>1. isr' = "addWr" /\ txDefer' = TRUE /\ UNCHANGED <<wrJobs, job>>
      BY <1>5, <2>2 DEF IsrTransmit, MustDefer, queues, worker
    <3> QED
      BY <1>0, <2>2, <3>1 DEF OneTxJob
  <2> QED
    BY <2>1, <2>2
<1>6. CASE IsrModem
  BY <1>6, NextPassLeaves DEF IsrModem, InPass, OneTxJob, queues, worker
<1>7. CASE IsrAddRd
  BY <1>7, NextPassLeaves DEF IsrAddRd, OneTxJob, driver, worker
<1>8. CASE IsrAddWr
  BY <1>0, <1>8, NextPassLeaves DEF IsrAddWr, OneTxJob, driver, worker
<1> QED
  BY <1>1, <1>2, <1>3, <1>4, <1>5, <1>6, <1>7, <1>8 DEF Isr

\* The worker clears txDefer exactly when it starts the job.
LEMMA WorkerTxJob ==
  ASSUME TypeOK, OneTxJob, Worker
  PROVE  OneTxJob'
<1>0. wrJobs \in Nat /\ txDefer \in BOOLEAN
  BY DEF TypeOK
<1>1. CASE JobTake
  BY <1>0, <1>1 DEF JobTake, OneTxJob, driver, isrVars
<1>2. CASE IntRd2
  BY <1>2 DEF IntRd2, OneTxJob, isrVars, queues
<1>3. CASE IntWr2Test
  <2>1. job' # "wr" /\ UNCHANGED <<isr, wrJobs>>
    BY <1>3 DEF IntWr2Test, isrVars, queues
  <2>2. CASE job = "wr"
    <3>1. txDefer' = FALSE
      BY <1>3, <2>2 DEF IntWr2Test
    <3> QED
      BY <1>0, <2>1, <2>2, <3>1 DEF OneTxJob
  <2>3. CASE job = "wrLoop"
    <3>1. txDefer' = txDefer
      BY <1>3, <2>3 DEF IntWr2Test
    <3> QED
      BY <2>1, <2>3, <3>1 DEF OneTxJob
  <2> QED
    BY <1>3, <2>2, <2>3 DEF IntWr2Test
<1>4. CASE IntWr2Get
  BY <1>4 DEF IntWr2Get, OneTxJob, driver, isrVars, queues
<1>5. CASE IntWr2Put
  BY <1>5 DEF IntWr2Put, OneTxJob, driver, isrVars, queues
<1> QED
  BY <1>1, <1>2, <1>3, <1>4, <1>5 DEF Worker

\* "The maximum required job queue number for transmit is one" (lines
\* 2689-2696): txDefer is TRUE exactly while one transmit job exists.
THEOREM TxJobUnique == Spec => []OneTxJob
<1>1. Init => OneTxJob
  BY DEF Init, OneTxJob
<1>2. TypeOK /\ OneTxJob /\ [Next]_vars => OneTxJob'
  <2> SUFFICES ASSUME TypeOK, OneTxJob, [Next]_vars PROVE OneTxJob'
    OBVIOUS
  <2>1. ASSUME NEW t \in Tasks, Client(t) PROVE OneTxJob'
    BY <2>1, ClientTxJob DEF OneTxJob
  <2>2. CASE TxShift \/ RxArrive \/ ModemChange \/ UNCHANGED vars
    BY <2>2 DEF TxShift, RxArrive, ModemChange, vars, driver, isrVars, queues,
                worker, OneTxJob
  <2> QED
    BY <2>1, <2>2, IsrTxJob, WorkerTxJob DEF Next
<1> QED
  BY <1>1, <1>2, TypeCorrect, PTL DEF Spec

-----------------------------------------------------------------------------
(* The interrupt line and the enable register.                             *)

\* An access in which the line rises leaves an edge latched.
KeepsEdge ==
  /\ Line(uart') => irq' \/ Line(uart)
  /\ irq => irq'

LEMMA DriveEdge ==
  ASSUME NEW via, NEW end, Drive(via, end)
  PROVE  KeepsEdge
  BY DEF Drive, KeepsEdge

\* A step that does not touch the chip keeps the edge too.
LEMMA NoDriveEdge == UNCHANGED <<uart, irq>> => KeepsEdge
  BY DEF KeepsEdge

\* Serving a cause turns the line off first, so that whatever is still
\* asserted after it makes a new edge.
LEMMA ServeEdge ==
  ASSUME NEW u, NEW b, Serve(u, b), uart \in Uarts
  PROVE  Line(uart') => irq'
<1>1. SetIer(uart, ierInit).ier = {}
  BY DEF SetIer, ierInit, Uarts
<1>2. ~Line(SetIer(uart, ierInit))
  BY <1>1 DEF Line, Sources
<1> QED
  BY <1>2 DEF Serve, Drive

\* Every access of a client either keeps the line as it was or latches.
LEMMA ClientEdge ==
  ASSUME NEW t \in Tasks, Client(t)
  PROVE  /\ UNCHANGED isrVars
         /\ KeepsEdge
<1> USE DriveEdge, NoDriveEdge DEF Access
<1>1. ASSUME NEW m \in {"INT", "POLL"}, SetMode(m)
      PROVE  KeepsEdge
  BY <1>1 DEF SetMode
<1>2. ASSUME NEW m \in {"undef", "INT", "POLL"}, SetMode(m)
      PROVE  KeepsEdge
  BY <1>2 DEF SetMode
<1>3. ASSUME NEW m \in {"INT", "POLL"}, ModeSet(t, m)
      PROVE  /\ UNCHANGED isrVars
             /\ KeepsEdge
  BY <1>1, <1>3 DEF ModeSet
<1>4. ASSUME NEW o \in Options, OptsSet(t, o)
      PROVE  /\ UNCHANGED isrVars
             /\ KeepsEdge
  BY <1>4 DEF OptsSet
<1>5. ASSUME NEW r \in Rates, BaudOpen(t, r)
      PROVE  /\ UNCHANGED isrVars
             /\ KeepsEdge
  BY <1>5 DEF BaudOpen
<1>6. CASE Write(t) \/ OpenCheck(t)
  BY <1>6 DEF Write, OpenCheck
<1>7. CASE TxStartup(t)
  BY <1>7 DEF TxStartup
<1>8. CASE Hup(t)
  BY <1>8 DEF Hup
<1>9. CASE OpenSet(t) \/ BaudClose(t)
  BY <1>9 DEF OpenSet, BaudClose
<1>10. CASE KprintfBegin(t)
  BY <1>1, <1>10 DEF KprintfBegin
<1>11. CASE PollOutput(t)
  BY <1>11 DEF PollOutput
<1>12. CASE KprintfEnd(t)
  BY <1>12 DEF KprintfEnd, SetMode
<1> QED
  BY <1>3, <1>4, <1>5, <1>6, <1>7, <1>8, <1>9, <1>10, <1>11, <1>12 DEF Client

\* So does every access of the worker and of the line.
LEMMA OthersEdge ==
  ASSUME Worker \/ TxShift \/ RxArrive \/ ModemChange \/ UNCHANGED vars
  PROVE  /\ UNCHANGED isrVars
         /\ KeepsEdge
<1> USE DriveEdge, NoDriveEdge DEF Access
<1>1. CASE JobTake \/ IntWr2Get
  BY <1>1 DEF JobTake, IntWr2Get
<1>2. CASE IntRd2
  BY <1>2 DEF IntRd2
<1>3. CASE IntWr2Test
  BY <1>3 DEF IntWr2Test
<1>4. CASE IntWr2Put
  BY <1>4 DEF IntWr2Put
<1>5. CASE TxShift
  BY <1>5 DEF TxShift
<1>6. CASE RxArrive
  BY <1>6 DEF RxArrive
<1>7. CASE ModemChange
  BY <1>7 DEF ModemChange
<1>8. CASE UNCHANGED vars
  BY <1>8 DEF vars
<1> QED
  BY <1>1, <1>2, <1>3, <1>4, <1>5, <1>6, <1>7, <1>8 DEF Worker

\* The routine makes up for the edge it was entered for: its first pass serves
\* what asserts the line or finds nothing.
LEMMA IsrEdge ==
  ASSUME TypeOK, EdgeNotLost, Isr
  PROVE  EdgeNotLost'
<1>0. uart \in Uarts
  BY DEF TypeOK
<1>1. CASE IsrEnter
  BY <1>1 DEF IsrEnter, EdgeNotLost
<1>2. CASE IsrNone
  BY <1>2 DEF IsrNone, EdgeNotLost, Line
<1>3. CASE IsrLineStatus
  BY <1>0, <1>3, ServeEdge DEF IsrLineStatus, EdgeNotLost
<1>4. CASE IsrReceive
  BY <1>0, <1>4, ServeEdge DEF IsrReceive, EdgeNotLost
<1>5. CASE IsrTransmit
  BY <1>0, <1>5, ServeEdge DEF IsrTransmit, EdgeNotLost
<1>6. CASE IsrModem
  BY <1>0, <1>6, ServeEdge DEF IsrModem, EdgeNotLost
<1>7. CASE IsrAddRd
  BY <1>7 DEF IsrAddRd, EdgeNotLost
<1>8. CASE IsrAddWr
  BY <1>8 DEF IsrAddWr, EdgeNotLost
<1> QED
  BY <1>1, <1>2, <1>3, <1>4, <1>5, <1>6, <1>7, <1>8 DEF Isr

\* "We must clear both interrupt pending to keep the edge-triggered interrupt
\* from locking up" (lines 2847-2857): while the chip asserts its line, an edge
\* is latched or the routine has yet to make its first pass.
THEOREM NoLockUp == Spec => []EdgeNotLost
<1>1. Init => EdgeNotLost
  BY DEF Init, EdgeNotLost, Line, Sources, ierInit
<1>2. TypeOK /\ EdgeNotLost /\ [Next]_vars => EdgeNotLost'
  <2> SUFFICES ASSUME TypeOK, EdgeNotLost, [Next]_vars PROVE EdgeNotLost'
    OBVIOUS
  <2>1. ASSUME NEW t \in Tasks, Client(t) PROVE EdgeNotLost'
    BY <2>1, ClientEdge DEF EdgeNotLost, KeepsEdge, isrVars
  <2>2. CASE Worker \/ TxShift \/ RxArrive \/ ModemChange \/ UNCHANGED vars
    BY <2>2, OthersEdge DEF EdgeNotLost, KeepsEdge, isrVars
  <2> QED
    BY <2>1, <2>2, IsrEdge DEF Next
<1> QED
  BY <1>1, <1>2, TypeCorrect, PTL DEF Spec

-----------------------------------------------------------------------------
(* The enable register and the divisor latch.                              *)

\* What each access leaves in the registers the other proofs depend on.
LEMMA SetIerFields ==
  ASSUME NEW u \in Uarts, NEW b \in SUBSET IerBits
  PROVE  /\ SetIer(u, b).ier = b
         /\ SetIer(u, b).dlab = u.dlab /\ SetIer(u, b).div = u.div
         /\ SetIer(u, b).thr = u.thr /\ SetIer(u, b).fifo = u.fifo
  BY DEF SetIer, Uarts

LEMMA GetFields ==
  ASSUME NEW u \in Uarts
  PROVE  /\ GetLsr(u).ier = u.ier /\ GetMsr(u).ier = u.ier
         /\ GetLsr(u).dlab = u.dlab /\ GetMsr(u).dlab = u.dlab
         /\ GetLsr(u).div = u.div /\ GetMsr(u).div = u.div
         /\ GetLsr(u).thr = u.thr /\ GetMsr(u).thr = u.thr
         /\ GetLsr(u).fifo = u.fifo /\ GetMsr(u).fifo = u.fifo
  BY DEF GetLsr, GetMsr, Uarts

LEMMA ResetFifoFields ==
  ASSUME NEW u \in Uarts, NEW e \in BOOLEAN
  PROVE  /\ ResetFifo(u, e).ier = u.ier
         /\ ResetFifo(u, e).dlab = u.dlab /\ ResetFifo(u, e).div = u.div
         /\ ResetFifo(u, e).thr = 0 /\ ResetFifo(u, e).fifo = e
  BY DEF ResetFifo, Uarts

LEMMA SetThrFields ==
  ASSUME NEW u \in Uarts
  PROVE  /\ SetThr(u).ier = u.ier
         /\ SetThr(u).dlab = u.dlab /\ SetThr(u).fifo = u.fifo
         /\ ~u.dlab => SetThr(u).div = u.div
         /\ ~Overrun(u) => SetThr(u).thr = u.thr + 1
<1>1. u.thr \in 0..FifoSize /\ Depth(u) \in 1..FifoSize
  BY ChanAssumption DEF Depth, Uarts
<1>2. ~Overrun(u) => ~u.dlab /\ u.thr < Depth(u)
  BY <1>1, ChanAssumption DEF Overrun
<1>3. ~Overrun(u) => SetThr(u).thr = u.thr + 1
  BY <1>2 DEF SetThr, Uarts
<1>4. /\ SetThr(u).ier = u.ier
      /\ SetThr(u).dlab = u.dlab /\ SetThr(u).fifo = u.fifo
      /\ ~u.dlab => SetThr(u).div = u.div
  BY DEF SetThr, Uarts
<1> QED
  BY <1>3, <1>4

\* The divisor latch holds the rate at every moment, and DLAB is set only in
\* the window of a task that holds the lock: LockExclusive is what makes sure
\* that the character of a kprintf or of the worker does not go there.
DivisorInv ==
  /\ uart.div = baud
  /\ uart.dlab => lock \in Tasks /\ call[lock] = "baud"

\* Switching the mode leaves the chip's bits covering the driver's, and the
\* divisor alone.
LEMMA SetModeChip ==
  ASSUME TypeOK, NEW m \in {"undef", "POLL", "INT"}, SetMode(m)
  PROVE  /\ m = "INT" => ier' \subseteq uart'.ier
         /\ uart'.div = uart.div /\ uart'.dlab = uart.dlab
         /\ uart'.thr = uart.thr /\ uart'.fifo = uart.fifo
<1> DEFINE new == IF uart.cts THEN ier \cup {"Tx"} ELSE ier \ {"Tx"}
<1>1. uart \in Uarts /\ GetMsr(uart) \in Uarts
  BY AccessTypes, BitsTypes DEF TypeOK
<1>2. /\ new \in SUBSET IerBits
      /\ ierInit \in SUBSET IerBits
      /\ ier \cup {"Rx", "Tx"} \in SUBSET IerBits
  BY BitsTypes
<1>3. CASE m = "INT" /\ opts.clocal
  <2>1. uart' = SetIer(uart, ier \cup {"Rx", "Tx"}) /\ UNCHANGED ier
    BY <1>3 DEF SetMode, Access, Drive
  <2> QED
    BY <1>1, <1>2, <2>1, SetIerFields, GetFields
<1>4. CASE m = "INT" /\ ~opts.clocal
  <2>1. uart' = SetIer(GetMsr(uart), new) /\ ier' = new
    BY <1>4 DEF SetMode, Drive
  <2> HIDE DEF new
  <2> QED
    BY <1>1, <1>2, <2>1, SetIerFields, GetFields
<1>5. CASE m = "POLL"
  <2>1. uart' = SetIer(uart, ierInit)
    BY <1>5 DEF SetMode, Access, Drive
  <2> QED
    BY <1>1, <1>2, <1>5, <2>1, SetIerFields
<1> QED
  BY <1>3, <1>4, <1>5 DEF SetMode

\* Every step of a client keeps the chip's enable register covering the
\* driver's and the divisor holding the rate.
LEMMA ClientChip ==
  ASSUME TypeOK, LockExclusive, IerShadow, DivisorInv,
         NEW t \in Tasks, Client(t)
  PROVE  IerShadow' /\ DivisorInv'
<1> USE ChanAssumption DEF Goto, Locked, Free, MayCall, Ioctl, Access, Drive
<1>0. /\ call \in [Tasks -> {"idle", "start", "open", "baud", "poll", "polled"}]
      /\ uart \in Uarts /\ GetLsr(uart) \in Uarts /\ GetMsr(uart) \in Uarts
      /\ mode \in {"undef", "POLL", "INT"} /\ oldMode \in {"undef", "POLL", "INT"}
  BY AccessTypes, BitsTypes DEF TypeOK
<1>1. CASE Write(t) \/ OpenCheck(t)
  BY <1>0, <1>1 DEF Write, OpenCheck, IerShadow, DivisorInv, driver
<1>2. CASE TxStartup(t)
  <2>1. StartBits \in SUBSET IerBits
    BY BitsTypes
  <2>3. CASE mode = "INT"
    <3>1. \/ uart' = SetIer(uart, StartBits)
          \/ uart' = SetIer(GetMsr(uart), StartBits)
      BY <1>2, <2>3 DEF TxStartup
    <3>2. uart'.ier = StartBits /\ uart'.dlab = uart.dlab /\ uart'.div = uart.div
      BY <1>0, <2>1, <3>1, SetIerFields, GetFields
    <3> QED
      BY <1>0, <1>2, <2>3, <3>2 DEF TxStartup, IerShadow, DivisorInv
  <2>4. CASE mode # "INT"
    BY <1>0, <1>2, <2>4 DEF TxStartup, IerShadow, DivisorInv
  <2> QED
    BY <2>3, <2>4
<1>3. ASSUME NEW m \in {"INT", "POLL"}, ModeSet(t, m)
      PROVE  IerShadow' /\ DivisorInv'
  <2>1. /\ m = "INT" => ier' \subseteq uart'.ier
        /\ uart'.div = uart.div /\ uart'.dlab = uart.dlab
    BY <1>3, SetModeChip DEF ModeSet
  <2> QED
    BY <1>3, <2>1 DEF ModeSet, SetMode, IerShadow, DivisorInv
<1>4. ASSUME NEW o \in Options, OptsSet(t, o)
      PROVE  IerShadow' /\ DivisorInv'
  <2> DEFINE off == SetIer(uart, ierInit)
             r == ResetFifo(off, TRUE)
             u == [r EXCEPT !.rts = ~o.clocal]
  <2>1. ierInit \in SUBSET IerBits /\ OptsBits(o) \in SUBSET IerBits
    BY BitsTypes
  <2>2. off \in Uarts /\ off.dlab = uart.dlab /\ off.div = uart.div
    BY <1>0, <2>1, AccessTypes, SetIerFields
  <2>3. r \in Uarts /\ r.dlab = off.dlab /\ r.div = off.div
    BY <2>2, ResetFifoType, ResetFifoFields
  <2>4. u \in Uarts /\ u.dlab = r.dlab /\ u.div = r.div
    BY <2>3 DEF Uarts, Options
  <2>5. uart' = IF mode = "INT" THEN SetIer(u, OptsBits(o)) ELSE u
    BY <1>4 DEF OptsSet
  <2> HIDE DEF off, r, u
  <2>6. /\ mode = "INT" => uart'.ier = OptsBits(o)
        /\ uart'.dlab = uart.dlab /\ uart'.div = uart.div
    BY <2>1, <2>2, <2>3, <2>4, <2>5, SetIerFields
  <2> QED
    BY <1>0, <1>4, <2>6 DEF OptsSet, IerShadow, DivisorInv
<1>5. CASE Hup(t)
  <2>1. LET u == [uart EXCEPT !.rts = FALSE]
        IN  u \in Uarts /\ u.ier = uart.ier /\ u.dlab = uart.dlab
              /\ u.div = uart.div
    BY <1>0 DEF Uarts
  <2>2. uart'.ier = uart.ier /\ uart'.dlab = uart.dlab /\ uart'.div = uart.div
    BY <1>5, <2>1, ResetFifoFields DEF Hup
  <2> QED
    BY <1>5, <2>2 DEF Hup, IerShadow, DivisorInv, driver
<1>6. CASE OpenSet(t)
  <2>1. LET u == [uart EXCEPT !.rts = TRUE]
        IN  u \in Uarts /\ u.ier = uart.ier /\ u.dlab = uart.dlab
              /\ u.div = uart.div
    BY <1>0 DEF Uarts
  <2>2. uart'.ier = uart.ier /\ uart'.dlab = uart.dlab /\ uart'.div = uart.div
    BY <1>6, <2>1, ResetFifoFields DEF OpenSet
  <2> QED
    BY <1>0, <1>6, <2>2 DEF OpenSet, IerShadow, DivisorInv, driver
<1>7. ASSUME NEW r \in Rates, BaudOpen(t, r)
      PROVE  IerShadow' /\ DivisorInv'
  <2>1. uart'.ier = uart.ier /\ uart'.div = r
    BY <1>0, <1>7 DEF BaudOpen, Uarts
  <2>2. lock' = t /\ call'[t] = "baud" /\ baud' = r
    BY <1>0, <1>7 DEF BaudOpen
  <2> QED
    BY <1>7, <2>1, <2>2 DEF BaudOpen, IerShadow, DivisorInv
<1>8. CASE BaudClose(t)
  <2>1. uart'.ier = uart.ier /\ uart'.div = uart.div /\ uart'.dlab = FALSE
    BY <1>0, <1>8 DEF BaudClose, Uarts
  <2> QED
    BY <1>8, <2>1 DEF BaudClose, IerShadow, DivisorInv, driver
<1>9. CASE KprintfBegin(t)
  <2>1. uart'.div = uart.div /\ uart'.dlab = uart.dlab /\ mode' = "POLL"
    BY <1>9, SetModeChip DEF KprintfBegin, SetMode
  <2>2. ~uart.dlab
    BY <1>9 DEF KprintfBegin, DivisorInv
  <2> QED
    BY <1>9, <2>1, <2>2 DEF KprintfBegin, IerShadow, DivisorInv
<1>10. CASE PollOutput(t)
  <2>1. ~uart.dlab
    BY <1>10 DEF PollOutput, DivisorInv, LockExclusive
  <2>2. LET u == GetMsr(GetLsr(uart))
        IN  u \in Uarts /\ u.ier = uart.ier /\ u.dlab = uart.dlab
              /\ u.div = uart.div
    BY <1>0, AccessTypes, BitsTypes, GetFields
  <2>3. /\ uart'.ier = uart.ier /\ uart'.dlab = uart.dlab
        /\ uart'.div = uart.div
    BY <1>10, <2>1, <2>2, SetThrFields DEF PollOutput
  <2> QED
    BY <1>10, <2>1, <2>3 DEF PollOutput, IerShadow, DivisorInv, driver
<1>11. CASE KprintfEnd(t)
  <2>1. /\ oldMode = "INT" => ier' \subseteq uart'.ier
        /\ uart'.div = uart.div /\ uart'.dlab = uart.dlab /\ mode' = oldMode
    BY <1>0, <1>11, SetModeChip DEF KprintfEnd, SetMode
  <2>2. ~uart.dlab
    BY <1>11 DEF KprintfEnd, DivisorInv, LockExclusive
  <2> QED
    BY <1>11, <2>1, <2>2 DEF KprintfEnd, IerShadow, DivisorInv
<1> QED
  BY <1>1, <1>2, <1>3, <1>4, <1>5, <1>6, <1>7, <1>8, <1>9, <1>10, <1>11
     DEF Client

\* What a served pass leaves in the chip.
LEMMA ServeFields ==
  ASSUME NEW u \in Uarts, NEW b \in SUBSET IerBits, Serve(u, b)
  PROVE  /\ ier' = b /\ uart'.ier = b
         /\ uart'.dlab = u.dlab /\ uart'.div = u.div
         /\ uart'.thr = u.thr /\ uart'.fifo = u.fifo
<1>1. ierInit \in SUBSET IerBits
  BY DEF ierInit
<1>2. SetIer(u, ierInit) \in Uarts
  BY <1>1, AccessTypes
<1>3. uart' = SetIer(SetIer(u, ierInit), b) /\ ier' = b
  BY DEF Serve, Drive
<1> QED
  BY <1>1, <1>2, <1>3, SetIerFields

\* The interrupt routine writes the same bits to the chip and to pChan->ier.
LEMMA IsrChip ==
  ASSUME TypeOK, Isr
  PROVE  /\ UNCHANGED <<mode, opts, baud, lock, call>>
         /\ uart'.dlab = uart.dlab /\ uart'.div = uart.div
         /\ uart'.thr = uart.thr /\ uart'.fifo = uart.fifo
         /\ ier' = uart'.ier \/ UNCHANGED <<ier, uart>>
<1>0. /\ uart \in Uarts /\ GetLsr(uart) \in Uarts /\ GetMsr(uart) \in Uarts
      /\ ier \in SUBSET IerBits /\ ier \cup {"Tx"} \in SUBSET IerBits
      /\ \A x : ier \ {x} \in SUBSET IerBits
  BY AccessTypes, BitsTypes DEF TypeOK
<1>1. CASE IsrEnter \/ IsrNone \/ IsrAddRd \/ IsrAddWr
  BY <1>1 DEF IsrEnter, IsrNone, IsrAddRd, IsrAddWr, driver, clients
<1>2. CASE IsrLineStatus
  <2>1. Serve(GetLsr(uart), ier)
    BY <1>2 DEF IsrLineStatus
  <2> QED
    BY <1>0, <1>2, <2>1, ServeFields, GetFields DEF IsrLineStatus, clients
<1>3. CASE IsrReceive
  <2>1. Serve(uart, ier \ {"Rx"})
    BY <1>3 DEF IsrReceive
  <2> QED
    BY <1>0, <1>3, <2>1, ServeFields DEF IsrReceive, clients
<1>4. CASE IsrTransmit
  <2>1. Serve(uart, ier \ {"Tx"})
    BY <1>4 DEF IsrTransmit
  <2> QED
    BY <1>0, <1>4, <2>1, ServeFields DEF IsrTransmit, clients
<1>5. CASE IsrModem
  <2>1. Serve(GetMsr(uart), BitsAfterMsr) /\ BitsAfterMsr \in SUBSET IerBits
    BY <1>0, <1>5 DEF IsrModem, BitsAfterMsr
  <2> QED
    BY <1>0, <1>5, <2>1, ServeFields, GetFields DEF IsrModem, clients
<1> QED
  BY <1>1, <1>2, <1>3, <1>4, <1>5 DEF Isr

\* So does the worker, which reaches THR only with the lock free, when no
\* DLAB window can be open.
LEMMA WorkerChip ==
  ASSUME TypeOK, DivisorInv, Worker
  PROVE  /\ UNCHANGED <<mode, opts, baud, lock, call>>
         /\ uart'.dlab = uart.dlab /\ uart'.div = uart.div
         /\ uart'.fifo = uart.fifo
         /\ ier' = uart'.ier \/ (ier' = ier /\ uart'.ier = uart.ier)
<1> USE DEF Access, Drive
<1>0. uart \in Uarts /\ GetLsr(uart) \in Uarts
  BY AccessTypes, BitsTypes DEF TypeOK
<1>1. CASE JobTake \/ IntWr2Get
  BY <1>1 DEF JobTake, IntWr2Get, driver, clients
<1>2. CASE IntRd2
  <2>1. CASE uart.rbr > 0
    <3>1. uart' = [GetLsr(uart) EXCEPT !.rbr = @ - 1] /\ UNCHANGED ier
      <4>1. uart.rbr # 0
        BY <2>1
      <4> QED
        BY <1>2, <4>1 DEF IntRd2
    <3>2. /\ uart'.dlab = GetLsr(uart).dlab /\ uart'.div = GetLsr(uart).div
          /\ uart'.fifo = GetLsr(uart).fifo /\ uart'.ier = GetLsr(uart).ier
      BY <1>0, <3>1 DEF Uarts
    <3> QED
      BY <1>0, <1>2, <3>1, <3>2, GetFields DEF IntRd2, clients
  <2>2. CASE ~(uart.rbr > 0)
    <3>1. uart' = SetIer(GetLsr(uart), RearmRx) /\ ier' = RearmRx
      BY <1>2, <2>2 DEF IntRd2
    <3>2. /\ uart'.ier = RearmRx /\ uart'.dlab = uart.dlab
          /\ uart'.div = uart.div /\ uart'.fifo = uart.fifo
      BY <1>0, <3>1, BitsTypes, SetIerFields, GetFields
    <3>3. UNCHANGED <<mode, opts, baud, lock, call>>
      BY <1>2 DEF IntRd2, clients
    <3> QED
      BY <3>1, <3>2, <3>3
  <2> QED
    BY <2>1, <2>2
<1>3. CASE IntWr2Test
  <2>1. CASE THRE(uart)
    BY <1>0, <1>3, <2>1, GetFields DEF IntWr2Test, clients
  <2>2. CASE ~THRE(uart)
    <3>1. uart' = SetIer(GetLsr(uart), RearmTx) /\ ier' = RearmTx
      BY <1>3, <2>2 DEF IntWr2Test
    <3>2. /\ uart'.ier = RearmTx /\ uart'.dlab = uart.dlab
          /\ uart'.div = uart.div /\ uart'.fifo = uart.fifo
      BY <1>0, <3>1, BitsTypes, SetIerFields, GetFields
    <3>3. UNCHANGED <<mode, opts, baud, lock, call>>
      BY <1>3 DEF IntWr2Test, clients
    <3> QED
      BY <3>1, <3>2, <3>3
  <2> QED
    BY <2>1, <2>2
<1>4. CASE IntWr2Put
  <2>1. ~uart.dlab
    BY <1>4, ChanAssumption DEF IntWr2Put, Locked, DivisorInv
  <2>2. uart' = SetThr(uart)
    BY <1>4 DEF IntWr2Put
  <2> QED
    BY <1>0, <1>4, <2>1, <2>2, SetThrFields DEF IntWr2Put, driver, clients
<1> QED
  BY <1>1, <1>2, <1>3, <1>4 DEF Worker

\* The line does not reach these registers.
LEMMA LineChip ==
  ASSUME TypeOK, TxShift \/ RxArrive \/ ModemChange \/ UNCHANGED vars
  PROVE  /\ UNCHANGED <<ier, mode, opts, baud, lock, call>>
         /\ uart'.dlab = uart.dlab /\ uart'.div = uart.div
         /\ uart'.fifo = uart.fifo /\ uart'.ier = uart.ier
<1> USE DEF Access, Drive
<1>0. uart \in Uarts
  BY DEF TypeOK
<1>1. CASE TxShift
  BY <1>0, <1>1 DEF TxShift, Uarts, driver, clients
<1>2. CASE RxArrive
  BY <1>0, <1>2 DEF RxArrive, Uarts, driver
<1>3. CASE ModemChange
  BY <1>0, <1>3 DEF ModemChange, Uarts, driver
<1>4. CASE UNCHANGED vars
  BY <1>4 DEF vars, driver, clients
<1> QED
  BY <1>1, <1>2, <1>3, <1>4

\* The inductive invariant of the chip's registers.
ChipInv == TypeOK /\ LockExclusive /\ IerShadow /\ DivisorInv

LEMMA ChipInvariant == Spec => []ChipInv
<1>1. Init => IerShadow /\ DivisorInv
  BY DEF Init, IerShadow, DivisorInv
<1>2. TypeOK /\ LockExclusive /\ IerShadow /\ DivisorInv /\ [Next]_vars
        => IerShadow' /\ DivisorInv'
  <2> SUFFICES ASSUME TypeOK, LockExclusive, IerShadow, DivisorInv, [Next]_vars
               PROVE  IerShadow' /\ DivisorInv'
    OBVIOUS
  <2>1. ASSUME NEW t \in Tasks, Client(t) PROVE IerShadow' /\ DivisorInv'
    BY <2>1, ClientChip
  <2>2. CASE Isr
    BY <2>2, IsrChip DEF IerShadow, DivisorInv
  <2>3. CASE Worker
    BY <2>3, WorkerChip DEF IerShadow, DivisorInv
  <2>4. CASE TxShift \/ RxArrive \/ ModemChange \/ UNCHANGED vars
    BY <2>4, LineChip DEF IerShadow, DivisorInv
  <2> QED
    BY <2>1, <2>2, <2>3, <2>4 DEF Next
<1> QED
  BY <1>1, <1>2, TypeCorrect, Mutex, PTL DEF Spec, ChipInv

\* In interrupt mode the chip enables every interrupt the driver's copy of IER
\* has enabled, whichever of the writers of IER came last.
THEOREM ShadowOfIer == Spec => []IerShadow
<1>1. ChipInv => IerShadow
  BY DEF ChipInv
<1> QED
  BY <1>1, ChipInvariant, PTL

\* Outside the DLAB window of ns16550vxbBaudSet the divisor latch holds the
\* channel's rate: no character was written to it in place of THR.
THEOREM DivisorKept == Spec => []DivisorIntact
<1>1. ChipInv => DivisorIntact
  BY ChanAssumption DEF ChipInv, DivisorInv, DivisorIntact
<1> QED
  BY <1>1, ChipInvariant, PTL

-----------------------------------------------------------------------------
(* The burst of ns16550vxbIntWr2.                                          *)

\* While the worker is in a burst, the transmitter has room for what is left
\* of it.  Nobody but the worker adds to the transmitter if there is no kprintf,
\* and its FIFO stays on if there is no SIO_HUP.
NoRival == Calls \cap {"kprintf", "hup"} = {}

BurstInv ==
  /\ uart.fifo = TRUE
  /\ lost = 0
  /\ \A t \in Tasks : call[t] \notin {"open", "poll", "polled"}
  /\ job \in {"wrGet", "wrPut"} => uart.thr + room <= FifoSize

\* No step of a client adds to the transmitter.
LEMMA ClientBurst ==
  ASSUME NoRival, TypeOK, BurstInv, NEW t \in Tasks, Client(t)
  PROVE  BurstInv'
<1> USE DEF Goto, Locked, Free, MayCall, Ioctl, Access, Drive
<1>0. /\ call \in [Tasks -> {"idle", "start", "open", "baud", "poll", "polled"}]
      /\ uart \in Uarts /\ GetMsr(uart) \in Uarts
      /\ room \in 0..FifoSize
  BY AccessTypes, BitsTypes DEF TypeOK
<1>1. CASE Write(t)
  BY <1>0, <1>1 DEF Write, BurstInv, worker
<1>2. CASE TxStartup(t)
  <2>1. uart'.thr = uart.thr /\ uart'.fifo = uart.fifo
    <3>1. CASE mode = "INT"
      <4>1. \/ uart' = SetIer(uart, StartBits)
            \/ uart' = SetIer(GetMsr(uart), StartBits)
        BY <1>2, <3>1 DEF TxStartup
      <4> QED
        BY <1>0, <4>1, BitsTypes, SetIerFields, GetFields
    <3>2. CASE mode # "INT"
      BY <1>2, <3>2 DEF TxStartup
    <3> QED
      BY <3>1, <3>2
  <2>2. UNCHANGED <<job, room, lost>> /\ call' = [call EXCEPT ![t] = "idle"]
    BY <1>2 DEF TxStartup, worker, chars
  <2> QED
    BY <1>0, <2>1, <2>2 DEF BurstInv
<1>3. ASSUME NEW m \in {"INT", "POLL"}, ModeSet(t, m)
      PROVE  BurstInv'
  <2>1. uart'.thr = uart.thr /\ uart'.fifo = uart.fifo
    BY <1>3, SetModeChip DEF ModeSet
  <2> QED
    BY <1>3, <2>1 DEF ModeSet, BurstInv, worker, chars
<1>4. ASSUME NEW o \in Options, OptsSet(t, o)
      PROVE  BurstInv'
  <2> DEFINE off == SetIer(uart, ierInit)
             r == ResetFifo(off, TRUE)
             u == [r EXCEPT !.rts = ~o.clocal]
  <2>1. ierInit \in SUBSET IerBits /\ OptsBits(o) \in SUBSET IerBits
    BY BitsTypes
  <2>2. off \in Uarts
    BY <1>0, <2>1, AccessTypes
  <2>3. r \in Uarts /\ r.thr = 0 /\ r.fifo = TRUE
    BY <2>2, ResetFifoType, ResetFifoFields
  <2>4. u \in Uarts /\ u.thr = 0 /\ u.fifo = TRUE
    BY <2>3 DEF Uarts, Options
  <2>5. uart' = IF mode = "INT" THEN SetIer(u, OptsBits(o)) ELSE u
    BY <1>4 DEF OptsSet
  <2> HIDE DEF off, r, u
  <2>6. uart'.thr = 0 /\ uart'.fifo = TRUE
    BY <2>1, <2>4, <2>5, SetIerFields
  <2>7. /\ UNCHANGED <<job, room, lost>>
        /\ call' = [call EXCEPT ![t] = "start"]
    BY <1>4 DEF OptsSet, worker, chars
  <2> QED
    BY <1>0, <2>6, <2>7, ChanAssumption DEF BurstInv
<1>5. CASE Hup(t) \/ OpenCheck(t) \/ KprintfBegin(t)
  BY <1>5 DEF NoRival, Hup, OpenCheck, KprintfBegin
<1>6. CASE OpenSet(t) \/ PollOutput(t) \/ KprintfEnd(t)
  BY <1>6 DEF BurstInv, OpenSet, PollOutput, KprintfEnd
<1>7. ASSUME NEW r \in Rates, BaudOpen(t, r)
      PROVE  BurstInv'
  <2>1. uart'.thr = uart.thr /\ uart'.fifo = uart.fifo
    BY <1>0, <1>7 DEF BaudOpen, Uarts
  <2>2. UNCHANGED <<job, room, lost>> /\ call' = [call EXCEPT ![t] = "baud"]
    BY <1>7 DEF BaudOpen, worker, chars
  <2> QED
    BY <1>0, <2>1, <2>2 DEF BurstInv
<1>8. CASE BaudClose(t)
  <2>1. uart'.thr = uart.thr /\ uart'.fifo = uart.fifo
    BY <1>0, <1>8 DEF BaudClose, Uarts
  <2>2. UNCHANGED <<job, room, lost>> /\ call' = [call EXCEPT ![t] = "idle"]
    BY <1>8 DEF BaudClose, worker, chars
  <2> QED
    BY <1>0, <2>1, <2>2 DEF BurstInv
<1> QED
  BY <1>1, <1>2, <1>3, <1>4, <1>5, <1>6, <1>7, <1>8 DEF Client

\* The worker adds what the burst allows for.
LEMMA WorkerBurst ==
  ASSUME TypeOK, DivisorInv, BurstInv, Worker
  PROVE  BurstInv'
<1> USE DEF Access, Drive
<1>0. /\ uart \in Uarts /\ GetLsr(uart) \in Uarts
      /\ uart.thr \in 0..FifoSize /\ room \in 0..FifoSize
      /\ FifoSize \in Nat \ {0}
  BY AccessTypes, BitsTypes, ChanAssumption DEF TypeOK, Uarts
<1>1. UNCHANGED call /\ uart'.fifo = uart.fifo
  BY WorkerChip
<1>2. CASE JobTake
  BY <1>1, <1>2 DEF JobTake, BurstInv, chars
<1>3. CASE IntRd2
  <2>1. job' \in {"rd", "idle"} /\ UNCHANGED <<room, lost>>
    BY <1>3 DEF IntRd2, chars
  <2> QED
    BY <1>1, <2>1 DEF BurstInv
<1>4. CASE IntWr2Test
  <2>1. CASE THRE(uart)
    <3>1. uart'.thr = 0 /\ room' = FifoSize /\ lost' = lost
      BY <1>0, <1>4, <2>1, GetFields
         DEF IntWr2Test, THRE, BurstLength, chars
    <3> QED
      BY <1>0, <1>1, <3>1 DEF BurstInv
  <2>2. CASE ~THRE(uart)
    BY <1>1, <1>4, <2>2 DEF IntWr2Test, BurstInv, chars
  <2> QED
    BY <2>1, <2>2
<1>5. CASE IntWr2Get
  BY <1>1, <1>5 DEF IntWr2Get, BurstInv
<1>6. CASE IntWr2Put
  <2>1. ~uart.dlab
    BY <1>6, ChanAssumption DEF IntWr2Put, Locked, DivisorInv
  <2>2. room > 0 /\ uart.thr + room <= FifoSize
    BY <1>6 DEF IntWr2Put, TypeOK, BurstInv
  <2>3. Depth(uart) = FifoSize
    BY DEF Depth, BurstInv
  <2>4. ~Overrun(uart)
    BY <1>0, <2>1, <2>2, <2>3 DEF Overrun
  <2>5. uart'.thr = uart.thr + 1
    BY <1>0, <1>6, <2>4, SetThrFields DEF IntWr2Put
  <2>6. room' = room - 1 /\ lost' = lost
    BY <1>6, <2>4 DEF IntWr2Put
  <2> QED
    BY <1>0, <1>1, <2>2, <2>5, <2>6 DEF BurstInv
<1> QED
  BY <1>2, <1>3, <1>4, <1>5, <1>6 DEF Worker

\* The interrupt routine and the line never add to the transmitter.
LEMMA OthersBurst ==
  ASSUME TypeOK, BurstInv,
         Isr \/ TxShift \/ RxArrive \/ ModemChange \/ UNCHANGED vars
  PROVE  BurstInv'
<1>0. uart \in Uarts /\ uart.thr \in 0..FifoSize /\ room \in 0..FifoSize
  BY DEF TypeOK, Uarts
<1>1. CASE Isr
  <2>1. UNCHANGED <<job, room, lost>>
    BY <1>1 DEF Isr, IsrEnter, IsrNone, IsrLineStatus, IsrReceive,
                IsrTransmit, IsrModem, IsrAddRd, IsrAddWr, worker, chars
  <2> QED
    BY <1>1, <2>1, IsrChip DEF BurstInv
<1>2. CASE TxShift \/ RxArrive \/ ModemChange \/ UNCHANGED vars
  <2>1. UNCHANGED <<job, room, lost, call>> /\ uart'.fifo = uart.fifo
    BY <1>2, LineChip
       DEF TxShift, RxArrive, ModemChange, vars, worker, chars
  <2>2. uart'.thr = uart.thr \/ uart'.thr = uart.thr - 1
    BY <1>0, <1>2
       DEF TxShift, RxArrive, ModemChange, vars, Access, Drive, Uarts
  <2> QED
    BY <1>0, <2>1, <2>2, ChanAssumption DEF BurstInv
<1> QED
  BY <1>1, <1>2

\* "Transmit characters upto the FIFO depth" (lines 2705-2731): with no
\* kprintf between the test of LSR and the writes of THR, and the FIFO never
\* turned off by a hang-up, the worker loses no character.
THEOREM BurstFits ==
  ASSUME NoRival
  PROVE  Spec => []NoOverrun
<1>1. Init => BurstInv
  BY DEF Init, BurstInv
<1>2. ChipInv /\ BurstInv /\ [Next]_vars => BurstInv'
  BY NoRival, ClientBurst, WorkerBurst, OthersBurst DEF Next, ChipInv
<1>3. BurstInv => NoOverrun
  BY DEF BurstInv, NoOverrun
<1> QED
  BY <1>1, <1>2, <1>3, ChipInvariant, PTL DEF Spec

-----------------------------------------------------------------------------
(* The channel implements the abstract output of SioOutput.                *)

\* Clients only write, change the rate and switch the mode: SIO_HW_OPTS_SET,
\* SIO_HUP and SIO_OPEN clear the transmit FIFO, kprintf bypasses the buffer.
PlainOutput == Calls \subseteq {"baud", "mode"}

\* A client's step accepts a character or stutters.
LEMMA ClientOutput ==
  ASSUME PlainOutput, TypeOK, BurstInv, NEW t \in Tasks, Client(t)
  PROVE  [Output!Next]_<<Pending, wire>>
<1> USE DEF Locked, Free, MayCall, Ioctl, Access, Drive
<1>0. /\ uart \in Uarts /\ uart.thr \in Nat /\ GetMsr(uart) \in Uarts
      /\ out \in Nat
  <2>1. uart \in Uarts /\ uart.thr \in Nat /\ out \in Nat
    BY ChanAssumption DEF TypeOK, Uarts
  <2> QED
    BY <2>1, AccessTypes, BitsTypes
<1>1. CASE Write(t)
  <2>1. Pending' = Pending + 1 /\ UNCHANGED wire
    BY <1>0, <1>1 DEF Write, Pending, worker
  <2> QED
    BY <2>1 DEF Output!Next, Output!Accept
<1>2. ASSUME uart'.thr = uart.thr, UNCHANGED <<out, wire, job>>
      PROVE  [Output!Next]_<<Pending, wire>>
  BY <1>2 DEF Pending
<1>3. CASE TxStartup(t)
  <2>1. uart'.thr = uart.thr
    <3>1. CASE mode = "INT"
      <4>1. \/ uart' = SetIer(uart, StartBits)
            \/ uart' = SetIer(GetMsr(uart), StartBits)
        BY <1>3, <3>1 DEF TxStartup
      <4> QED
        BY <1>0, <4>1, BitsTypes, SetIerFields, GetFields
    <3>2. CASE mode # "INT"
      BY <1>3, <3>2 DEF TxStartup
    <3> QED
      BY <3>1, <3>2
  <2> QED
    BY <1>2, <1>3, <2>1 DEF TxStartup, worker, chars
<1>4. ASSUME NEW m \in {"INT", "POLL"}, ModeSet(t, m)
      PROVE  [Output!Next]_<<Pending, wire>>
  BY <1>2, <1>4, SetModeChip DEF ModeSet, worker, chars
<1>5. ASSUME NEW r \in Rates, BaudOpen(t, r)
      PROVE  [Output!Next]_<<Pending, wire>>
  <2>1. uart'.thr = uart.thr
    BY <1>0, <1>5 DEF BaudOpen, Uarts
  <2> QED
    BY <1>2, <1>5, <2>1 DEF BaudOpen, worker, chars
<1>6. CASE BaudClose(t)
  <2>1. uart'.thr = uart.thr
    BY <1>0, <1>6 DEF BaudClose, Uarts
  <2> QED
    BY <1>2, <1>6, <2>1 DEF BaudClose, worker, chars
<1>7. ASSUME NEW o \in Options, OptsSet(t, o)
      PROVE  FALSE
  BY <1>7 DEF PlainOutput, OptsSet
<1>8. ~(Hup(t) \/ OpenCheck(t) \/ KprintfBegin(t))
  BY DEF PlainOutput, Hup, OpenCheck, KprintfBegin
<1>9. ~(OpenSet(t) \/ PollOutput(t) \/ KprintfEnd(t))
  BY DEF BurstInv, OpenSet, PollOutput, KprintfEnd
<1> QED
  BY <1>1, <1>3, <1>4, <1>5, <1>6, <1>7, <1>8, <1>9 DEF Client

\* The worker moves characters from the buffer to the transmitter, keeping
\* count of the one in its hand.
LEMMA WorkerOutput ==
  ASSUME TypeOK, DivisorInv, BurstInv, Worker
  PROVE  UNCHANGED <<Pending, wire>>
<1> USE DEF Access, Drive
<1>0. /\ uart \in Uarts /\ GetLsr(uart) \in Uarts
      /\ uart.thr \in 0..FifoSize /\ room \in 0..FifoSize
      /\ FifoSize \in Nat \ {0} /\ out \in Nat
  BY AccessTypes, BitsTypes, ChanAssumption DEF TypeOK, Uarts
<1>1. CASE JobTake
  BY <1>1 DEF JobTake, Pending, chars
<1>2. CASE IntRd2
  <2>1. UNCHANGED <<out, wire>> /\ job # "wrPut" /\ job' # "wrPut"
    BY <1>2 DEF IntRd2, chars
  <2>2. uart'.thr = uart.thr
    <3>1. CASE uart.rbr > 0
      <4>0. uart.rbr # 0
        BY <3>1
      <4>1. uart' = [GetLsr(uart) EXCEPT !.rbr = @ - 1]
        BY <1>2, <4>0 DEF IntRd2
      <4>2. uart'.thr = GetLsr(uart).thr
        BY <1>0, <4>1 DEF Uarts
      <4> QED
        BY <1>0, <4>2, GetFields
    <3>2. CASE ~(uart.rbr > 0)
      <4>1. uart' = SetIer(GetLsr(uart), RearmRx)
        BY <1>2, <3>2 DEF IntRd2
      <4> QED
        BY <1>0, <4>1, BitsTypes, SetIerFields, GetFields
    <3> QED
      BY <3>1, <3>2
  <2> QED
    BY <2>1, <2>2 DEF Pending
<1>3. CASE IntWr2Test
  <2>1. UNCHANGED <<out, wire>> /\ job # "wrPut" /\ job' # "wrPut"
    BY <1>3 DEF IntWr2Test, chars
  <2>2. uart'.thr = uart.thr
    <3>1. CASE THRE(uart)
      BY <1>0, <1>3, <3>1, GetFields DEF IntWr2Test
    <3>2. CASE ~THRE(uart)
      <4>1. uart' = SetIer(GetLsr(uart), RearmTx)
        BY <1>3, <3>2 DEF IntWr2Test
      <4> QED
        BY <1>0, <4>1, BitsTypes, SetIerFields, GetFields
    <3> QED
      BY <3>1, <3>2
  <2> QED
    BY <2>1, <2>2 DEF Pending
<1>4. CASE IntWr2Get
  <2>1. UNCHANGED <<uart, wire>> /\ job = "wrGet"
    BY <1>4 DEF IntWr2Get
  <2>2. \/ out' = out - 1 /\ job' = "wrPut"
        \/ out' = out /\ job' = "idle"
    BY <1>4 DEF IntWr2Get
  <2> QED
    BY <1>0, <2>1, <2>2 DEF Pending
<1>5. CASE IntWr2Put
  <2>1. ~uart.dlab
    BY <1>5, ChanAssumption DEF IntWr2Put, Locked, DivisorInv
  <2>2. room > 0 /\ uart.thr + room <= FifoSize
    BY <1>5 DEF IntWr2Put, TypeOK, BurstInv
  <2>3. Depth(uart) = FifoSize
    BY DEF Depth, BurstInv
  <2>4. ~Overrun(uart)
    BY <1>0, <2>1, <2>2, <2>3 DEF Overrun
  <2>5. uart'.thr = uart.thr + 1
    BY <1>0, <1>5, <2>4, SetThrFields DEF IntWr2Put
  <2>6. UNCHANGED <<out, wire>> /\ job = "wrPut" /\ job' # "wrPut"
    BY <1>5 DEF IntWr2Put
  <2> QED
    BY <1>0, <2>5, <2>6 DEF Pending
<1> QED
  BY <1>1, <1>2, <1>3, <1>4, <1>5 DEF Worker

\* The transmitter sends; the rest of the line and the routine stutter.
LEMMA OthersOutput ==
  ASSUME TypeOK,
         Isr \/ TxShift \/ RxArrive \/ ModemChange \/ UNCHANGED vars
  PROVE  [Output!Next]_<<Pending, wire>>
<1>0. uart \in Uarts /\ uart.thr \in Nat /\ out \in Nat
  BY ChanAssumption DEF TypeOK, Uarts
<1>1. CASE Isr
  <2>1. UNCHANGED <<job, out, wire>>
    BY <1>1 DEF Isr, IsrEnter, IsrNone, IsrLineStatus, IsrReceive,
                IsrTransmit, IsrModem, IsrAddRd, IsrAddWr, worker, chars
  <2> QED
    BY <1>1, <2>1, IsrChip DEF Pending
<1>2. CASE TxShift
  <2>1. uart.thr > 0 /\ uart'.thr = uart.thr - 1
    BY <1>0, <1>2 DEF TxShift, Access, Drive, Uarts
  <2>2. UNCHANGED <<job, out>> /\ wire' = wire + 1
    BY <1>2 DEF TxShift, worker
  <2>3. Pending > 0 /\ Pending' = Pending - 1
    BY <1>0, <2>1, <2>2 DEF Pending
  <2> QED
    BY <2>2, <2>3 DEF Output!Next, Output!Send
<1>3. CASE RxArrive \/ ModemChange \/ UNCHANGED vars
  <2>1. UNCHANGED <<job, out, wire>> /\ uart'.thr = uart.thr
    BY <1>0, <1>3 DEF RxArrive, ModemChange, vars, worker, chars, Access,
                      Drive, Uarts
  <2> QED
    BY <2>1 DEF Pending
<1> QED
  BY <1>1, <1>2, <1>3

\* Every character the channel accepts in the interrupt-driven path
\* (lines 2678-2745, 2998-3079) is sent at most once, and none is dropped or
\* invented on the way from the buffer to the line.
THEOREM OutputRefines ==
  ASSUME PlainOutput
  PROVE  Spec => Output!Safety
<1>0. NoRival
  BY PlainOutput DEF PlainOutput, NoRival
<1>1. Init => Output!Init /\ BurstInv
  <2>1. Init => Pending = 0 /\ wire = 0
    BY DEF Init, Pending
  <2> QED
    BY <2>1 DEF Output!Init, Init, BurstInv
<1>2. ChipInv /\ BurstInv /\ [Next]_vars => BurstInv'
  BY <1>0, ClientBurst, WorkerBurst, OthersBurst DEF Next, ChipInv
<1>3. ChipInv /\ BurstInv /\ [Next]_vars => [Output!Next]_<<Pending, wire>>
  BY PlainOutput, ClientOutput, WorkerOutput, OthersOutput DEF Next, ChipInv
<1> QED
  BY <1>1, <1>2, <1>3, ChipInvariant, PTL DEF Spec, Output!Safety

-----------------------------------------------------------------------------
(* Who comes for waiting output.                                           *)

\* Nobody switches the mode but the tty layer when it attaches, and kprintf.
OneMode == "mode" \notin Calls

Comes ==
  \/ \E t \in Tasks : call[t] = "start"
  \/ txDefer \/ job \in {"wrLoop", "wrGet", "wrPut"}
  \/ "Tx" \in ier
Watched == ~opts.clocal /\ (uart.cts => uart.dcts)

\* Polled mode is a kprintf's that holds the lock and goes back to interrupt mode.
ModeInv ==
  /\ lock = NoOne => mode # "POLL"
  /\ \A t \in Tasks :
       /\ call[t] \in {"poll", "polled"} => oldMode = "INT" /\ mode = "POLL"
       /\ call[t] = "baud" => mode # "POLL"
  /\ mode = "undef" => out = 0

\* The modem interrupt is watched exactly under flow control, and waiting output
\* is come for also during a kprintf, but that kprintf's reads of MSR, under flow
\* control, clear a change of CTS that its end looks at again.
ModemBit ==
  /\ "Ms" \in ier <=> ~opts.clocal
  /\ "Ms" \in uart.ier => "Ms" \in ier
WakeInv ==
  /\ ModemBit
  /\ out > 0 /\ (mode = "INT" \/ opts.clocal) => Comes \/ Watched

\* What each access leaves of the modem's lines.
LEMMA ModemFields ==
  ASSUME NEW u \in Uarts, NEW b \in SUBSET IerBits
  PROVE  /\ SetIer(u, b).cts = u.cts /\ SetIer(u, b).dcts = u.dcts
         /\ GetLsr(u).cts = u.cts /\ GetLsr(u).dcts = u.dcts
         /\ GetMsr(u).cts = u.cts
         /\ \A e \in BOOLEAN : ResetFifo(u, e).cts = u.cts /\ ResetFifo(u, e).dcts = u.dcts
         /\ SetThr(u).cts = u.cts /\ SetThr(u).dcts = u.dcts
  BY DEF SetIer, GetLsr, GetMsr, ResetFifo, SetThr, Uarts

\* Clients keep the discipline of the modes.
LEMMA ClientMode ==
  ASSUME OneMode, TypeOK, LockExclusive, ModeInv, NEW t \in Tasks, Client(t)
  PROVE  ModeInv'
<1> USE ChanAssumption DEF Goto, Locked, Free, MayCall, Ioctl, ModeInv, OneMode
<1>0. /\ call \in [Tasks -> {"idle", "start", "open", "baud", "poll", "polled"}]
      /\ mode \in {"undef", "POLL", "INT"} /\ lock \in Tasks \cup {NoOne}
  BY DEF TypeOK
<1>1. CASE Write(t)
  BY <1>0, <1>1 DEF Write, driver
<1>2. CASE TxStartup(t)
  BY <1>0, <1>2 DEF TxStartup, chars
<1>3. ASSUME NEW m \in {"INT", "POLL"}, ModeSet(t, m)
      PROVE  ModeInv'
  <2>1. mode = "undef" /\ m = "INT" /\ mode' = "INT" /\ UNCHANGED <<lock, call, oldMode, out>>
    BY <1>3 DEF ModeSet, SetMode, chars
  <2>2. \A s \in Tasks : call[s] \notin {"poll", "polled"}
    BY <2>1
  <2> QED
    BY <2>1, <2>2
<1>4. ASSUME NEW o \in Options, OptsSet(t, o)
      PROVE  ModeInv'
  BY <1>0, <1>4 DEF OptsSet, chars
<1>5. CASE Hup(t)
  BY <1>5 DEF Hup, driver, chars
<1>6. CASE OpenCheck(t)
  BY <1>0, <1>6 DEF OpenCheck, driver, chars
<1>7. CASE OpenSet(t)
  BY <1>0, <1>7 DEF OpenSet, driver, chars
<1>8. ASSUME NEW r \in Rates, BaudOpen(t, r)
      PROVE  ModeInv'
  BY <1>0, <1>8 DEF BaudOpen, chars
<1>9. CASE BaudClose(t)
  BY <1>0, <1>9 DEF BaudClose, driver, chars
<1>10. CASE KprintfBegin(t)
  <2>1. /\ mode = "INT" /\ mode' = "POLL" /\ oldMode' = "INT" /\ lock' = t
        /\ call' = [call EXCEPT ![t] = "poll"] /\ out' = out /\ lock = NoOne
    BY <1>0, <1>10 DEF KprintfBegin, SetMode, chars
  <2>2. \A s \in Tasks : call[s] \notin {"baud", "poll", "polled"}
    BY <2>1 DEF LockExclusive
  <2> QED
    BY <1>0, <2>1, <2>2
<1>11. CASE PollOutput(t)
  BY <1>0, <1>11 DEF PollOutput, driver
<1>12. CASE KprintfEnd(t)
  <2>1. /\ mode' = "INT" /\ lock = t /\ call' = [call EXCEPT ![t] = "idle"]
        /\ UNCHANGED <<oldMode, out>>
    BY <1>0, <1>12 DEF KprintfEnd, SetMode, chars, LockExclusive
  <2>2. \A s \in Tasks \ {t} : call'[s] \notin {"baud", "poll", "polled"}
    BY <1>0, <2>1 DEF LockExclusive
  <2> QED
    BY <1>0, <2>1, <2>2
<1> QED
  BY <1>1, <1>2, <1>3, <1>4, <1>5, <1>6, <1>7, <1>8, <1>9, <1>10, <1>11,
     <1>12 DEF Client

\* Switching to interrupt mode takes up what CTS says; neither way the modem
\* interrupt changes hands.
LEMMA SetModeWake ==
  ASSUME TypeOK, ModemBit, NEW m \in {"POLL", "INT"}, SetMode(m)
  PROVE  /\ mode' = m /\ ("Ms" \in ier' <=> "Ms" \in ier)
         /\ "Ms" \in uart'.ier => "Ms" \in ier
         /\ opts.clocal \/ m = "POLL"
              => ier' = ier /\ uart'.cts = uart.cts /\ uart'.dcts = uart.dcts
         /\ ~opts.clocal /\ m = "INT" => "Tx" \in ier' \/ ~uart'.cts
<1> DEFINE new == IF uart.cts THEN ier \cup {"Tx"} ELSE ier \ {"Tx"}
<1>1. uart \in Uarts /\ GetMsr(uart) \in Uarts
  BY AccessTypes, BitsTypes DEF TypeOK
<1>2. /\ new \in SUBSET IerBits
      /\ ierInit \in SUBSET IerBits
      /\ ier \cup {"Rx", "Tx"} \in SUBSET IerBits
  BY BitsTypes
<1>3. CASE m = "INT" /\ opts.clocal
  <2>1. uart' = SetIer(uart, ier \cup {"Rx", "Tx"}) /\ UNCHANGED ier /\ mode' = m
    BY <1>3 DEF SetMode, Access, Drive
  <2>2. /\ uart'.ier = ier \cup {"Rx", "Tx"}
        /\ uart'.cts = uart.cts /\ uart'.dcts = uart.dcts
    BY <1>1, <1>2, <2>1, SetIerFields, ModemFields
  <2> QED
    BY <1>3, <2>1, <2>2
<1>4. CASE m = "INT" /\ ~opts.clocal
  <2>1. uart' = SetIer(GetMsr(uart), new) /\ ier' = new /\ mode' = m
    BY <1>4 DEF SetMode, Drive
  <2>2. uart'.ier = new /\ uart'.cts = uart.cts
    <3> HIDE DEF new
    <3> QED
      BY <1>1, <1>2, <2>1, SetIerFields, ModemFields
  <2> QED
    BY <1>4, <2>1, <2>2
<1>5. CASE m = "POLL"
  <2>1. uart' = SetIer(uart, ierInit) /\ UNCHANGED ier /\ mode' = m
    BY <1>5 DEF SetMode, Access, Drive
  <2>2. uart'.ier = {} /\ uart'.cts = uart.cts /\ uart'.dcts = uart.dcts
    BY <1>1, <1>2, <2>1, SetIerFields, ModemFields DEF ierInit
  <2> QED
    BY <1>5, <2>1, <2>2
<1> QED
  BY <1>3, <1>4, <1>5 DEF SetMode

\* After a client's step something comes for the output that waits.
LEMMA ClientWake ==
  ASSUME OneMode, TypeOK, LockExclusive, ModeInv, WakeInv, NEW t \in Tasks, Client(t)
  PROVE  WakeInv'
<1> USE ChanAssumption DEF Goto, Locked, Free, MayCall, Ioctl, Access, Drive
<1>0. /\ call \in [Tasks -> {"idle", "start", "open", "baud", "poll", "polled"}]
      /\ uart \in Uarts /\ GetLsr(uart) \in Uarts /\ GetMsr(uart) \in Uarts
      /\ mode \in {"undef", "POLL", "INT"} /\ out \in Nat
  BY AccessTypes, BitsTypes DEF TypeOK
<1>1. CASE Write(t)
  BY <1>0, <1>1 DEF Write, driver, WakeInv, ModemBit, Comes
<1>2. CASE TxStartup(t)
  <2>1. CASE mode = "INT"
    <3>1. StartBits \in SUBSET IerBits
      BY BitsTypes
    <3>2. /\ ier' = StartBits
          /\ uart' = SetIer(IF opts.clocal THEN uart ELSE GetMsr(uart), StartBits)
          /\ UNCHANGED <<opts, txDefer, job, out>>
      BY <1>2, <2>1 DEF TxStartup, worker, chars
    <3>3. uart'.ier = StartBits /\ uart'.cts = uart.cts
      BY <1>0, <3>1, <3>2, SetIerFields, ModemFields
    <3>4. "Ms" \in StartBits <=> "Ms" \in ier
      BY DEF StartBits
    <3>5. ModemBit'
      BY <3>2, <3>3, <3>4 DEF WakeInv, ModemBit
    <3>6. CASE opts.clocal \/ uart.cts
      <4>1. txDefer' \/ "Tx" \in ier'
        BY <3>2, <3>6 DEF StartBits
      <4> QED
        BY <3>5, <4>1 DEF WakeInv, Comes
    <3>7. CASE ~opts.clocal /\ ~uart.cts
      <4>1. Watched'
        BY <3>2, <3>3, <3>7 DEF Watched
      <4> QED
        BY <3>5, <4>1 DEF WakeInv
    <3> QED
      BY <3>6, <3>7
  <2>2. CASE mode # "INT"
    <3>1. out = 0 /\ UNCHANGED <<ier, uart, opts, out>>
      BY <1>0, <1>2, <2>2 DEF TxStartup, ModeInv, chars
    <3> QED
      BY <3>1 DEF WakeInv, ModemBit
  <2> QED
    BY <2>1, <2>2
<1>3. ASSUME NEW m \in {"INT", "POLL"}, ModeSet(t, m)
      PROVE  WakeInv'
  <2>1. SetMode(m) /\ out = 0 /\ UNCHANGED <<opts, out>>
    BY <1>3 DEF ModeSet, OneMode, ModeInv, chars
  <2>2. ModemBit'
    BY <2>1, SetModeWake DEF WakeInv, ModemBit
  <2> QED
    BY <2>1, <2>2 DEF WakeInv
<1>4. ASSUME NEW o \in Options, OptsSet(t, o)
      PROVE  WakeInv'
  <2> DEFINE off == SetIer(uart, ierInit)
             r == ResetFifo(off, TRUE)
             u == [r EXCEPT !.rts = ~o.clocal]
  <2>1. ierInit \in SUBSET IerBits /\ OptsBits(o) \in SUBSET IerBits
    BY BitsTypes
  <2>2. off \in Uarts /\ off.ier = {}
    BY <1>0, <2>1, AccessTypes, SetIerFields DEF ierInit
  <2>3. r \in Uarts /\ r.ier = {}
    BY <2>2, ResetFifoType, ResetFifoFields
  <2>4. u \in Uarts /\ u.ier = {}
    BY <2>3 DEF Uarts, Options
  <2>5. uart' = IF mode = "INT" THEN SetIer(u, OptsBits(o)) ELSE u
    BY <1>4 DEF OptsSet
  <2> HIDE DEF off, r, u
  <2>6. uart'.ier = OptsBits(o) \/ uart'.ier = {}
    BY <2>1, <2>4, <2>5, SetIerFields
  <2>7. "Ms" \in OptsBits(o) <=> ~o.clocal
    BY DEF OptsBits
  <2>8. ier' = OptsBits(o) /\ opts' = o /\ call'[t] = "start"
    BY <1>0, <1>4 DEF OptsSet
  <2> QED
    BY <2>6, <2>7, <2>8 DEF WakeInv, ModemBit, Comes
<1>5. CASE Hup(t)
  <2>1. LET u == [uart EXCEPT !.rts = FALSE]
        IN  u \in Uarts /\ u.ier = uart.ier /\ u.cts = uart.cts /\ u.dcts = uart.dcts
    BY <1>0 DEF Uarts
  <2>2. uart'.ier = uart.ier /\ uart'.cts = uart.cts /\ uart'.dcts = uart.dcts
    BY <1>5, <2>1, ResetFifoFields, ModemFields DEF Hup
  <2> QED
    BY <1>5, <2>2 DEF Hup, driver, worker, chars, WakeInv, ModemBit, Comes, Watched
<1>6. CASE OpenCheck(t)
  <2>1. \A s \in Tasks : call[s] = "start" => call'[s] = "start"
    BY <1>0, <1>6 DEF OpenCheck
  <2> QED
    BY <1>6, <2>1 DEF OpenCheck, driver, worker, chars, WakeInv, ModemBit, Comes, Watched
<1>7. CASE OpenSet(t)
  <2>1. LET u == [uart EXCEPT !.rts = TRUE]
        IN  u \in Uarts /\ u.ier = uart.ier /\ u.cts = uart.cts /\ u.dcts = uart.dcts
    BY <1>0 DEF Uarts
  <2>2. uart'.ier = uart.ier /\ uart'.cts = uart.cts /\ uart'.dcts = uart.dcts
    BY <1>7, <2>1, ResetFifoFields, ModemFields DEF OpenSet
  <2>3. \A s \in Tasks : call[s] = "start" => call'[s] = "start"
    BY <1>0, <1>7 DEF OpenSet
  <2> QED
    BY <1>7, <2>2, <2>3 DEF OpenSet, driver, worker, chars, WakeInv, ModemBit, Comes, Watched
<1>8. ASSUME NEW r \in Rates, BaudOpen(t, r)
      PROVE  WakeInv'
  <2>1. uart'.ier = uart.ier /\ uart'.cts = uart.cts /\ uart'.dcts = uart.dcts
    BY <1>0, <1>8 DEF BaudOpen, Uarts
  <2>2. \A s \in Tasks : call[s] = "start" => call'[s] = "start"
    BY <1>0, <1>8 DEF BaudOpen
  <2> QED
    BY <1>8, <2>1, <2>2 DEF BaudOpen, worker, chars, WakeInv, ModemBit, Comes, Watched
<1>9. CASE BaudClose(t)
  <2>1. uart'.ier = uart.ier /\ uart'.cts = uart.cts /\ uart'.dcts = uart.dcts
    BY <1>0, <1>9 DEF BaudClose, Uarts
  <2>2. \A s \in Tasks : call[s] = "start" => call'[s] = "start"
    BY <1>0, <1>9 DEF BaudClose
  <2> QED
    BY <1>9, <2>1, <2>2 DEF BaudClose, driver, worker, chars, WakeInv, ModemBit, Comes, Watched
<1>10. CASE KprintfBegin(t)
  <2>1. SetMode("POLL") /\ mode = "INT" /\ UNCHANGED <<opts, txDefer, job, out>>
    BY <1>0, <1>10 DEF KprintfBegin, ModeInv, worker, chars
  <2>2. /\ ModemBit' /\ mode' = "POLL" /\ ier' = ier
        /\ uart'.cts = uart.cts /\ uart'.dcts = uart.dcts
    BY <2>1, SetModeWake DEF WakeInv, ModemBit
  <2>3. \A s \in Tasks : call[s] = "start" => call'[s] = "start"
    BY <1>0, <1>10 DEF KprintfBegin
  <2> QED
    BY <2>1, <2>2, <2>3 DEF WakeInv, Comes, Watched
<1>11. CASE PollOutput(t)
  <2>1. mode = "POLL" /\ mode' = mode
    BY <1>11 DEF PollOutput, ModeInv, driver
  <2>2. LET u == GetMsr(GetLsr(uart))
        IN  u \in Uarts /\ u.ier = uart.ier
    BY <1>0, AccessTypes, BitsTypes, GetFields
  <2>3. uart'.ier = uart.ier
    BY <1>11, <2>2, SetThrFields DEF PollOutput
  <2>4. \A s \in Tasks : call[s] = "start" => call'[s] = "start"
    BY <1>0, <1>11 DEF PollOutput
  <2> QED
    BY <1>11, <2>1, <2>3, <2>4 DEF PollOutput, driver, worker, WakeInv, ModemBit, Comes, Watched
<1>12. CASE KprintfEnd(t)
  <2>1. SetMode("INT") /\ UNCHANGED <<opts, txDefer, job, out>>
    BY <1>12 DEF KprintfEnd, ModeInv, worker, chars
  <2>2. ModemBit'
    BY <2>1, SetModeWake DEF WakeInv, ModemBit
  <2>3. \A s \in Tasks : call[s] = "start" => call'[s] = "start"
    BY <1>0, <1>12 DEF KprintfEnd
  <2>4. CASE opts.clocal
    <3>1. ier' = ier
      BY <2>1, <2>4, SetModeWake DEF WakeInv
    <3> QED
      BY <2>1, <2>2, <2>3, <2>4, <3>1 DEF WakeInv, Comes, Watched
  <2>5. CASE ~opts.clocal
    <3>1. "Tx" \in ier' \/ ~uart'.cts
      BY <2>1, <2>5, SetModeWake DEF WakeInv
    <3> QED
      BY <2>1, <2>2, <2>5, <3>1 DEF WakeInv, Comes, Watched
  <2> QED
    BY <2>4, <2>5
<1> QED
  BY <1>1, <1>2, <1>3, <1>4, <1>5, <1>6, <1>7, <1>8, <1>9, <1>10, <1>11,
     <1>12 DEF Client

\* The interrupt routine, the worker, the line and a stutter keep the discipline of
\* the modes: they change neither the mode nor any call, and only take output.
LEMMA OthersMode ==
  ASSUME TypeOK, ModeInv,
         Isr \/ Worker \/ TxShift \/ RxArrive \/ ModemChange \/ UNCHANGED vars
  PROVE  ModeInv'
<1>0. out \in Nat
  BY DEF TypeOK
<1>1. UNCHANGED <<lock, mode, call, oldMode>>
  <2>1. CASE Isr
    BY <2>1 DEF Isr, IsrEnter, IsrNone, IsrLineStatus, IsrReceive, IsrTransmit,
       IsrModem, IsrAddRd, IsrAddWr, driver, clients
  <2>2. CASE Worker
    BY <2>2 DEF Worker, JobTake, IntRd2, IntWr2Test, IntWr2Get, IntWr2Put,
       driver, clients
  <2>3. CASE TxShift \/ RxArrive \/ ModemChange \/ UNCHANGED vars
    BY <2>3 DEF TxShift, RxArrive, ModemChange, vars, driver, clients
  <2> QED
    BY <2>1, <2>2, <2>3
<1>2. out' = out \/ (out > 0 /\ out' = out - 1)
  <2>1. CASE Isr
    BY <2>1 DEF Isr, IsrEnter, IsrNone, IsrLineStatus, IsrReceive, IsrTransmit,
       IsrModem, IsrAddRd, IsrAddWr, chars
  <2>2. CASE Worker
    BY <2>2 DEF Worker, JobTake, IntRd2, IntWr2Test, IntWr2Get, IntWr2Put, chars
  <2>3. CASE TxShift \/ RxArrive \/ ModemChange \/ UNCHANGED vars
    BY <2>3 DEF TxShift, RxArrive, ModemChange, vars, chars
  <2> QED
    BY <2>1, <2>2, <2>3
<1> QED
  BY <1>0, <1>1, <1>2 DEF ModeInv

\* What a pass that serves the chip u and enables the bits b leaves of the modem.
LEMMA ServeWake ==
  ASSUME NEW u \in Uarts, NEW b \in SUBSET IerBits, Serve(u, b)
  PROVE  ier' = b /\ uart'.ier = b /\ uart'.cts = u.cts /\ uart'.dcts = u.dcts
<1>1. ierInit \in SUBSET IerBits
  BY DEF ierInit
<1>2. SetIer(u, ierInit) \in Uarts
  BY <1>1, AccessTypes
<1>3. ier' = b /\ uart' = SetIer(SetIer(u, ierInit), b)
  BY DEF Serve, Drive
<1> QED
  BY <1>1, <1>2, <1>3, SetIerFields, ModemFields

\* After a pass of the interrupt routine something comes for the waiting output: the
\* transmit interrupt hands it to a job, the modem interrupt to the transmitter or,
\* CTS being off, to the next modem interrupt.
LEMMA IsrWake ==
  ASSUME TypeOK, WakeInv, Isr
  PROVE  WakeInv'
<1>0. /\ uart \in Uarts /\ GetLsr(uart) \in Uarts /\ GetMsr(uart) \in Uarts
      /\ ier \in SUBSET IerBits
      /\ \A x : ier \ {x} \in SUBSET IerBits
      /\ ier \cup {"Tx"} \in SUBSET IerBits
  BY AccessTypes, BitsTypes DEF TypeOK
<1>1. CASE IsrEnter \/ IsrNone \/ IsrAddRd \/ IsrAddWr
  BY <1>1 DEF IsrEnter, IsrNone, IsrAddRd, IsrAddWr, driver, worker, chars, clients,
     WakeInv, ModemBit, Comes, Watched
<1>2. CASE IsrLineStatus
  <2>1. ier' = ier /\ uart'.ier = ier /\ uart'.cts = uart.cts /\ uart'.dcts = uart.dcts
    BY <1>0, <1>2, ServeWake, ModemFields DEF IsrLineStatus
  <2> QED
    BY <1>2, <2>1 DEF IsrLineStatus, worker, chars, clients, WakeInv, ModemBit, Comes,
       Watched
<1>3. CASE IsrReceive
  <2>1. /\ ier' = ier \ {"Rx"} /\ uart'.ier = ier'
        /\ uart'.cts = uart.cts /\ uart'.dcts = uart.dcts
    BY <1>0, <1>3, ServeWake DEF IsrReceive
  <2> QED
    BY <1>3, <2>1 DEF IsrReceive, worker, chars, clients, WakeInv, ModemBit, Comes,
       Watched
<1>4. CASE IsrTransmit
  <2>1. ier' = ier \ {"Tx"} /\ uart'.ier = ier'
    BY <1>0, <1>4, ServeWake DEF IsrTransmit
  <2>2. txDefer' /\ opts' = opts
    BY <1>4 DEF IsrTransmit
  <2> QED
    BY <2>1, <2>2 DEF WakeInv, ModemBit, Comes
<1>5. CASE IsrModem
  <2> DEFINE b == BitsAfterMsr
  <2>1. b \in SUBSET IerBits
    BY <1>0 DEF BitsAfterMsr
  <2>2. Serve(GetMsr(uart), b) /\ UNCHANGED <<opts, mode>>
    BY <1>5 DEF IsrModem
  <2>3. "Ms" \in uart.ier
    BY <1>5 DEF IsrModem, Sources
  <2>4. /\ ier' = b /\ uart'.ier = b /\ uart'.cts = uart.cts
        /\ uart'.dcts = GetMsr(uart).dcts
    <3> HIDE DEF b
    <3> QED
      BY <1>0, <2>1, <2>2, ServeWake, ModemFields
  <2>5. "Ms" \in ier /\ ~opts.clocal
    BY <2>3 DEF WakeInv, ModemBit
  <2>6. ModemBit'
    BY <2>2, <2>4, <2>5 DEF ModemBit, BitsAfterMsr
  <2>7. CASE uart.dcts /\ uart.cts
    BY <2>4, <2>6, <2>7 DEF WakeInv, Comes, BitsAfterMsr
  <2>8. CASE uart.dcts /\ ~uart.cts
    BY <2>2, <2>4, <2>5, <2>6, <2>8 DEF WakeInv, Watched
  <2>9. CASE ~uart.dcts
    <3>1. b = ier /\ ~GetMsr(uart).dcts
      BY <1>0, <2>9 DEF BitsAfterMsr, GetMsr, Uarts
    <3>2. ier' = ier /\ uart'.ier = ier /\ uart'.cts = uart.cts /\ uart'.dcts = uart.dcts
      <4>1. uart.dcts \in BOOLEAN /\ GetMsr(uart).dcts \in BOOLEAN
        BY <1>0 DEF Uarts
      <4> QED
        BY <2>4, <2>9, <3>1, <4>1
    <3>3. UNCHANGED <<txDefer, worker, chars, clients>>
      BY <1>5 DEF IsrModem
    <3> QED
      BY <2>2, <3>2, <3>3 DEF worker, chars, clients, WakeInv, ModemBit, Comes, Watched
  <2> QED
    BY <2>7, <2>8, <2>9
<1> QED
  BY <1>1, <1>2, <1>3, <1>4, <1>5 DEF Isr

\* The worker leaves the output only where the buffer is empty or the transmit
\* interrupt will call it again.
LEMMA WorkerWake ==
  ASSUME TypeOK, WakeInv, Worker
  PROVE  WakeInv'
<1> USE DEF Access, Drive
<1>0. /\ uart \in Uarts /\ GetLsr(uart) \in Uarts
      /\ RearmRx \in SUBSET IerBits /\ RearmTx \in SUBSET IerBits
      /\ out \in Nat
  BY AccessTypes, BitsTypes DEF TypeOK
<1>1. CASE JobTake
  BY <1>1 DEF JobTake, driver, chars, clients, WakeInv, ModemBit, Comes, Watched
<1>2. CASE IntRd2
  <2>1. \/ ier' = ier /\ uart'.ier = uart.ier /\ job' = job
        \/ ier' = RearmRx /\ uart'.ier = RearmRx /\ job' = "idle"
    <3>1. CASE uart' = [GetLsr(uart) EXCEPT !.rbr = @ - 1] /\ UNCHANGED <<ier, job>>
      <4>1. uart'.ier = GetLsr(uart).ier
        BY <1>0, <3>1 DEF Uarts
      <4> QED
        BY <1>0, <3>1, <4>1, GetFields
    <3>2. CASE /\ ier' = RearmRx /\ uart' = SetIer(GetLsr(uart), RearmRx)
               /\ job' = "idle"
      BY <1>0, <3>2, SetIerFields
    <3> QED
      BY <1>2, <3>1, <3>2 DEF IntRd2
  <2>2. uart'.cts = uart.cts /\ uart'.dcts = uart.dcts
    <3>1. CASE uart' = [GetLsr(uart) EXCEPT !.rbr = @ - 1]
      <4>1. uart'.cts = GetLsr(uart).cts /\ uart'.dcts = GetLsr(uart).dcts
        BY <1>0, <3>1 DEF Uarts
      <4> QED
        BY <1>0, <4>1, ModemFields, BitsTypes
    <3>2. CASE uart' = SetIer(GetLsr(uart), RearmRx)
      BY <1>0, <3>2, ModemFields
    <3> QED
      BY <1>2, <3>1, <3>2 DEF IntRd2
  <2>3. /\ job = "rd" /\ UNCHANGED <<mode, opts, txDefer, out, call>>
    BY <1>2 DEF IntRd2, chars, clients
  <2>4. ("Tx" \in ier => "Tx" \in ier') /\ ("Ms" \in ier' <=> "Ms" \in ier)
    BY <2>1 DEF RearmRx
  <2>5. ModemBit'
    BY <2>1, <2>3, <2>4 DEF WakeInv, ModemBit
  <2> QED
    BY <2>2, <2>3, <2>4, <2>5 DEF WakeInv, Comes, Watched
<1>3. CASE IntWr2Test
  <2>1. \/ ier' = ier /\ uart' = GetLsr(uart) /\ job' = "wrGet"
        \/ ier' = RearmTx /\ uart' = SetIer(GetLsr(uart), RearmTx)
    BY <1>3 DEF IntWr2Test
  <2>2. uart'.ier = uart.ier \/ uart'.ier = ier'
    BY <1>0, <2>1, GetFields, SetIerFields
  <2>3. "Ms" \in ier' <=> "Ms" \in ier
    BY <2>1 DEF RearmTx
  <2>4. opts' = opts
    BY <1>3 DEF IntWr2Test
  <2>5. Comes'
    BY <2>1 DEF Comes, RearmTx
  <2> QED
    BY <2>2, <2>3, <2>4, <2>5 DEF WakeInv, ModemBit
<1>4. CASE IntWr2Get
  <2>1. UNCHANGED <<ier, mode, opts, uart>>
    BY <1>4 DEF IntWr2Get, driver
  <2>2. job' = "wrPut" \/ (out = 0 /\ out' = out)
    BY <1>4 DEF IntWr2Get
  <2> QED
    BY <1>0, <2>1, <2>2 DEF WakeInv, ModemBit, Comes
<1>5. CASE IntWr2Put
  <2>1. uart' = SetThr(uart) /\ UNCHANGED <<ier, opts>> /\ job' \in {"wrLoop", "wrGet"}
    BY <1>5 DEF IntWr2Put, driver
  <2>2. uart'.ier = uart.ier
    BY <1>0, <2>1, SetThrFields
  <2> QED
    BY <2>1, <2>2 DEF WakeInv, ModemBit, Comes
<1> QED
  BY <1>1, <1>2, <1>3, <1>4, <1>5 DEF Worker

\* A change of CTS is recorded in MSR, where the modem interrupt finds it.
LEMMA LineWake ==
  ASSUME TypeOK, WakeInv, TxShift \/ RxArrive \/ ModemChange \/ UNCHANGED vars
  PROVE  WakeInv'
<1> USE DEF Access, Drive
<1>0. uart \in Uarts
  BY DEF TypeOK
<1>1. CASE TxShift
  <2>1. uart'.ier = uart.ier /\ uart'.cts = uart.cts /\ uart'.dcts = uart.dcts
    BY <1>0, <1>1 DEF TxShift, Uarts
  <2> QED
    BY <1>1, <2>1 DEF TxShift, driver, worker, clients, WakeInv, ModemBit, Comes, Watched
<1>2. CASE RxArrive
  <2>1. uart'.ier = uart.ier /\ uart'.cts = uart.cts /\ uart'.dcts = uart.dcts
    BY <1>0, <1>2 DEF RxArrive, Uarts
  <2> QED
    BY <1>2, <2>1 DEF RxArrive, driver, worker, chars, WakeInv, ModemBit, Comes, Watched
<1>3. CASE ModemChange
  <2>1. /\ uart'.ier = uart.ier
        /\ uart'.dcts \/ (uart'.cts = uart.cts /\ uart'.dcts = uart.dcts)
    BY <1>0, <1>3 DEF ModemChange, Uarts
  <2> QED
    BY <1>3, <2>1 DEF ModemChange, driver, worker, chars, WakeInv, ModemBit, Comes, Watched
<1>4. CASE UNCHANGED vars
  BY <1>4 DEF vars, driver, worker, chars, clients, WakeInv, ModemBit, Comes, Watched
<1> QED
  BY <1>1, <1>2, <1>3, <1>4

\* If nobody but the tty layer's attachment and kprintf switches the mode, output
\* waiting in interrupt mode always has something that will come for it: no order of
\* TxStartup, the transmit and modem interrupts, the job and a change of CTS strands it.
THEOREM WakeupKept ==
  ASSUME OneMode
  PROVE  Spec => []TxWakeup
<1>1. Init => ModeInv /\ WakeInv
  BY DEF Init, ModeInv, WakeInv, ModemBit, ierInit
<1>2. TypeOK /\ LockExclusive /\ ModeInv /\ WakeInv /\ [Next]_vars
        => ModeInv' /\ WakeInv'
  <2> SUFFICES ASSUME TypeOK, LockExclusive, ModeInv, WakeInv, [Next]_vars
               PROVE  ModeInv' /\ WakeInv'
    OBVIOUS
  <2>1. ASSUME NEW t \in Tasks, Client(t) PROVE ModeInv' /\ WakeInv'
    BY <2>1, OneMode, ClientMode, ClientWake
  <2>2. CASE Isr
    BY <2>2, OthersMode, IsrWake
  <2>3. CASE Worker
    BY <2>3, OthersMode, WorkerWake
  <2>4. CASE TxShift \/ RxArrive \/ ModemChange \/ UNCHANGED vars
    BY <2>4, OthersMode, LineWake
  <2> QED
    BY <2>1, <2>2, <2>3, <2>4 DEF Next
<1>3. WakeInv => TxWakeup
  BY DEF WakeInv, ModemBit, Comes, Watched, TxWakeup
<1> QED
  BY <1>1, <1>2, <1>3, TypeCorrect, Mutex, PTL DEF Spec
=============================================================================
