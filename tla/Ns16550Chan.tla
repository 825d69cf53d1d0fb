----------------------------- MODULE Ns16550Chan -----------------------------
(***************************************************************************)
(* One channel of the NS16550 serial driver (vxbNs16550Sio.c): the calls   *)
(* tasks make on it, its interrupt service routine, the two jobs the       *)
(* routine defers to a worker task, and the UART they all share.           *)
(*                                                                         *)
(* Everything the driver does between taking and giving the channel's      *)
(* spinlock is one step, with one exception that is a step boundary: a     *)
(* lock held across calls (SIO_DEV_LOCK) or across the DLAB window of      *)
(* ns16550vxbBaudSet.  What it does without the lock (the character        *)
(* callbacks, isrDeferJobAdd, the MCR read of ns16550vxbOpen) are steps of *)
(* their own.  The UART itself moves between any two steps.                *)
(***************************************************************************)
EXTENDS Integers, FiniteSets

CONSTANTS
  Tasks,      \* the client tasks of the channel
  NoOne,      \* "no owner" of the spinlock, "no rate" in the divisor
  Rates,      \* the baud rates SIO_BAUD_SET is called with
  FifoSize,   \* depth of the transmit FIFO, pChan->fifoSize
  Calls,      \* which ioctl clients exist besides writers, a subset of CallKinds
  IerBoot,    \* interrupt enable bits the boot firmware left set
  MaxChars,   \* bound: characters the clients output
  MaxRx,      \* bound: characters and line errors received
  MaxModem,   \* bound: changes of CTS and the other modem lines
  MaxCalls    \* bound: ioctl calls

CallKinds == {"opts", "mode", "hup", "baud", "kprintf"}
IerBits   == {"Rx", "Tx", "Ls", "Ms"}   \* IER_ERDAI, _ETHREI, _ELSI, _EMSI

ASSUME ChanAssumption ==
  /\ NoOne \notin Tasks
  /\ NoOne \notin Rates
  /\ Rates # {}
  /\ FifoSize \in Nat \ {0}
  /\ Calls \subseteq CallKinds
  /\ IerBoot \subseteq IerBits
  /\ MaxChars \in Nat
  /\ MaxRx \in Nat
  /\ MaxModem \in Nat
  /\ MaxCalls \in Nat

VARIABLES
  ier,        \* pChan->ier, the driver's copy of the enable register
  mode,       \* pChan->channelMode: "undef" (0), "POLL" or "INT"
  opts,       \* pChan->options, as far as the driver's control depends on it
  txDefer,    \* pChan->txDefer
  baud,       \* pChan->baudRate
  lock,       \* owner of pChan->spinlockIsr between steps, or NoOne
  uart,       \* the chip's registers
  irq,        \* the interrupt controller has latched a rising edge
  isr,        \* where ns16550vxbInt is
  passes,     \* its count
  rdJobs,     \* times isrDefRd sits in the deferred-work queue
  wrJobs,     \* times isrDefWr sits in the deferred-work queue
  job,        \* where the worker task is in ns16550vxbIntRd2 or IntWr2
  room,       \* FifoSize minus the loop counter i of ns16550vxbIntWr2
  out,        \* characters the tty layer holds for getTxChar
  wire,       \* characters the transmitter has shifted out
  lost,       \* characters written to a full transmitter
  call,       \* where each client task is in its call
  oldMode,    \* the mode kprintf found, to be restored
  left        \* what the environment may still do

driver == <<ier, mode, opts, txDefer, baud>>
queues == <<rdJobs, wrJobs>>
worker == <<job, room>>
isrVars == <<isr, passes>>
chars  == <<out, wire, lost>>
clients == <<call, oldMode, left>>
vars == <<driver, lock, uart, irq, isrVars, queues, worker, chars, clients>>

-----------------------------------------------------------------------------
(* The UART.  A register access is an operator from register contents to   *)
(* register contents.                                                      *)

\* hwconf.c gives the device no ierInit resource: all interrupts off.
ierInit == {}

NS16550_INT_COUNT == 2

\* The enabled interrupt conditions of the chip, all levels but the
\* transmitter's, which reading IIR clears.
Sources(u) ==
  {s \in u.ier : \/ s = "Ls" /\ u.lerr
                 \/ s = "Rx" /\ u.rbr > 0
                 \/ s = "Tx" /\ u.thri
                 \/ s = "Ms" /\ (u.dcts \/ u.dmsr)}

Line(u) == Sources(u) # {}

\* Turning the transmitter interrupt on raises it if the transmitter is empty.
SetIer(u, bits) ==
  [u EXCEPT !.ier  = bits,
            !.thri = /\ "Tx" \in bits
                     /\ IF "Tx" \in u.ier THEN u.thri ELSE u.thr = 0]

\* Reading LSR resets the line errors, reading MSR the record of changes of CTS
\* and of DSR, RI and DCD.
GetLsr(u) == [u EXCEPT !.lerr = FALSE]
GetMsr(u) == [u EXCEPT !.dcts = FALSE, !.dmsr = FALSE]

THRE(u) == u.thr = 0
Depth(u) == IF u.fifo THEN FifoSize ELSE 1

\* A character written while DLAB is set goes to the divisor latch; one
\* written to a full transmitter is lost.
SetThr(u) ==
  [u EXCEPT !.div  = IF u.dlab THEN NoOne ELSE @,
            !.thr  = IF ~u.dlab /\ @ < Depth(u) THEN @ + 1 ELSE @,
            !.thri = @ /\ u.dlab]
Overrun(u) == u.dlab \/ u.thr >= Depth(u)

\* Writing FCR with RxCLEAR and TxCLEAR, then LSR, and RBR if LSR says so.
ResetFifo(u, enable) ==
  [u EXCEPT !.fifo = enable, !.thr = 0, !.rbr = 0, !.lerr = FALSE,
            !.thri = "Tx" \in u.ier /\ (@ \/ u.thr > 0)]

\* The chip goes from uart through via to end: an edge is latched where the
\* interrupt line rises.
Drive(via, end) ==
  /\ uart' = end
  /\ irq' = \/ irq
            \/ ~Line(uart) /\ Line(via)
            \/ ~Line(via) /\ Line(end)
Access(end) == Drive(end, end)

NotLocked == TRUE
Locked == lock = NoOne      \* the step takes and gives the spinlock
Free(t) == call[t] = "idle"
Goto(t, l) == call' = [call EXCEPT ![t] = l]
Spend(kind) == /\ left[kind] > 0
               /\ left' = [left EXCEPT ![kind] = @ - 1]
MayCall(t, kind) == Free(t) /\ kind \in Calls /\ mode # "undef"
Ioctl(t, kind) == MayCall(t, kind) /\ Spend("calls")
-----------------------------------------------------------------------------
(* The device after ns16550vxbDevInit: CLOCAL | CREAD, quiescent.          *)

Init ==
  /\ ier = (IerBoot \ {"Ms"}) \cup {"Rx"}
  /\ mode = "undef"
  /\ opts = [clocal |-> TRUE, cread |-> TRUE, hupcl |-> FALSE]
  /\ txDefer = FALSE
  /\ baud \in Rates
  /\ lock = NoOne
  /\ uart = [ier |-> ierInit, thr |-> 0, thri |-> FALSE, rbr |-> 0,
             lerr |-> FALSE, cts |-> TRUE, dcts |-> FALSE, dmsr |-> FALSE,
             rts |-> FALSE, fifo |-> TRUE, dlab |-> FALSE, div |-> baud]
  /\ irq = FALSE
  /\ isr = "idle" /\ passes = 0
  /\ rdJobs = 0 /\ wrJobs = 0
  /\ job = "idle" /\ room = 0
  /\ out = 0 /\ wire = 0 /\ lost = 0
  /\ call = [t \in Tasks |-> "idle"]
  /\ oldMode = "undef"
  /\ left = [chars |-> MaxChars, rx |-> MaxRx, modem |-> MaxModem,
             calls |-> MaxCalls]
-----------------------------------------------------------------------------
(* Client calls.                                                           *)

\* The tty layer has a character to send; ns16550vxbTxStartup follows.
Write(t) ==
  /\ Free(t)
  /\ mode # "undef"
  /\ Spend("chars")
  /\ out' = out + 1
  /\ Goto(t, "start")
  /\ UNCHANGED <<driver, lock, uart, irq, isrVars, queues, worker,
                 wire, lost, oldMode>>

\* The transmit bit TxStartup leaves in pChan->ier.
StartBitsCtsOnly ==
  IF uart.cts
  THEN IF txDefer THEN ier ELSE ier \cup {"Tx"}
  ELSE ier \ {"Tx"}

StartBits ==
  IF opts.clocal \/ uart.cts
  THEN IF txDefer THEN ier ELSE ier \cup {"Tx"}
  ELSE ier \ {"Tx"}

\* In polled mode the call returns ENOSYS.
TxStartup(t) ==
  /\ call[t] = "start"
  /\ Locked
  /\ IF mode = "INT"
     THEN /\ ier' = StartBits
          /\ LET u == IF opts.clocal THEN uart ELSE GetMsr(uart)
             IN  Drive(u, SetIer(u, StartBits))
     ELSE UNCHANGED <<ier, uart, irq>>
  /\ Goto(t, "idle")
  /\ UNCHANGED <<mode, opts, txDefer, baud, lock, isrVars, queues, worker,
                 chars, oldMode, left>>

\* The body of ns16550vxbModeSet, the lock being free or the caller's.  With
\* CLOCAL the enabled bits go to the chip only.
SetMode(m) ==
  LET u   == GetMsr(uart)
      new == IF uart.cts THEN ier \cup {"Tx"} ELSE ier \ {"Tx"}
  IN  /\ mode' = m
      /\ \/ /\ m = "INT" /\ opts.clocal
            /\ Access(SetIer(uart, ier \cup {"Rx", "Tx"}))
            /\ UNCHANGED ier
         \/ /\ m = "INT" /\ ~opts.clocal
            /\ ier' = new
            /\ Drive(u, SetIer(u, new))
         \/ /\ m = "POLL"
            /\ Access(SetIer(uart, ierInit))
            /\ UNCHANGED ier

\* ioctl (SIO_MODE_SET): the tty layer attaches the channel in interrupt
\* mode before it is used; later any client may switch it.
ModeSet(t, m) ==
  /\ \/ mode = "undef" /\ m = "INT" /\ Free(t) /\ UNCHANGED left
     \/ Ioctl(t, "mode")
  /\ Locked
  /\ SetMode(m)
  /\ UNCHANGED <<opts, txDefer, baud, lock, isrVars, queues, worker, chars,
                 call, oldMode>>

\* The bits OptsSet leaves in pChan->ier for options o.
OptsBits(o) ==
  ((IF o.clocal THEN ier \ {"Ms"} ELSE (ier \ {"Tx"}) \cup {"Ms"})
     \ {"Rx"}) \cup (IF o.cread THEN {"Rx"} ELSE {})

\* ioctl (SIO_HW_OPTS_SET).  The call disables the transmitter and "the
\* calling routine may have to re-enable it": it calls TxStartup next.  HUPCL
\* matters to a later hang-up only.
OptsSet(t, o) ==
  /\ Ioctl(t, "opts")
  /\ o.hupcl => "hup" \in Calls
  /\ Locked
  /\ LET off == SetIer(uart, ierInit)
         u   == [ResetFifo(off, TRUE) EXCEPT !.rts = ~o.clocal]
     IN  Drive(off, IF mode = "INT" THEN SetIer(u, OptsBits(o)) ELSE u)
  /\ ier' = OptsBits(o)
  /\ opts' = o
  /\ Goto(t, "start")
  /\ UNCHANGED <<mode, txDefer, baud, lock, isrVars, queues, worker, chars,
                 oldMode>>

\* ioctl (SIO_HUP), on the last close: drops RTS and DTR, clears the FIFOs
\* and, with no FIFO_ENABLE in the value written, turns them off.
Hup(t) ==
  /\ Ioctl(t, "hup")
  /\ Locked
  /\ IF opts.hupcl
     THEN Access(ResetFifo([uart EXCEPT !.rts = FALSE], FALSE))
     ELSE UNCHANGED <<uart, irq>>
  /\ UNCHANGED <<driver, lock, isrVars, queues, worker, chars, call, oldMode>>

\* ioctl (SIO_OPEN), on the first open: MCR is read before the lock is taken.
OpenCheck(t) ==
  /\ Ioctl(t, "hup")
  /\ opts.hupcl
  /\ Goto(t, IF uart.rts THEN "idle" ELSE "open")
  /\ UNCHANGED <<driver, lock, uart, irq, isrVars, queues, worker, chars,
                 oldMode>>

OpenSet(t) ==
  /\ call[t] = "open"
  /\ Locked
  /\ Access(ResetFifo([uart EXCEPT !.rts = TRUE], TRUE))
  /\ Goto(t, "idle")
  /\ UNCHANGED <<driver, lock, isrVars, queues, worker, chars, oldMode, left>>

\* ioctl (SIO_BAUD_SET): takes the lock, opens DLAB and writes the latches...
BaudOpen(t, r) ==
  /\ Ioctl(t, "baud")
  /\ Locked
  /\ lock' = t
  /\ Access([uart EXCEPT !.dlab = TRUE, !.div = r])
  /\ baud' = r
  /\ Goto(t, "baud")
  /\ UNCHANGED <<ier, mode, opts, txDefer, isrVars, queues, worker, chars,
                 oldMode>>

\* ... restores LCR and gives the lock.
BaudClose(t) ==
  /\ call[t] = "baud"
  /\ lock = t
  /\ lock' = NoOne
  /\ Access([uart EXCEPT !.dlab = FALSE])
  /\ Goto(t, "idle")
  /\ UNCHANGED <<driver, isrVars, queues, worker, chars, oldMode, left>>

\* kprintf of one character: SIO_DEV_LOCK, SIO_MODE_GET and SIO_MODE_SET
\* (SIO_MODE_POLL)...
KprintfBegin(t) ==
  /\ Ioctl(t, "kprintf")
  /\ Locked
  /\ lock' = t
  /\ oldMode' = mode
  /\ SetMode("POLL")
  /\ Goto(t, "poll")
  /\ UNCHANGED <<opts, txDefer, baud, isrVars, queues, worker, chars>>

\* ... ns16550vxbPollOutput until it accepts the character...
PollReady == THRE(uart) /\ (opts.clocal \/ uart.cts)

PollOutput(t) ==
  /\ call[t] = "poll"
  /\ LET u == GetMsr(GetLsr(uart)) IN
     \/ /\ PollReady
        /\ Drive(u, SetThr(u))
        /\ lost' = IF Overrun(uart) THEN lost + 1 ELSE lost
        /\ Goto(t, "polled")
     \/ /\ ~PollReady               \* EAGAIN: the two reads are all it does
        /\ Access(u)
        /\ UNCHANGED <<lost, call>>
  /\ UNCHANGED <<driver, lock, isrVars, queues, worker, out, wire, oldMode,
                 left>>

\* ... then SIO_MODE_SET with the old mode and SIO_DEV_UNLOCK.
KprintfEnd(t) ==
  /\ call[t] = "polled"
  /\ SetMode(oldMode)
  /\ lock' = NoOne
  /\ Goto(t, "idle")
  /\ UNCHANGED <<opts, txDefer, baud, isrVars, queues, worker, chars, oldMode,
                 left>>
-----------------------------------------------------------------------------
(* ns16550vxbInt.                                                          *)

\* The controller delivers the latched interrupt.
IsrEnter ==
  /\ irq /\ isr = "idle"
  /\ irq' = FALSE
  /\ isr' = "pass"
  /\ passes' = NS16550_INT_COUNT
  /\ UNCHANGED <<driver, lock, uart, queues, worker, chars, clients>>

\* The end of a pass over a PLB channel: count-- and the loop test.
NextPass == /\ passes' = passes - 1
            /\ isr' = IF passes = 1 THEN "idle" ELSE "pass"

\* A pass over a pending channel: IIR has been read, all interrupts are off,
\* the cause is served, giving u, and the bits b are enabled again.
ServeEnabled(u, b) ==
  /\ ier' = b
  /\ Access(SetIer(u, b))

ServeNoEnable(u, b) ==
  /\ ier' = b
  /\ Access(SetIer(u, ierInit))

Serve(u, b) ==
  /\ ier' = b
  /\ Drive(SetIer(uart, ierInit), SetIer(SetIer(u, ierInit), b))

InPass == isr = "pass" /\ Locked

IsrNone ==
  /\ InPass
  /\ Sources(uart) = {}
  /\ NextPass
  /\ UNCHANGED <<driver, lock, uart, irq, queues, worker, chars, clients>>

IsrLineStatus ==
  /\ InPass
  /\ "Ls" \in Sources(uart)
  /\ Serve(GetLsr(uart), ier)
  /\ NextPass
  /\ UNCHANGED <<mode, opts, txDefer, baud, lock, queues, worker, chars,
                 clients>>

\* Received data: receive interrupts stay off until ns16550vxbIntRd2 has run.
IsrReceive ==
  /\ InPass
  /\ "Rx" \in Sources(uart)
  /\ "Ls" \notin Sources(uart)
  /\ Serve(uart, ier \ {"Rx"})
  /\ isr' = "addRd"
  /\ UNCHANGED <<mode, opts, txDefer, baud, lock, passes, queues, worker,
                 chars, clients>>

\* if (!pChan->txDefer)
DeferAlways == TRUE
MustDefer == ~txDefer

\* Transmitter empty: a job is deferred unless one is outstanding.
IsrTransmit ==
  /\ InPass
  /\ "Tx" \in Sources(uart)
  /\ Sources(uart) \subseteq {"Tx", "Ms"}
  /\ Serve(uart, ier \ {"Tx"})
  /\ txDefer' = TRUE
  /\ IF MustDefer THEN isr' = "addWr" /\ UNCHANGED passes ELSE NextPass
  /\ UNCHANGED <<mode, opts, baud, lock, queues, worker, chars, clients>>

\* if (msr & MSR_DCTS): of the modem lines only CTS turns the transmitter
\* interrupt on or off; before SPR 74889 any other turned it off.
BitsAfterMsrUnfixed ==
  IF uart.dcts /\ uart.cts THEN ier \cup {"Tx"} ELSE ier \ {"Tx"}

BitsAfterMsr ==
  IF ~uart.dcts THEN ier
  ELSE IF uart.cts THEN ier \cup {"Tx"} ELSE ier \ {"Tx"}

IsrModem ==
  /\ InPass
  /\ Sources(uart) = {"Ms"}
  /\ Serve(GetMsr(uart), BitsAfterMsr)
  /\ NextPass
  /\ UNCHANGED <<mode, opts, txDefer, baud, lock, queues, worker, chars,
                 clients>>

\* isrDeferJobAdd, called with the spinlock given.
IsrAddRd ==
  /\ isr = "addRd"
  /\ rdJobs' = rdJobs + 1
  /\ NextPass
  /\ UNCHANGED <<driver, lock, uart, irq, wrJobs, worker, chars, clients>>

IsrAddWr ==
  /\ isr = "addWr"
  /\ wrJobs' = wrJobs + 1
  /\ NextPass
  /\ UNCHANGED <<driver, lock, uart, irq, rdJobs, worker, chars, clients>>
-----------------------------------------------------------------------------
(* The worker task of the deferred-work queue, ns16550vxbIntRd2 and        *)
(* ns16550vxbIntWr2.                                                       *)

JobTake ==
  /\ job = "idle"
  /\ \/ rdJobs > 0 /\ rdJobs' = rdJobs - 1 /\ job' = "rd" /\ UNCHANGED wrJobs
     \/ wrJobs > 0 /\ wrJobs' = wrJobs - 1 /\ job' = "wr" /\ UNCHANGED rdJobs
  /\ UNCHANGED <<driver, lock, uart, irq, isrVars, room, chars, clients>>

\* The bits IntRd2 enables when the FIFO is empty, "to enable Rx Int".
RxNotRearmed == ier
RearmRx == ier \cup {"Rx"}

\* One turn of IntRd2's loop: take a character out of the FIFO (and hand it
\* to putRcvChar), or enable the receive interrupt and return.
IntRd2 ==
  /\ job = "rd"
  /\ Locked
  /\ \/ /\ uart.rbr > 0
        /\ Access([GetLsr(uart) EXCEPT !.rbr = @ - 1])
        /\ UNCHANGED <<ier, job>>
     \/ /\ uart.rbr = 0
        /\ ier' = RearmRx
        /\ LET u == GetLsr(uart) IN Drive(u, SetIer(u, RearmRx))
        /\ job' = "idle"
  /\ UNCHANGED <<mode, opts, txDefer, baud, lock, isrVars, queues, room, chars,
                 clients>>

\* The bound of IntWr2's loop over i, and the bits it enables to be called again.
BurstTooLong == FifoSize + 1
BurstLength == FifoSize

RearmTx == ier \cup {"Tx"}

\* The head of IntWr2's loop, reached from its entry ("wr", where txDefer is
\* cleared under the same hold of the lock) or after a full burst ("wrLoop").
IntWr2Test ==
  /\ job \in {"wr", "wrLoop"}
  /\ Locked
  /\ txDefer' = IF job = "wr" THEN FALSE ELSE txDefer
  /\ \/ /\ THRE(uart)
        /\ job' = "wrGet"
        /\ room' = BurstLength
        /\ Access(GetLsr(uart))
        /\ UNCHANGED ier
     \/ /\ ~THRE(uart)
        /\ ier' = RearmTx
        /\ LET u == GetLsr(uart) IN Drive(u, SetIer(u, RearmTx))
        /\ job' = "idle"
        /\ UNCHANGED room
  /\ UNCHANGED <<mode, opts, baud, lock, isrVars, queues, chars, clients>>

\* getTxChar, without the lock: a character to send, or return.
IntWr2Get ==
  /\ job = "wrGet"
  /\ \/ out > 0 /\ out' = out - 1 /\ job' = "wrPut"
     \/ out = 0 /\ job' = "idle" /\ UNCHANGED out
  /\ UNCHANGED <<driver, lock, uart, irq, isrVars, queues, room, wire, lost,
                 clients>>

\* The character goes to THR under the lock.
IntWr2PutUnlocked ==
  /\ job = "wrPut"
  /\ Access(SetThr(uart))
  /\ lost' = IF Overrun(uart) THEN lost + 1 ELSE lost
  /\ room' = room - 1
  /\ job' = IF room = 1 THEN "wrLoop" ELSE "wrGet"
  /\ UNCHANGED <<driver, lock, isrVars, queues, out, wire, clients>>

IntWr2Put ==
  /\ job = "wrPut"
  /\ Locked
  /\ Access(SetThr(uart))
  /\ lost' = IF Overrun(uart) THEN lost + 1 ELSE lost
  /\ room' = room - 1
  /\ job' = IF room = 1 THEN "wrLoop" ELSE "wrGet"
  /\ UNCHANGED <<driver, lock, isrVars, queues, out, wire, clients>>
-----------------------------------------------------------------------------
(* The line.                                                               *)

TxShift ==
  /\ uart.thr > 0
  /\ Access([uart EXCEPT !.thr = @ - 1,
                         !.thri = @ \/ ("Tx" \in uart.ier /\ uart.thr = 1)])
  /\ wire' = wire + 1
  /\ UNCHANGED <<driver, lock, isrVars, queues, worker, out, lost, clients>>

RxArrive ==
  /\ Spend("rx")
  /\ \/ Access([uart EXCEPT !.rbr = @ + 1])
     \/ Access([uart EXCEPT !.lerr = TRUE])
  /\ UNCHANGED <<driver, lock, isrVars, queues, worker, chars, call, oldMode>>

ModemChange ==
  /\ Spend("modem")
  /\ \/ Access([uart EXCEPT !.cts = ~@, !.dcts = TRUE])
     \/ Access([uart EXCEPT !.dmsr = TRUE])
  /\ UNCHANGED <<driver, lock, isrVars, queues, worker, chars, call, oldMode>>
-----------------------------------------------------------------------------
Options == [clocal : BOOLEAN, cread : BOOLEAN, hupcl : BOOLEAN]

Client(t) ==
  \/ Write(t) \/ TxStartup(t)
  \/ \E m \in {"INT", "POLL"} : ModeSet(t, m)
  \/ \E o \in Options : OptsSet(t, o)
  \/ Hup(t) \/ OpenCheck(t) \/ OpenSet(t)
  \/ \E r \in Rates : BaudOpen(t, r)
  \/ BaudClose(t)
  \/ KprintfBegin(t) \/ PollOutput(t) \/ KprintfEnd(t)

Isr == \/ IsrEnter \/ IsrNone \/ IsrLineStatus \/ IsrReceive
       \/ IsrTransmit \/ IsrModem \/ IsrAddRd \/ IsrAddWr

Worker == JobTake \/ IntRd2 \/ IntWr2Test \/ IntWr2Get \/ IntWr2Put

Next == \/ \E t \in Tasks : Client(t)
        \/ Isr \/ Worker
        \/ TxShift \/ RxArrive \/ ModemChange

Spec == Init /\ [][Next]_vars

\* A task inside a call finishes it, the controller delivers what it latched,
\* the routine and the worker run, the transmitter shifts.  Nothing obliges a
\* client to start a call or the line to receive or a modem line to change.
Fairness ==
  /\ \A t \in Tasks : WF_vars(\/ TxStartup(t) \/ OpenSet(t) \/ BaudClose(t)
                             \/ PollOutput(t) \/ KprintfEnd(t))
  /\ WF_vars(Isr) /\ WF_vars(Worker) /\ WF_vars(TxShift)

FairSpec == Spec /\ Fairness
-----------------------------------------------------------------------------
(* Properties.                                                             *)

Uarts ==
  [ier : SUBSET IerBits, thr : 0..FifoSize, thri : BOOLEAN, rbr : Nat,
   lerr : BOOLEAN, cts : BOOLEAN, dcts : BOOLEAN, dmsr : BOOLEAN, rts : BOOLEAN,
   fifo : BOOLEAN, dlab : BOOLEAN, div : Rates \cup {NoOne}]

\* The variables stay in their ranges; in particular the chip's transmit
\* FIFO never holds more than it can.
TypeOK ==
  /\ ier \subseteq IerBits
  /\ mode \in {"undef", "POLL", "INT"}
  /\ opts \in Options
  /\ txDefer \in BOOLEAN
  /\ baud \in Rates
  /\ lock \in Tasks \cup {NoOne}
  /\ uart \in Uarts
  /\ irq \in BOOLEAN
  /\ isr \in {"idle", "pass", "addRd", "addWr"}
  /\ passes \in 0..NS16550_INT_COUNT
  /\ isr = "idle" <=> passes = 0
  /\ rdJobs \in Nat /\ wrJobs \in Nat
  /\ job \in {"idle", "rd", "wr", "wrLoop", "wrGet", "wrPut"}
  /\ room \in 0..FifoSize
  /\ job \in {"wrGet", "wrPut"} => room > 0
  /\ out \in Nat /\ wire \in Nat /\ lost \in Nat
  /\ call \in [Tasks -> {"idle", "start", "open", "baud", "poll", "polled"}]
  /\ oldMode \in {"undef", "POLL", "INT"}
  /\ left \in [chars : Nat, rx : Nat, modem : Nat, calls : Nat]

\* The lock is held between steps exactly by a task in the DLAB window of
\* BaudSet or between kprintf's SIO_DEV_LOCK and SIO_DEV_UNLOCK, so no two
\* tasks are ever there together.
LockExclusive ==
  \A t \in Tasks : call[t] \in {"baud", "poll", "polled"} <=> lock = t

\* "The maximum required job queue number for transmit is one" (lines
\* 2689-2696): txDefer counts exactly the transmit jobs between the moment
\* the interrupt routine decides on one and the moment the worker starts it.
OneTxJob ==
  (IF isr = "addWr" THEN 1 ELSE 0) + wrJobs + (IF job = "wr" THEN 1 ELSE 0)
    = IF txDefer THEN 1 ELSE 0

\* The edge-triggered input of the interrupt controller never locks up (lines
\* 2847-2855): while the chip asserts its line, an edge is latched or the
\* routine has yet to make the first pass it was entered for.
EdgeNotLost ==
  Line(uart) => irq \/ (isr = "pass" /\ passes = NS16550_INT_COUNT)

\* In interrupt mode every interrupt the driver's copy of IER has enabled is
\* enabled in the chip, whichever of the eight writers came last.
IerShadow == mode = "INT" => ier \subseteq uart.ier

\* Outside the DLAB window the divisor latch holds the channel's rate: no
\* character has gone into it in place of the transmitter.
DivisorIntact == lock = NoOne => ~uart.dlab /\ uart.div = baud

\* Output waiting in interrupt mode has something that will come for it: a
\* client about to call TxStartup, the worker, an enabled transmit interrupt
\* or, under flow control, a modem interrupt that a CTS change will raise.
TxWakeup ==
  mode = "INT" /\ out > 0 =>
    \/ \E t \in Tasks : call[t] = "start"
    \/ txDefer \/ job \in {"wrLoop", "wrGet", "wrPut"}
    \/ "Tx" \in ier
    \/ ~opts.clocal /\ "Ms" \in ier /\ (uart.cts => uart.dcts)

\* No character is written to a transmitter that has no room for it (the
\* burst of lines 2705-2731).
NoOverrun == lost = 0

\* All that the tty layer queues is taken out of its buffer, if CTS is on in
\* the end or not needed.
OutputDrained == (<>[]uart.cts) => (out > 0 ~> out = 0)

\* A character received in interrupt mode is read, if the receiver stays on and
\* CTS comes back for a kprintf that may be holding the lock until it does.
InputTaken ==
  (<>[](uart.cts /\ opts.cread)) =>
    ((uart.rbr > 0 /\ mode = "INT") ~> (uart.rbr = 0))

\* While clients only write and change the rate, the channel is a SioOutput:
\* what is pending is in the tty layer's buffer, in the worker's hand between
\* getTxChar and THR, or in the transmitter.
Pending == out + (IF job = "wrPut" THEN 1 ELSE 0) + uart.thr

Output == INSTANCE SioOutput WITH pending <- Pending, sent <- wire

OutputPromise == Output!Spec

\* ModeSet: "If polled mode is desired the device interrupts are disabled."
PolledModeQuiet == mode = "POLL" => uart.ier = ierInit

\* ModeSet: "If the modem control option is TRUE, the Tx interrupt is disabled
\* if the CTS signal is FALSE": a change of CTS not yet noticed aside, the
\* transmit interrupt is never on while CTS is off.
CtsGatesTx ==
  mode = "INT" /\ ~opts.clocal /\ ~uart.cts /\ "Tx" \in uart.ier => uart.dcts

\* IntRd2: "the maximum required job queue number for reception is one."
OneRxJob == rdJobs <= 1

\* The CREAD option off turns the receiver's interrupt off, once the receive
\* job that was under way is done.
ReceiverOff ==
  ~opts.cread /\ isr # "addRd" /\ rdJobs = 0 /\ job # "rd" => "Rx" \notin ier

\* ModeSet: "If interrupt mode is desired this routine enables the channels
\* receiver and transmitter interrupts": output that waited through polled
\* mode is sent after the switch.
SwitchedOutputSent ==
  (mode = "INT" /\ out > 0) ~> (out = 0 \/ mode = "POLL")
=============================================================================
