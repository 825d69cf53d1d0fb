------------------------------- MODULE BoardMC -------------------------------
(* The machines and bounds for checking Board, and each part, with TLC.    *)
EXTENDS Board

\* A PCI board with its base addresses and the registers of its UARTs.
Pci(v, b, bars, u) ==
  [bus |-> "PCI", dev |-> b, vend |-> v, unit |-> 0, clk |-> 0, scratch |-> 0,
   bar |-> [i \in Bars |-> IF i < Len(bars) THEN bars[i + 1] ELSE 0], uart |-> u]

Softio(v)  == Pci(v, "IC0607KB", <<4096, 4128, 4352, 4608>>, {<<4096, 32>>})
Lf653(bar1) == Pci("AXXON", "LF653KB", <<8192, bar1, 8448, 8704>>, {<<bar1, 128>>})
Lf662f1    == Pci("OXFORDSEMI", "LF662KB_FUNC1", <<12288, 16384, 12544, 12800>>,
                  {<<16384, 4096>>})
Lf659      == Pci("AXXON", "LF659KB", <<20480, 24576, 20736, 20992, 21248>>,
                  {<<24576, 32>>})
Lf769      == Pci("AXXON", "LF769KB", <<28672>>, {<<28672, 8>>})
Esd1001    == Pci("EASYSYNC", "ESD1001", <<32768, 33024, 33280, 33536>>, {<<33024, 8>>})
Esd1002    == Pci("EASYSYNC", "ESD1002", <<36864, 37120, 37376, 37632>>,
                  {<<37120, 8>>, <<37376, 8>>})
Esd1004    == Pci("EASYSYNC", "ESD1004", <<40960, 41216>>, {})
Compusa    == Pci("COMPUSA", "COMPUSA", <<45056, 45312, 45568>>,
                  {<<45056, 8>>, <<45312, 8>>})
Topcliff   == Pci("INTEL", "TOPCLIFF", <<49152, 53248>>, {<<49152, 8>>})
Baytrail   == Pci("INTEL", "BAYTRAIL", <<57344, 61440>>, {<<57344, 32>>})
Xlp(reg)   == [Pci("NETLOGIC", "XLP", <<65536, 69632>>, {<<reg + 256, 32>>})
                 EXCEPT !.scratch = reg]
Clockless  == [ComPort(1) EXCEPT !.clk = 0]
Absent     == [ComPort(1) EXCEPT !.bar = [i \in Bars |-> 0]]

MCSioMachines ==
  {<<ComPort(0), ComPort(1), Softio("OXFORDSEMI")>>,
   <<ComPort(0), Lf653(24064)>>,
   <<ComPort(0), Softio("AXXON")>>,
   <<ComPort(0), ComPort(1), Esd1002>>,
   <<ComPort(0), Clockless, Baytrail>>,
   <<ComPort(0), Lf659, Lf662f1>>,
   <<ComPort(0), Absent, Compusa, Lf769>>,
   <<ComPort(0), Xlp(131072), Topcliff, Esd1001, Esd1004, Xlp(0)>>}
MCSioRates == {49, 50, 134}

\* APIC drivers among other devices, in the order vxBus visits them.
MpApic == [mp |-> TRUE, lo |-> FALSE, io |-> {}]
LoApic == [mp |-> FALSE, lo |-> TRUE, io |-> {}]
IoApic(lines) == [mp |-> FALSE, lo |-> FALSE, io |-> lines]
NoDev == [mp |-> FALSE, lo |-> FALSE, io |-> {}]
MCIrqMachines ==
  {<<MpApic, LoApic, IoApic(0..23), NoDev>>,
   <<MpApic, LoApic, IoApic(0..23), IoApic(24..47), NoDev, NoDev>>}
MCUsbFunc == [u \in {"u1", "u2", "u3"} |->
                CASE u = "u1" -> "uhci" [] u = "u2" -> "ehci" [] OTHER -> "xhci"]

\* PCI functions.  Those with the same identifiers are of the same class.
Fn(v, d, c, l) == [ven |-> v, dev |-> d, class |-> c, line |-> l]
Epson == Fn("EPSON", "13XXX", "other", 17)
Sound == Fn("X", "A", "audio", 18)
Bridge == Fn("X", "B", "other", 17)
MCWmMachines ==
  {<<Fn("INTEL", "E3845", "display", 16), Bridge, Epson, Epson>>,
   <<Sound, Sound, Sound, Sound>>,
   <<Bridge>>}

\* SD host controllers.
SdHc(polling, isr, irq, dma) ==
  [drv |-> TRUE, isr |-> isr, irq |-> irq, polling |-> polling, dma |-> dma]
MCSdBoards ==
  {SdHc(FALSE, TRUE, TRUE, "SDMA"), SdHc(TRUE, TRUE, TRUE, "PIO"),
   SdHc(FALSE, TRUE, FALSE, "SDMA"), SdHc(FALSE, FALSE, TRUE, "SDMA"),
   [SdHc(FALSE, TRUE, TRUE, "SDMA") EXCEPT !.drv = FALSE]}

MCNvStrings == {<<1, 1>>, <<2>>}
MCNvOffsets == {0, 1}

\* Builds: interrupt mode, way of starting, memory, and the rest.
MCBootBuilds ==
  {m \cup s \cup x \cup z :
     m \in {{"symmetric", "smp"}, {"symmetric"}, {"wire"}, {"pic"}},
     s \in {{}, {"multiboot"}, {"fast", "stages"}, {"fast", "stages", "multiboot", "edr"}},
     x \in {{}, {"e820"}, {"e820", "mpapic"}},
     z \in {{"vxbus", "ns16550", "sioutils", "pci"},
            {"vxbus", "dbgstr", "lowimage"},
            {"vxbus", "ns16550", "edr", "highimage"}}}
  \cup {{"pic", "windml", "pci", "e820"}}
MCBootLoaders ==
  {[magic |-> TRUE, mmap |-> TRUE, entries |-> 2],
   [magic |-> TRUE, mmap |-> TRUE, entries |-> 0],
   [magic |-> FALSE, mmap |-> FALSE, entries |-> 0]}

ASSUME MCMachinesAreSane == /\ HwConfTable /\ ClocksInRange /\ UartsOfBoards
                            /\ NoApicLast /\ (UsbSerial => UsbDiscipline)
                            /\ IdsTellClass /\ RamHoldsImage
=============================================================================
