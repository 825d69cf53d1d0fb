---------------------------- MODULE Board_proofs ------------------------------
(***************************************************************************)
(* Proofs about the boot, and about the board.  The board is a             *)
(* composition: every step of it is a step of each part or leaves that     *)
(* part alone, so what is proved of a part holds on the board.             *)
(***************************************************************************)
EXTENDS Board, SioDevices_proofs, Devices_proofs, WindMl_proofs

-----------------------------------------------------------------------------
(* The calls of the boot.                                                  *)

\* Every call there is a line for.
Source(o) == SysHwInit0 \cup CpuCalls \cup MemoryCalls(o) \cup DeviceCalls(o)
              \cup InterruptCalls(o) \cup KernelCalls \cup SysHwInit2(o)

\* The calls a build makes.
LEMMA CallsAre ==
  ASSUME NEW o \in BootBuilds
  PROVE  BootCallsOf[o] = {c \in Source(o) : c.on \subseteq o /\ c.off \cap o = {}}
BY DEF BootCallsOf, Source

\* The lines of the groups do not overlap.
LEMMA GroupLines ==
  ASSUME NEW o
  PROVE  /\ \A c \in SysHwInit0 : c.at \in 951..979
         /\ \A c \in CpuCalls : c.at \in 1021..1089
         /\ \A c \in MemoryCalls(o) : c.at \in 1118..1125
         /\ \A c \in DeviceCalls(o) : c.at \in 1130..1150
         /\ \A c \in InterruptCalls(o) : c.at \in 1155..1204
         /\ \A c \in KernelCalls : c.at \in 1208..1208
         /\ \A c \in SysHwInit2(o) : c.at \in 1243..1303
<1>1. \A c \in SysHwInit0 : c.at \in 951..979
  BY SMTT(60) DEF SysHwInit0, Call
<1>2. \A c \in CpuCalls : c.at \in 1021..1089
  BY SMTT(60) DEF CpuCalls, Call
<1>3. \A c \in MemoryCalls(o) : c.at \in 1118..1125
  BY SMTT(60) DEF MemoryCalls, MemTopLine, Call
<1>4. \A c \in DeviceCalls(o) : c.at \in 1130..1150
  BY SMTT(60) DEF DeviceCalls, Call
<1>5. \A c \in InterruptCalls(o) : c.at \in 1155..1204
  BY SMTT(60) DEF InterruptCalls, Call
<1>6. \A c \in KernelCalls : c.at \in 1208..1208
  BY SMTT(60) DEF KernelCalls, Call
<1>7. \A c \in SysHwInit2(o) : c.at \in 1243..1303
  BY SMTT(60) DEF SysHwInit2, Call
<1> QED
  BY <1>1, <1>2, <1>3, <1>4, <1>5, <1>6, <1>7

\* What the calls set up are names.
LEMMA GivesSetups ==
  ASSUME NEW o, NEW c \in Source(o)
  PROVE  c.gives \subseteq Setups
<1>1. \A d \in SysHwInit0 : d.gives \subseteq Setups
  BY SMTT(60) DEF SysHwInit0, Call, Setups
<1>2. \A d \in CpuCalls : d.gives \subseteq Setups
  BY SMTT(60) DEF CpuCalls, Call, Setups
<1>3. \A d \in MemoryCalls(o) : d.gives \subseteq Setups
  BY SMTT(60) DEF MemoryCalls, Call, Setups
<1>4. \A d \in DeviceCalls(o) : d.gives \subseteq Setups
  BY SMTT(60) DEF DeviceCalls, Call, Setups
<1>5. \A d \in InterruptCalls(o) : d.gives \subseteq Setups
  BY SMTT(60) DEF InterruptCalls, Call, Setups
<1>6. \A d \in KernelCalls : d.gives \subseteq Setups
  BY SMTT(60) DEF KernelCalls, Call, Setups
<1>7. \A d \in SysHwInit2(o) : d.gives \subseteq Setups
  BY SMTT(60) DEF SysHwInit2, Call, Setups
<1> QED
  BY <1>1, <1>2, <1>3, <1>4, <1>5, <1>6, <1>7 DEF Source

\* No two calls are on one line.
LEMMA OneAtLine ==
  ASSUME NEW o, NEW c \in Source(o), NEW d \in Source(o), c.at = d.at
  PROVE  c = d
<1>1. CASE c \in SysHwInit0
  <2>1. d \in SysHwInit0
    BY <1>1, GroupLines, SMTT(60) DEF Source
  <2> QED
    BY <1>1, <2>1, SMTT(60) DEF SysHwInit0, Call
<1>2. CASE c \in CpuCalls
  <2>1. d \in CpuCalls
    BY <1>2, GroupLines, SMTT(60) DEF Source
  <2> QED
    BY <1>2, <2>1, SMTT(60) DEF CpuCalls, Call
<1>3. CASE c \in MemoryCalls(o)
  <2>1. d \in MemoryCalls(o)
    BY <1>3, GroupLines, SMTT(60) DEF Source
  <2> QED
    BY <1>3, <2>1, SMTT(60) DEF MemoryCalls, MemTopLine, Call
<1>4. CASE c \in DeviceCalls(o)
  <2>1. d \in DeviceCalls(o)
    BY <1>4, GroupLines, SMTT(60) DEF Source
  <2> QED
    BY <1>4, <2>1, SMTT(60) DEF DeviceCalls, Call
<1>5. CASE c \in InterruptCalls(o)
  <2>1. d \in InterruptCalls(o)
    BY <1>5, GroupLines, SMTT(60) DEF Source
  <2> QED
    BY <1>5, <2>1, SMTT(60) DEF InterruptCalls, Call
<1>6. CASE c \in KernelCalls
  <2>1. d \in KernelCalls
    BY <1>6, GroupLines, SMTT(60) DEF Source
  <2> QED
    BY <1>6, <2>1, SMTT(60) DEF KernelCalls, Call
<1>7. CASE c \in SysHwInit2(o)
  <2>1. d \in SysHwInit2(o)
    BY <1>7, GroupLines, SMTT(60) DEF Source
  <2> QED
    BY <1>7, <2>1, SMTT(60) DEF SysHwInit2, Call
<1> QED
  BY <1>1, <1>2, <1>3, <1>4, <1>5, <1>6, <1>7 DEF Source

\* All of them are in sysHwInit0 to sysHwInit2.
LEMMA LinesAreInt ==
  ASSUME NEW o, NEW c \in Source(o)
  PROVE  c.at \in 951..1303
BY GroupLines DEF Source

\* n is set up by line l.
Has(o, n, l) == \E d \in BootCallsOf[o] : d.at <= l /\ n \in d.gives

\* Who sets up what, in the builds with vxBus.
LEMMA Providers ==
  ASSUME NEW o \in BootBuilds, "vxbus" \in o
  PROVE  /\ Has(o, "gdt", 963) /\ Has(o, "cpuId", 979)
         /\ "multiboot" \in o => Has(o, "loader", 970)
         /\ "symmetric" \notin o => Has(o, "inumTbl", 1021)
         /\ "smp" \in o => Has(o, "cpuIndex", 1058)
         /\ Has(o, "numEnt", 1118)
         /\ "e820" \in o => Has(o, "memTop", 1125)
         /\ "mpapic" \in o /\ "pic" \notin o => Has(o, "mpTable", 1139)
         /\ Has(o, "plb", 1148) /\ Has(o, "devices", 1150)
         /\ "pic" \notin o => Has(o, "apic", 1155)
         /\ Has(o, "intLvl", 1160) /\ Has(o, "pic", 1165) /\ Has(o, "eoi", 1166)
         /\ "smp" \in o => Has(o, "ipiVec", 1172)
         /\ "ns16550" \notin o => Has(o, "serial", 1199)
         /\ Has(o, "memTop", 1208)
         /\ Has(o, "devInit", 1290)
<1>0. ASSUME NEW d \in Source(o), d.on \subseteq o, d.off \cap o = {},
             NEW n \in d.gives, d.at \in Int
      PROVE  Has(o, n, d.at)
  BY <1>0, CallsAre DEF Has
<1>a. ASSUME NEW at \in Int, NEW c, NEW on, NEW off, NEW needs, NEW n,
             Call(at, c, on, off, needs, {n}) \in Source(o), on \subseteq o, off \cap o = {}
      PROVE  Has(o, n, at)
  <2> DEFINE d == Call(at, c, on, off, needs, {n})
  <2>1. d.on = on /\ d.off = off /\ d.at = at /\ d.gives = {n}
    BY DEF Call
  <2>2. d \in Source(o)
    BY <1>a
  <2> HIDE DEF d
  <2> QED
    BY <1>0, <1>a, <2>1, <2>2
<1>1. Has(o, "gdt", 963)
  BY <1>a DEF Source, SysHwInit0
<1>2. Has(o, "cpuId", 979)
  BY <1>a DEF Source, SysHwInit0
<1>3. "multiboot" \in o => Has(o, "loader", 970)
  BY <1>a DEF Source, SysHwInit0
<1>4. "symmetric" \notin o => Has(o, "inumTbl", 1021)
  BY <1>a DEF Source, CpuCalls
<1>5. "smp" \in o => Has(o, "cpuIndex", 1058)
  BY <1>a DEF Source, CpuCalls
<1>6. Has(o, "numEnt", 1118)
  BY <1>a DEF Source, MemoryCalls
<1>7. "e820" \in o => Has(o, "memTop", 1125)
  BY <1>a DEF Source, MemoryCalls, MemTopLine
<1>8. "mpapic" \in o /\ "pic" \notin o => Has(o, "mpTable", 1139)
  BY <1>a DEF Source, DeviceCalls
<1>9. Has(o, "plb", 1148)
  BY <1>a DEF Source, DeviceCalls
<1>10. Has(o, "devices", 1150)
  BY <1>a DEF Source, DeviceCalls
<1>11. "pic" \notin o => Has(o, "apic", 1155)
  BY <1>a DEF Source, InterruptCalls
<1>12. Has(o, "intLvl", 1160)
  BY <1>a DEF Source, InterruptCalls
<1>13. Has(o, "pic", 1165)
  BY <1>a DEF Source, InterruptCalls
<1>14. Has(o, "eoi", 1166)
  BY <1>a DEF Source, InterruptCalls
<1>15. "smp" \in o => Has(o, "ipiVec", 1172)
  BY <1>a DEF Source, InterruptCalls
<1>16. "ns16550" \notin o => Has(o, "serial", 1199)
  BY <1>a DEF Source, InterruptCalls
<1>17. Has(o, "memTop", 1208)
  BY <1>a DEF Source, KernelCalls
<1>18. Has(o, "devInit", 1290)
  BY <1>a DEF Source, SysHwInit2
<1> QED
  BY <1>1, <1>2, <1>3, <1>4, <1>5, <1>6, <1>7, <1>8, <1>9, <1>10, <1>11, <1>12, <1>13, <1>14, <1>15, <1>16, <1>17, <1>18

\* Each call comes after the calls that set up what it needs.
LEMMA CallReady ==
  ASSUME NEW o \in BootBuilds, "vxbus" \in o, NEW c \in BootCallsOf[o], NEW n \in c.needs
  PROVE  \E d \in BootCallsOf[o] : d.at < c.at /\ n \in d.gives
<1> SUFFICES \E l \in Int : l < c.at /\ Has(o, n, l)
  <2>1. c.at \in Int /\ \A d \in BootCallsOf[o] : d.at \in Int
    BY CallsAre, LinesAreInt
  <2> QED
    BY <2>1 DEF Has
<1>0. c \in Source(o) /\ c.on \subseteq o /\ c.off \cap o = {}
  BY CallsAre
<1>1. CASE c \in SysHwInit0
  BY <1>0, <1>1, Providers, SMTT(60) DEF SysHwInit0, Call, If
<1>2. CASE c \in CpuCalls
  BY <1>0, <1>2, Providers, SMTT(60) DEF CpuCalls, Call, If
<1>3. CASE c \in MemoryCalls(o)
  BY <1>0, <1>3, Providers, SMTT(60) DEF MemoryCalls, Call, If, MemTopLine
<1>4. CASE c \in DeviceCalls(o)
  BY <1>0, <1>4, Providers, SMTT(60) DEF DeviceCalls, Call, If
<1>5. CASE c \in InterruptCalls(o)
  BY <1>0, <1>5, Providers, SMTT(60) DEF InterruptCalls, Call, If
<1>6. CASE c \in KernelCalls
  BY <1>0, <1>6, Providers, SMTT(60) DEF KernelCalls, Call, If
<1>7. CASE c \in SysHwInit2(o)
  BY <1>0, <1>7, Providers, SMTT(60) DEF SysHwInit2, Call, If, IntConnects
<1> QED
  BY <1>0, <1>1, <1>2, <1>3, <1>4, <1>5, <1>6, <1>7 DEF Source

\* NextCall is a line from n on, and no call is between.
LEMMA NextCallIs ==
  ASSUME NEW o \in BootBuilds, NEW n \in Nat
  PROVE  LET l == NextCall(BootCallsOf[o], n)
         IN  /\ l = BootEnd \/ \E c \in BootCallsOf[o] : c.at = l
             /\ l \in 0..BootEnd
             /\ \A c \in BootCallsOf[o] : c.at >= n => l <= c.at
<1> DEFINE calls == BootCallsOf[o]
           later == {c.at : c \in {d \in calls : d.at >= n}} \cup {BootEnd}
           least(l) == \A m \in later : l <= m
           l == CHOOSE k \in later : least(k)
<1>1. \A c \in calls : c.at \in 951..1303
  BY CallsAre, LinesAreInt
<1>2. \A m \in later : m \in 0..BootEnd
  BY <1>1 DEF BootEnd
<1>3. \E k \in later : least(k)
  <2>1. later \subseteq Nat /\ later # {}
    BY <1>2
  <2> HIDE DEF later
  <2> QED
    BY <2>1, LeastNat
<1>4. l \in later /\ least(l)
  <2> HIDE DEF later, least
  <2> QED
    BY <1>3
<1>5. NextCall(calls, n) = l
  BY DEF NextCall
<1>6. \A c \in calls : c.at >= n => c.at \in later
  OBVIOUS
<1>7. \A m \in later : m = BootEnd \/ \E c \in calls : c.at = m
  OBVIOUS
<1> HIDE DEF calls, later, l
<1> QED
  BY <1>2, <1>4, <1>5, <1>6, <1>7 DEF calls

-----------------------------------------------------------------------------
(* The boot in progress.                                                   *)

BootBoardType ==
  /\ bootBuild \in BootBuilds /\ bootLoader \in BootLoaders
  /\ bootPhys \in BootPhysTops /\ bootImage \in BootImages

\* The boot is at a call or through, and what the calls before set up is there.
BootReachInv ==
  /\ BootBoardType
  /\ bootLine = BootEnd \/ \E c \in BootCalls : c.at = bootLine
  /\ bootLine \in 0..BootEnd
  /\ \A c \in BootCalls : c.at < bootLine => c.gives \subseteq bootGiven
  /\ bootGiven \subseteq Setups

\* The call at bootLine is the only one there.
LEMMA AtCallIs ==
  ASSUME BootReachInv, Booting
  PROVE  /\ AtCall \in BootCalls /\ AtCall.at = bootLine
         /\ \A c \in BootCalls : c.at = bootLine => c = AtCall
<1>1. bootLine # BootEnd
  BY DEF BootReachInv, Booting
<1>2. AtCall \in BootCalls /\ AtCall.at = bootLine
  BY <1>1 DEF BootReachInv, AtCall
<1>3. \A c \in BootCalls : c \in Source(bootBuild)
  BY CallsAre DEF BootCalls, BootReachInv, BootBoardType
<1> QED
  BY <1>2, <1>3, OneAtLine

LEMMA BootReachInit == BootInit => BootReachInv
<1> SUFFICES ASSUME BootInit PROVE BootReachInv
  OBVIOUS
<1>1. \A c \in BootCalls : c.at \in Nat
  <2>1. \A c \in BootCalls : c.at \in 951..1303
    BY CallsAre, LinesAreInt DEF BootCalls, BootInit
  <2> QED
    BY <2>1
<1>2. /\ bootLine = BootEnd \/ \E c \in BootCalls : c.at = bootLine
      /\ bootLine \in 0..BootEnd
      /\ \A c \in BootCalls : bootLine <= c.at
  BY <1>1, NextCallIs DEF BootInit, BootCalls
<1>3. \A c \in BootCalls : ~(c.at < bootLine)
  BY <1>1, <1>2
<1> QED
  BY <1>2, <1>3 DEF BootReachInv, BootBoardType, BootInit

LEMMA BootReachStep == BootReachInv /\ [BootNext]_bootVars => BootReachInv'
<1> SUFFICES ASSUME BootReachInv, [BootNext]_bootVars PROVE BootReachInv'
  OBVIOUS
<1>0. bootBuild \in BootBuilds
  BY DEF BootReachInv, BootBoardType
<1>1. \A c \in BootCalls : c.at \in Nat /\ c.gives \subseteq Setups
  <2>1. \A c \in BootCalls : c.at \in 951..1303
    BY <1>0, CallsAre, LinesAreInt DEF BootCalls
  <2>2. \A c \in BootCalls : c.gives \subseteq Setups
    BY <1>0, CallsAre, GivesSetups DEF BootCalls
  <2> QED
    BY <2>1, <2>2
<1>2. CASE UNCHANGED bootVars
  BY <1>2 DEF BootReachInv, BootBoardType, BootCalls, bootVars, bootBoard
<1>3. CASE BootStep
  <2>1. BootBoardType' /\ BootCalls' = BootCalls
    BY <1>3 DEF BootStep, BootReachInv, BootBoardType, BootCalls, bootBoard
  <2>2. /\ AtCall \in BootCalls /\ AtCall.at = bootLine
        /\ \A c \in BootCalls : c.at = bootLine => c = AtCall
    BY <1>3, AtCallIs DEF BootStep
  <2>3. bootLine \in Nat /\ bootLine + 1 \in Nat
    BY DEF BootReachInv
  <2>4. /\ bootLine' = BootEnd \/ \E c \in BootCalls : c.at = bootLine'
        /\ bootLine' \in 0..BootEnd
        /\ \A c \in BootCalls : c.at >= bootLine + 1 => bootLine' <= c.at
    BY <1>0, <1>3, <2>3, NextCallIs DEF BootStep, BootCalls
  <2>5. bootGiven' = bootGiven \cup AtCall.gives
    BY <1>3 DEF BootStep
  <2>6. ASSUME NEW c \in BootCalls, c.at < bootLine' PROVE c.gives \subseteq bootGiven'
    <3>1. c.at \in Nat /\ ~(c.at >= bootLine + 1) /\ bootLine' \in Nat
      BY <1>1, <2>4, <2>6
    <3>2. c.at < bootLine \/ c.at = bootLine
      BY <2>3, <3>1
    <3> QED
      BY <2>2, <2>5, <3>2 DEF BootReachInv
  <2>7. bootGiven' \subseteq Setups
    BY <1>1, <2>2, <2>5 DEF BootReachInv
  <2> QED
    BY <2>1, <2>4, <2>6, <2>7 DEF BootReachInv
<1>4. CASE SysToMonitor
  <2>1. BootBoardType' /\ BootCalls' = BootCalls /\ bootGiven' = {}
    BY <1>4 DEF SysToMonitor, BootReachInv, BootBoardType, BootCalls, bootBoard
  <2>2. /\ bootLine' = BootEnd \/ \E c \in BootCalls : c.at = bootLine'
        /\ bootLine' \in 0..BootEnd
        /\ \A c \in BootCalls : c.at >= 0 => bootLine' <= c.at
    BY <1>0, <1>4, NextCallIs DEF SysToMonitor, BootCalls
  <2>3. \A c \in BootCalls : ~(c.at < bootLine')
    BY <1>1, <2>2
  <2> QED
    BY <2>1, <2>2, <2>3 DEF BootReachInv
<1> QED
  BY <1>2, <1>3, <1>4 DEF BootNext

\* In every build with vxBus each call comes after the calls that set up what it
\* uses (the order of lines 942 to 1304), whatever the board, and also after a
\* reset at any moment.
THEOREM CallsReady == BootSpec => []BootCallReady
<1>1. BootReachInv => BootCallReady
  <2> SUFFICES ASSUME BootReachInv, Booting, "vxbus" \in bootBuild, NEW n \in AtCall.needs
               PROVE  n \in bootGiven
    BY DEF BootCallReady
  <2>1. AtCall \in BootCalls /\ AtCall.at = bootLine
    BY AtCallIs
  <2>2. \E d \in BootCalls : d.at < bootLine /\ n \in d.gives
    BY <2>1, CallReady DEF BootCalls, BootReachInv, BootBoardType
  <2> QED
    BY <2>2 DEF BootReachInv
<1> QED
  BY <1>1, BootReachInit, BootReachStep, PTL DEF BootSpec

\* Rounding to pages.
LEMMA BootRounds ==
  ASSUME NEW n \in Int
  PROVE  /\ BootRoundDown(n) \in Int
         /\ \E k \in Int : BootRoundDown(n) = k * BootPage
         /\ BootRoundDown(n) <= n /\ n < BootRoundDown(n) + BootPage
<1> DEFINE q == n \div BootPage
<1>1. BootPage \in Nat \ {0}
  BY BootAssumption
<1>2. q \in Int /\ q * BootPage <= n /\ n < q * BootPage + BootPage
  BY <1>1, SMT
<1>3. BootRoundDown(n) = q * BootPage
  BY DEF BootRoundDown
<1> HIDE DEF q
<1> QED
  BY <1>1, <1>2, <1>3

LEMMA BootRoundsTwice ==
  ASSUME NEW m \in Int, NEW n \in Int
  PROVE  LET top == BootRoundDown(m) - BootRoundDown(n)
         IN  BootRoundDown(top) = top
<1>1. BootPage \in Nat \ {0}
  BY BootAssumption
<1>2. PICK k \in Int, j \in Int :
        BootRoundDown(m) = k * BootPage /\ BootRoundDown(n) = j * BootPage
  BY BootRounds
<1> DEFINE i == k - j
<1>3. i \in Int /\ k * BootPage - j * BootPage = i * BootPage
  BY <1>1, SMT
<1>4. (i * BootPage) \div BootPage = i
  <2> HIDE DEF i
  <2> QED
    BY <1>1, <1>3, SMT
<1> HIDE DEF i
<1> QED
  BY <1>2, <1>3, <1>4 DEF BootRoundDown

\* Addresses are numbers.
BootSizes ==
  /\ bootE820 \in Nat
  /\ bootTop \in Int /\ bootRom \in Int /\ bootPool \in Int

\* sysPhysMemTop is a rounded top of memory.
LEMMA PhysMemTopIs ==
  ASSUME BootBoardType
  PROVE  /\ PhysMemTop \in Int
         /\ \E t \in BootPhysTops \cup {BootLocalTop} : PhysMemTop = BootRoundDown(t)
<1>1. \E t \in BootPhysTops \cup {BootLocalTop} : PhysMemTop = BootRoundDown(t)
  BY DEF PhysMemTop, BootBoardType
<1>2. \A t \in BootPhysTops \cup {BootLocalTop} : t \in Int
  BY BootAssumption
<1> QED
  BY <1>1, <1>2, BootRounds

LEMMA SysMemTopSizes ==
  ASSUME BootBoardType, BootSizes, SysMemTop
  PROVE  bootTop' \in Int /\ bootRom' \in Int
<1> DEFINE top == IF KeepsImage THEN PhysMemTop - ImageRounded(bootImage) ELSE PhysMemTop
<1>1. ImageRounded(bootImage) \in Int
  <2>1. bootImage + BootPage - 1 \in Int
    BY BootAssumption DEF BootBoardType
  <2> HIDE DEF BootSizes
  <2> QED
    BY <2>1, BootRounds DEF ImageRounded
<1>2. top \in Int
  BY <1>1, PhysMemTopIs
<1>3. BootRoundDown(top) \in Int
  <2> HIDE DEF top
  <2> QED
    BY <1>2, BootRounds
<1>4. {BootEbda, BootRamLow, BootPm} \subseteq Int
  BY BootAssumption
<1>5. /\ bootTop' \in {bootTop, BootEbda, BootRamLow, top - BootPm, top - 0}
      /\ bootRom' \in {bootRom, BootRoundDown(top)}
  BY DEF SysMemTop
<1>6. top - BootPm \in Int /\ top - 0 \in Int
  BY <1>2, <1>4
<1> HIDE DEF top
<1> QED
  BY <1>3, <1>4, <1>5, <1>6 DEF BootSizes

LEMMA BootSizesStep ==
  BootReachInv /\ BootSizes /\ [BootNext]_bootVars => BootSizes'
<1> SUFFICES ASSUME BootReachInv, BootSizes, [BootNext]_bootVars PROVE BootSizes'
  OBVIOUS
<1>1. CASE UNCHANGED bootVars
  BY <1>1 DEF BootSizes, bootVars
<1>2. CASE BootStep
  <2>1. bootTop' \in Int /\ bootRom' \in Int
    BY <1>2, SysMemTopSizes DEF BootStep, BootSizes, BootReachInv
  <2>2. MultibootE820 \in Nat
    <3>1. bootLoader.entries \in Nat
      BY BootAssumption DEF BootReachInv, BootBoardType
    <3> QED
      BY <3>1 DEF MultibootE820, BootSizes
  <2>3. bootE820' \in Nat
    BY <1>2, <2>2 DEF BootStep, BootSizes
  <2>4. bootPool' \in Int
    BY <1>2, <2>1 DEF BootStep, BootSizes
  <2> QED
    BY <2>1, <2>3, <2>4 DEF BootSizes
<1>3. CASE SysToMonitor
  BY <1>3 DEF SysToMonitor, BootSizes
<1> QED
  BY <1>1, <1>2, <1>3 DEF BootNext

\* The variables of the boot stay in their types.
THEOREM BootTyped == BootSpec => []BootTypeOK
<1>1. BootReachInv /\ BootSizes => BootTypeOK
  BY DEF BootReachInv, BootBoardType, BootSizes, BootTypeOK
<1>2. BootInit => BootSizes
  BY DEF BootInit, BootSizes
<1> QED
  BY <1>1, <1>2, BootReachInit, BootReachStep, BootSizesStep, PTL DEF BootSpec

-----------------------------------------------------------------------------
(* The boot image.                                                         *)

\* A kernel that keeps its image has no loader to replace the E820 area, the kernel
\* was started with the first memTop, and the image lies above it.
BootImageInv ==
  /\ KeepsImage => bootE820 = 1
  /\ bootPool \in {0, bootTop}
  /\ bootTop # 0 /\ KeepsImage
       => bootTop <= bootRom /\ bootRom + bootImage <= PhysMemTop

\* multibootInit is only called in kernels that have it.
LEMMA OnlyMultiboot ==
  ASSUME BootReachInv, Booting, BootCall = "multibootInit"
  PROVE  "multiboot" \in bootBuild
<1>1. AtCall \in BootCalls /\ AtCall.call = "multibootInit"
  BY AtCallIs DEF BootCall
<1>2. AtCall \in Source(bootBuild) /\ AtCall.on \subseteq bootBuild
  BY <1>1, CallsAre DEF BootCalls, BootReachInv, BootBoardType
<1>3. ASSUME NEW c \in Source(bootBuild), c.call = "multibootInit" PROVE c.on = {"multiboot"}
  <2>1. CASE c \in SysHwInit0
    BY <1>3, <2>1, SMTT(60) DEF SysHwInit0, Call
  <2>2. CASE c \in CpuCalls
    BY <1>3, <2>2, SMTT(60) DEF CpuCalls, Call
  <2>3. CASE c \in MemoryCalls(bootBuild)
    BY <1>3, <2>3, SMTT(60) DEF MemoryCalls, Call
  <2>4. CASE c \in DeviceCalls(bootBuild)
    BY <1>3, <2>4, SMTT(60) DEF DeviceCalls, Call
  <2>5. CASE c \in InterruptCalls(bootBuild)
    BY <1>3, <2>5, SMTT(60) DEF InterruptCalls, Call
  <2>6. CASE c \in KernelCalls
    BY <1>3, <2>6, SMTT(60) DEF KernelCalls, Call
  <2>7. CASE c \in SysHwInit2(bootBuild)
    BY <1>3, <2>7, SMTT(60) DEF SysHwInit2, Call
  <2> QED
    BY <2>1, <2>2, <2>3, <2>4, <2>5, <2>6, <2>7 DEF Source
<1> QED
  BY <1>1, <1>2, <1>3

\* What sysMemTop computes when it keeps the image.
LEMMA ImageAbovePool ==
  ASSUME RamHoldsImage, BootBoardType, KeepsImage, bootTop = 0, SysMemTop
  PROVE  bootTop' <= bootRom' /\ bootRom' + bootImage <= PhysMemTop
<1> DEFINE size == ImageRounded(bootImage)
           top == PhysMemTop - size
<1>1. PICK t \in BootPhysTops \cup {BootLocalTop} : PhysMemTop = BootRoundDown(t)
  BY PhysMemTopIs
<1>2. t \in Int /\ bootImage \in Nat /\ BootPage \in Nat \ {0} /\ BootPm \in Nat
  BY BootAssumption DEF BootBoardType
<1>3. BootEbda \in Nat /\ BootRamLow \in Nat
  BY BootAssumption
<1>4. BootEbda <= top /\ BootRamLow <= top
  BY <1>1 DEF RamHoldsImage, BootBoardType
<1>5. size = BootRoundDown(bootImage + BootPage - 1) /\ bootImage + BootPage - 1 \in Int
  BY <1>2 DEF ImageRounded
<1>6. size \in Int /\ bootImage <= size
  <2> DEFINE m == bootImage + BootPage - 1
             r == BootRoundDown(m)
  <2>1. m \in Int /\ r \in Int /\ m < r + BootPage
    <3>1. m \in Int
      BY <1>5
    <3> HIDE DEF m
    <3> QED
      BY <3>1, BootRounds
  <2>2. size = r
    BY <1>5
  <2> HIDE DEF r, size
  <2> QED
    BY <1>2, <2>1, <2>2
<1>7. PhysMemTop \in Int
  BY PhysMemTopIs
<1>8. BootRoundDown(top) = top
  BY <1>1, <1>2, <1>5, BootRoundsTwice
<1>9. bootTop' \in {BootEbda, BootRamLow, top - BootPm, top - 0} /\ bootRom' = BootRoundDown(top)
  BY DEF SysMemTop
<1> HIDE DEF size
<1> QED
  BY <1>2, <1>3, <1>4, <1>6, <1>7, <1>8, <1>9

LEMMA BootImageStep ==
  ASSUME RamHoldsImage, BootReachInv, BootImageInv, [BootNext]_bootVars
  PROVE  BootImageInv'
<1>1. CASE UNCHANGED bootVars
  BY <1>1 DEF bootVars, bootBoard, BootImageInv, KeepsImage, PhysMemTop
<1>2. CASE BootStep
  <2>1. KeepsImage' = KeepsImage
    BY <1>2 DEF BootStep, bootBoard, KeepsImage
  <2>2. KeepsImage => bootE820' = 1
    BY <1>2, OnlyMultiboot DEF BootStep, BootImageInv, KeepsImage
  <2>3. KeepsImage => PhysMemTop' = PhysMemTop
    BY <1>2, <2>2 DEF BootStep, bootBoard, BootImageInv, PhysMemTop
  <2>4. bootTop # 0 => bootTop' = bootTop /\ bootRom' = bootRom
    BY <1>2 DEF BootStep, SysMemTop
  <2>5. bootPool' \in {0, bootTop'}
    BY <1>2, <2>4 DEF BootStep, BootImageInv
  <2>6. ASSUME KeepsImage, bootTop' # 0
        PROVE  bootTop' <= bootRom' /\ bootRom' + bootImage <= PhysMemTop
    <3>1. CASE bootTop # 0
      BY <2>4, <2>6, <3>1 DEF BootImageInv
    <3>2. CASE bootTop = 0
      <4>1. SysMemTop
        BY <1>2, <2>6, <3>2 DEF BootStep
      <4> QED
        BY <2>6, <3>2, <4>1, ImageAbovePool DEF BootReachInv
    <3> QED
      BY <3>1, <3>2
  <2>7. bootImage' = bootImage
    BY <1>2 DEF BootStep, bootBoard
  <2> QED
    BY <2>1, <2>2, <2>3, <2>5, <2>6, <2>7 DEF BootImageInv
<1>3. CASE SysToMonitor
  BY <1>3 DEF SysToMonitor, BootImageInv
<1> QED
  BY <1>1, <1>2, <1>3 DEF BootNext

\* The boot image that sysHwInit2 saves for the next fast reboot (lines 1237 to 1243)
\* lies in memory and above the pool the kernel was started with: sysMemTop sets
\* it aside once, and the later call gets the same answer.
THEOREM ImageSafe ==
  ASSUME RamHoldsImage
  PROVE  BootSpec => []BootImageSafe
<1>1. BootImageInv => BootImageSafe
  BY DEF BootImageInv, BootImageSafe
<1>2. BootInit => BootImageInv
  BY DEF BootInit, BootImageInv
<1>3. BootReachInv /\ BootImageInv /\ [BootNext]_bootVars => BootImageInv'
  BY BootImageStep
<1> QED
  BY <1>1, <1>2, <1>3, BootReachInit, BootReachStep, PTL DEF BootSpec

-----------------------------------------------------------------------------
(* The composition.                                                        *)
\* Every step of the board maps to a step of each part or a stutter of it.
LEMMA BoardStepOfParts ==
  ASSUME [BoardNext]_boardVars
  PROVE  /\ [SioNext]_sioVars
         /\ [IrqNext]_irqVars
         /\ [WmNext]_wmVars
         /\ [SdNext]_sdVars
         /\ [NvNext]_nvVars
<1>1. CASE UNCHANGED boardVars
  BY <1>1 DEF boardVars
<1>2. CASE BoardBoot \/ BoardReset
  BY <1>2 DEF BoardBoot, BoardReset
<1>3. CASE BoardSio
  BY <1>3 DEF BoardSio
<1>4. CASE BoardIrq
  BY <1>4 DEF BoardIrq
<1>5. CASE BoardWm
  BY <1>5 DEF BoardWm
<1>6. CASE BoardSd
  BY <1>6 DEF BoardSd, SdPart
<1>7. CASE BoardNv
  BY <1>7 DEF BoardNv
<1> QED
  BY <1>1, <1>2, <1>3, <1>4, <1>5, <1>6, <1>7 DEF BoardNext

\* The boot's own steps, too.
LEMMA BoardStepOfBoot ==
  ASSUME [BoardNext]_boardVars
  PROVE  [BootNext]_bootVars
BY DEF BoardNext, boardVars, BoardBoot, BoardReset, BoardSio, BoardIrq, BoardWm, BoardSd,
       SdPart, BoardNv, BootNext

\* The board implements each of its parts: nothing the boot, or another part,
\* does is more than the part's own specification allows.
THEOREM BoardImplementsParts ==
  BoardSpec => /\ SioSpec /\ IrqSpec /\ WmSpec /\ NvSpec /\ BootSpec
               /\ SdInit /\ [][SdNext]_sdVars
<1>1. BoardInit => SioInit /\ IrqInit /\ WmInit /\ SdInit /\ NvInit /\ BootInit
  BY DEF BoardInit
<1> QED
  BY <1>1, BoardStepOfParts, BoardStepOfBoot, PTL
     DEF BoardSpec, SioSpec, IrqSpec, WmSpec, NvSpec, BootSpec

\* On the board, what sysNvRamSet acknowledged stays in the file.
THEOREM BoardNvAcknowledged == BoardSpec => []NvAcknowledged
BY BoardImplementsParts, NvAcknowledgedKept, PTL

\* On the board, a serial client that installs its callbacks before SIO_MODE_INT
\* is never called with another routine's argument.
THEOREM BoardCallbacksSound ==
  ASSUME ~SioLateInstall
  PROVE  BoardSpec => []SioCallbackSound
BY BoardImplementsParts, SioCallbacksSound, PTL

\* On the board, USB users that connect and restore one call at a time stay served.
THEOREM BoardLineServed ==
  ASSUME UsbDiscipline
  PROVE  BoardSpec => []UsbLineServed
BY BoardImplementsParts, LineServedKept, PTL

\* On the board, every WindML descriptor has one owner.
THEOREM BoardOneOwner == BoardSpec => []WmOneOwner
BY BoardImplementsParts, OneOwnerKept, PTL

\* On the board too, where the boards' UARTs are where UartsOfBoards says: no two
\* serial channels have a register in common, and each is in UARTs of its board
\* but for those made on base addresses 2 to 5 of an AXXON IC0607KB.
THEOREM BoardOwnUarts ==
  ASSUME UartsOfBoards
  PROVE  BoardSpec => []SioOwnUart
BY BoardImplementsParts, OwnUarts, PTL

\* Next to any part, the boot calls nothing before what it needs is there, and the
\* image it keeps stays out of the pool.
THEOREM BoardBoots ==
  ASSUME RamHoldsImage
  PROVE  BoardSpec => [](BootCallReady /\ BootImageSafe)
BY BoardImplementsParts, CallsReady, ImageSafe, PTL

\* Every variable of every part of the board stays in its type, and a behaviour
\* exercises one part all along.
THEOREM BoardTyped == BoardSpec => []BoardTypeOK
<1>1. BoardInit => part \in Parts
  BY DEF BoardInit
<1>2. part \in Parts /\ [BoardNext]_boardVars => (part \in Parts)'
  BY DEF BoardNext, boardVars, BoardBoot, BoardReset, BoardSio, BoardIrq, BoardWm,
         BoardSd, SdPart, BoardNv
<1>3. BoardSpec => [](part \in Parts)
  BY <1>1, <1>2, PTL DEF BoardSpec
<1>4. part \in Parts /\ BootTypeOK /\ SioTypeOK /\ IrqTypeOK /\ WmTypeOK /\ SdTypeOK /\ NvTypeOK
        => BoardTypeOK
  BY DEF BoardTypeOK
<1> QED
  BY <1>3, <1>4, BoardImplementsParts, BootTyped, SioTyped, IrqTyped, WmTyped, SdTyped,
     NvTyped, PTL
=============================================================================
