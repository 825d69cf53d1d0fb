--------------------------- MODULE PciRoute_proofs ----------------------------
(***************************************************************************)
(* Proofs about PciRoute, for any tree of buses and any table.             *)
(***************************************************************************)
EXTENDS PciRoute, FiniteSetTheorems, WellFoundedInduction, TLAPS

-----------------------------------------------------------------------------
(* Least numbers.  The proofs by induction below look at the least          *)
(* counterexample.                                                         *)

LEMMA LeastNat ==
  ASSUME NEW T, T \subseteq Nat, T # {}
  PROVE  \E m \in T : \A n \in T : m <= n
<1> DEFINE R == StrictSubsetOrdering(Nat)
           S == FiniteSubsetsOf(Nat)
           I == {1..n : n \in T}
<1>1. IsWellFoundedOn(R, S)
  BY FS_StrictSubsetOrderingWellFounded
<1>2. I \subseteq S
  <2>1. \A n \in Nat : IsFiniteSet(1..n)
    BY FS_Interval
  <2> QED
    BY <2>1 DEF FiniteSubsetsOf
<1>3. I # {}
  OBVIOUS
<1>4. PICK x \in I : \A y \in I : <<y, x>> \notin R
  <2> HIDE DEF R, S, I
  <2> QED
    BY <1>1, <1>2, <1>3, WFMin
<1>5. PICK m \in T : x = 1..m
  BY <1>4
<1>6. ASSUME NEW n \in T, n < m PROVE FALSE
  <2>1. n \in Nat /\ m \in Nat
    OBVIOUS
  <2>2. 1..n \in I
    OBVIOUS
  <2>3. 1..n \subseteq 1..m /\ m \in 1..m /\ m \notin 1..n
    BY <1>6, <2>1
  <2>4. <<1..n, 1..m>> \notin R
    <3> HIDE DEF R, I
    <3> QED
      BY <1>4, <1>5, <2>2
  <2>5. 1..n \in SUBSET Nat /\ 1..m \in SUBSET Nat
    BY <2>1
  <2>6. <<1..n, 1..m>> \in R
    <3> DEFINE a == 1..n
               b == 1..m
    <3>1. a \in SUBSET Nat /\ b \in SUBSET Nat /\ a \subseteq b /\ a # b
      BY <2>3, <2>5
    <3> HIDE DEF a, b
    <3>2. <<a, b>> \in StrictSubsetOrdering(Nat)
      BY <3>1 DEF StrictSubsetOrdering
    <3> QED
      BY <3>2 DEF a, b
  <2> QED
    BY <2>4, <2>6
<1> QED
  BY <1>6

-----------------------------------------------------------------------------
(* The two recursive functions.                                            *)

LEMMA MachineType ==
  ASSUME machine \in Machines
  PROVE  /\ F \in Seq(Functions) /\ machine.mp \in Seq(MP_INTERRUPT)
         /\ Len(F) \in Nat /\ DOMAIN F = 1..Len(F)
         /\ \A i \in DOMAIN F : F[i] \in Functions
<1>1. F \in Seq(Functions) /\ machine.mp \in Seq(MP_INTERRUPT)
  BY RouteAssumption DEF F
<1> QED
  BY <1>1

LEMMA NearestBelow ==
  ASSUME machine \in Machines, NEW n \in Nat, Up(n) # {}
  PROVE  Nearest(n) \in Functions /\ Nearest(n).bus \in 0..(n - 1)
<1>1. PICK i \in Up(n) : Nearest(n) = F[i]
  BY DEF Nearest
<1>2. i \in DOMAIN F /\ F[i].bus < n
  BY <1>1 DEF Up, Bridges
<1>3. F[i] \in Functions
  BY <1>2, MachineType
<1>4. F[i].bus \in Nat
  BY <1>3 DEF Functions
<1> QED
  BY <1>1, <1>2, <1>3, <1>4

LEMMA PathDef ==
  ASSUME machine \in Machines
  PROVE  Path = [bus \in Nat |-> IF Up(bus) = {} THEN <<>>
                                 ELSE <<Nearest(bus)>> \o Path[Nearest(bus).bus]]
<1> DEFINE E(g, n) == IF Up(n) = {} THEN <<>> ELSE <<Nearest(n)>> \o g[Nearest(n).bus]
           Good(n, h) == \A k \in 0..n : h[k] = E(h, k)
           Bad == {n \in Nat : ~\E h : Good(n, h)}
           H(n) == CHOOSE h : Good(n, h)
           G == [n \in Nat |-> H(n)[n]]
<1>1. Path = CHOOSE g : g = [bus \in Nat |-> E(g, bus)]
  BY DEF Path
<1>2. ASSUME NEW n \in Nat, NEW g, NEW h, \A k \in 0..(n - 1) : g[k] = h[k]
      PROVE  E(g, n) = E(h, n)
  <2>1. CASE Up(n) = {}
    BY <2>1
  <2>2. CASE Up(n) # {}
    BY <1>2, <2>2, NearestBelow
  <2> QED
    BY <2>1, <2>2
<1> HIDE DEF E
<1>3. Bad = {}
  <2> SUFFICES ASSUME Bad # {} PROVE FALSE
    OBVIOUS
  <2>1. PICK m \in Bad : \A n \in Bad : m <= n
    <3>1. Bad \subseteq Nat
      OBVIOUS
    <3> HIDE DEF Bad
    <3> QED
      BY <3>1, LeastNat
  <2>2. \E h : \A k \in 0..(m - 1) : h[k] = E(h, k)
    <3>1. CASE m = 0
      BY <3>1
    <3>2. CASE m # 0
      <4>1. m - 1 \in Nat /\ m - 1 \notin Bad
        BY <2>1, <3>2
      <4> QED
        BY <4>1
    <3> QED
      BY <3>1, <3>2
  <2>3. PICK h : \A k \in 0..(m - 1) : h[k] = E(h, k)
    BY <2>2
  <2> DEFINE g == [k \in 0..m |-> IF k = m THEN E(h, m) ELSE h[k]]
  <2>4. \A k \in 0..(m - 1) : g[k] = h[k]
    OBVIOUS
  <2>5. g[m] = E(h, m)
    OBVIOUS
  <2> HIDE DEF g
  <2>6. ASSUME NEW k \in 0..m PROVE g[k] = E(g, k)
    <3>1. \A j \in 0..(k - 1) : g[j] = h[j]
      BY <2>4
    <3>2. E(g, k) = E(h, k)
      BY <1>2, <3>1
    <3>3. g[k] = E(h, k)
      <4>1. CASE k = m
        BY <2>5, <4>1
      <4>2. CASE k # m
        <5>1. k \in 0..(m - 1)
          BY <4>2
        <5> QED
          BY <2>3, <2>4, <5>1
      <4> QED
        BY <4>1, <4>2
    <3> QED
      BY <3>2, <3>3
  <2>7. Good(m, g)
    BY <2>6
  <2> QED
    BY <2>7
<1>4. ASSUME NEW n \in Nat PROVE Good(n, H(n))
  <2>1. \E h : Good(n, h)
    BY <1>3
  <2> HIDE DEF Good
  <2> QED
    BY <2>1
<1>5. ASSUME NEW n \in Nat, NEW m \in Nat, NEW g, NEW h, Good(n, g), Good(m, h), n <= m
      PROVE  g[n] = h[n]
  <2> DEFINE D == {k \in 0..n : g[k] # h[k]}
  <2> SUFFICES ASSUME D # {} PROVE FALSE
    OBVIOUS
  <2>1. PICK k \in D : \A j \in D : k <= j
    <3>1. D \subseteq Nat
      OBVIOUS
    <3> HIDE DEF D
    <3> QED
      BY <3>1, LeastNat
  <2>2. \A j \in 0..(k - 1) : g[j] = h[j]
    BY <2>1
  <2>3. E(g, k) = E(h, k)
    BY <1>2, <2>2
  <2> QED
    BY <1>5, <2>3
<1>6. ASSUME NEW n \in Nat PROVE G[n] = E(G, n)
  <2>1. \A k \in 0..(n - 1) : G[k] = H(n)[k]
    <3> SUFFICES ASSUME NEW k \in 0..(n - 1) PROVE G[k] = H(n)[k]
      OBVIOUS
    <3>1. k \in Nat /\ k <= n
      OBVIOUS
    <3>2. Good(k, H(k)) /\ Good(n, H(n))
      BY <1>4, <3>1
    <3>3. G[k] = H(k)[k]
      BY <3>1
    <3> HIDE DEF Good, H, G
    <3> QED
      BY <1>5, <3>1, <3>2, <3>3
  <2>2. H(n)[n] = E(H(n), n)
    BY <1>4
  <2>3. G[n] = H(n)[n]
    OBVIOUS
  <2> HIDE DEF Good, H, G
  <2> QED
    BY <1>2, <2>1, <2>2, <2>3
<1>7. \E g : g = [bus \in Nat |-> E(g, bus)]
  <2>1. G = [bus \in Nat |-> E(G, bus)]
    <3>1. G = [n \in Nat |-> G[n]]
      OBVIOUS
    <3> HIDE DEF H, G
    <3> QED
      BY <1>6, <3>1
  <2> HIDE DEF G
  <2> QED
    BY <2>1
<1>8. Path = [bus \in Nat |-> E(Path, bus)]
  <2> HIDE DEF E
  <2> QED
    BY <1>1, <1>7, Zenon
<1> QED
  BY <1>8 DEF E
\* The sum of the first device numbers.
LEMMA TurnsDef ==
  ASSUME NEW path
  PROVE  Turns(path) = [k \in Nat |-> IF k = 0 THEN 0
                                      ELSE Turns(path)[k - 1] + path[k].dev]
<1> DEFINE E(g, k) == IF k = 0 THEN 0 ELSE g[k - 1] + path[k].dev
           Good(n, h) == \A k \in 0..n : h[k] = E(h, k)
           Bad == {n \in Nat : ~\E h : Good(n, h)}
           H(n) == CHOOSE h : Good(n, h)
           G == [n \in Nat |-> H(n)[n]]
<1>1. Turns(path) = CHOOSE g : g = [k \in Nat |-> E(g, k)]
  BY DEF Turns
<1>2. ASSUME NEW n \in Nat, NEW g, NEW h, \A k \in 0..(n - 1) : g[k] = h[k]
      PROVE  E(g, n) = E(h, n)
  <2>1. CASE n = 0
    BY <2>1
  <2>2. CASE n # 0
    <3>1. n - 1 \in 0..(n - 1)
      BY <2>2
    <3>2. g[n - 1] = h[n - 1]
      BY <1>2, <3>1
    <3> QED
      BY <3>2
  <2> QED
    BY <2>1, <2>2
<1> HIDE DEF E
<1>3. Bad = {}
  <2> SUFFICES ASSUME Bad # {} PROVE FALSE
    OBVIOUS
  <2>1. PICK m \in Bad : \A n \in Bad : m <= n
    <3>1. Bad \subseteq Nat
      OBVIOUS
    <3> HIDE DEF Bad
    <3> QED
      BY <3>1, LeastNat
  <2>2. \E h : \A k \in 0..(m - 1) : h[k] = E(h, k)
    <3>1. CASE m = 0
      BY <3>1
    <3>2. CASE m # 0
      <4>1. m - 1 \in Nat /\ m - 1 \notin Bad
        BY <2>1, <3>2
      <4> QED
        BY <4>1
    <3> QED
      BY <3>1, <3>2
  <2>3. PICK h : \A k \in 0..(m - 1) : h[k] = E(h, k)
    BY <2>2
  <2> DEFINE g == [k \in 0..m |-> IF k = m THEN E(h, m) ELSE h[k]]
  <2>4. \A k \in 0..(m - 1) : g[k] = h[k]
    OBVIOUS
  <2>5. g[m] = E(h, m)
    OBVIOUS
  <2> HIDE DEF g
  <2>6. ASSUME NEW k \in 0..m PROVE g[k] = E(g, k)
    <3>1. \A j \in 0..(k - 1) : g[j] = h[j]
      BY <2>4
    <3>2. E(g, k) = E(h, k)
      BY <1>2, <3>1
    <3>3. g[k] = E(h, k)
      <4>1. CASE k = m
        BY <2>5, <4>1
      <4>2. CASE k # m
        <5>1. k \in 0..(m - 1)
          BY <4>2
        <5> QED
          BY <2>3, <2>4, <5>1
      <4> QED
        BY <4>1, <4>2
    <3> QED
      BY <3>2, <3>3
  <2>7. Good(m, g)
    BY <2>6
  <2> QED
    BY <2>7
<1>4. ASSUME NEW n \in Nat PROVE Good(n, H(n))
  <2>1. \E h : Good(n, h)
    BY <1>3
  <2> HIDE DEF Good
  <2> QED
    BY <2>1
<1>5. ASSUME NEW n \in Nat, NEW m \in Nat, NEW g, NEW h, Good(n, g), Good(m, h), n <= m
      PROVE  g[n] = h[n]
  <2> DEFINE D == {k \in 0..n : g[k] # h[k]}
  <2> SUFFICES ASSUME D # {} PROVE FALSE
    OBVIOUS
  <2>1. PICK k \in D : \A j \in D : k <= j
    <3>1. D \subseteq Nat
      OBVIOUS
    <3> HIDE DEF D
    <3> QED
      BY <3>1, LeastNat
  <2>2. \A j \in 0..(k - 1) : g[j] = h[j]
    BY <2>1
  <2>3. E(g, k) = E(h, k)
    BY <1>2, <2>2
  <2> QED
    BY <1>5, <2>3
<1>6. ASSUME NEW n \in Nat PROVE G[n] = E(G, n)
  <2>1. \A k \in 0..(n - 1) : G[k] = H(n)[k]
    <3> SUFFICES ASSUME NEW k \in 0..(n - 1) PROVE G[k] = H(n)[k]
      OBVIOUS
    <3>1. k \in Nat /\ k <= n
      OBVIOUS
    <3>2. Good(k, H(k)) /\ Good(n, H(n))
      BY <1>4, <3>1
    <3>3. G[k] = H(k)[k]
      BY <3>1
    <3> HIDE DEF Good, H, G
    <3> QED
      BY <1>5, <3>1, <3>2, <3>3
  <2>2. H(n)[n] = E(H(n), n)
    BY <1>4
  <2>3. G[n] = H(n)[n]
    OBVIOUS
  <2> HIDE DEF Good, H, G
  <2> QED
    BY <1>2, <2>1, <2>2, <2>3
<1>7. \E g : g = [k \in Nat |-> E(g, k)]
  <2>1. G = [k \in Nat |-> E(G, k)]
    <3>1. G = [n \in Nat |-> G[n]]
      OBVIOUS
    <3> HIDE DEF H, G
    <3> QED
      BY <1>6, <3>1
  <2> HIDE DEF G
  <2> QED
    BY <2>1
<1>8. Turns(path) = [k \in Nat |-> E(Turns(path), k)]
  <2> HIDE DEF E
  <2> QED
    BY <1>1, <1>7, Zenon
<1> QED
  BY <1>8 DEF E

\* All of it depends on the machine alone, which stays.
Target(i) == LET irq == Interrupt(F[i]) IN IF irq \in 0..255 THEN irq ELSE Firmware

LEMMA SamePath ==
  ASSUME machine' = machine
  PROVE  Path' = Path
BY DEF Path, Up, Nearest, Bridges, F

LEMMA SameEntry ==
  ASSUME machine' = machine, NEW bus, NEW dev, NEW pin
  PROVE  FindMpEntry(bus, dev, pin)' = FindMpEntry(bus, dev, pin)
BY DEF FindMpEntry

LEMMA SameInterrupt ==
  ASSUME machine' = machine, NEW i
  PROVE  Interrupt(F[i])' = Interrupt(F[i]) /\ Plain(F[i])' = Plain(F[i])
<1>1. Path' = Path
  BY SamePath
<1>2. Plain(F[i])' = Plain(F[i])
  BY <1>1 DEF Plain, PathOf, F
<1>3. Interrupt(F[i])' = Interrupt(F[i])
  BY <1>1 DEF Interrupt, PathOf, FindMpEntry, F, PinAt, Turns
<1> QED
  BY <1>2, <1>3

-----------------------------------------------------------------------------
(* Entries of the table, and the way up.                                   *)

LEMMA IrqType ==
  ASSUME NEW e \in MP_INTERRUPT
  PROVE  Irq(e) \in Nat
<1>1. e.intIn \in Nat /\ e.apic \in Nat /\ IoBaseId \in Nat /\ RedEntries \in Nat
  BY RouteAssumption DEF MP_INTERRUPT
<1>2. \A x, y \in Nat : x * y \in Nat
  OBVIOUS
<1>3. CASE e.apic > IoBaseId
  <2>1. e.apic - IoBaseId \in Nat
    BY <1>1, <1>3
  <2> DEFINE p == RedEntries * (e.apic - IoBaseId)
  <2>2. p \in Nat
    BY <1>1, <1>2, <2>1
  <2> HIDE DEF p
  <2>3. e.intIn + p \in Nat
    BY <1>1, <2>2
  <2>4. Irq(e) = e.intIn + p \/ Irq(e) = e.intIn
    BY DEF Irq, p
  <2> QED
    BY <1>1, <2>3, <2>4
<1>4. CASE ~(e.apic > IoBaseId)
  BY <1>1, <1>4 DEF Irq
<1> QED
  BY <1>3, <1>4

LEMMA EntryType ==
  ASSUME machine \in Machines, NEW bus, NEW dev, NEW pin
  PROVE  FindMpEntry(bus, dev, pin) \in Nat \cup {ERROR}
<1> DEFINE hits == {k \in DOMAIN machine.mp : Matches(machine.mp[k], bus, dev, pin)}
           first == CHOOSE k \in hits : \A j \in hits : k <= j
<1>1. CASE hits = {}
  BY <1>1 DEF FindMpEntry
<1>2. CASE hits # {}
  <2>1. hits \subseteq DOMAIN machine.mp /\ hits \subseteq Nat
    BY MachineType
  <2>2. \E k \in hits : \A j \in hits : k <= j
    <3> HIDE DEF hits
    <3> QED
      BY <1>2, <2>1, LeastNat
  <2>3. first \in hits
    <3> HIDE DEF hits
    <3> QED
      BY <2>2
  <2>4. FindMpEntry(bus, dev, pin) = Irq(machine.mp[first])
    BY <1>2 DEF FindMpEntry
  <2> HIDE DEF first, hits
  <2>5. machine.mp[first] \in MP_INTERRUPT
    BY <2>1, <2>3, MachineType
  <2> QED
    BY <2>4, <2>5, IrqType
<1> QED
  BY <1>1, <1>2

\* Where the climb is after k bridges.
BusAt(bus, k) == IF k = 0 THEN bus ELSE Path[bus][k].bus
DevAt(f, k) == IF k = 0 THEN f.dev ELSE PathOf(f)[k].dev
PinOn(f, k) == IF k = 0 THEN f.pin ELSE PinAt(f, PathOf(f), k)
EntryAt(f, k) == FindMpEntry(PathOf(f)[k].bus, PathOf(f)[k].dev, PinAt(f, PathOf(f), k))

\* The path leads from each bus to its nearest bridge, until there is none.
Climbs(bus) ==
  /\ Path[bus] \in Seq(Functions)
  /\ \A k \in 0..(Len(Path[bus]) - 1) :
       Up(BusAt(bus, k)) # {} /\ Path[bus][k + 1] = Nearest(BusAt(bus, k))
  /\ Up(BusAt(bus, Len(Path[bus]))) = {}

LEMMA PathClimbs ==
  ASSUME machine \in Machines, NEW bus \in Nat
  PROVE  Climbs(bus)
<1> DEFINE Bad == {n \in Nat : ~Climbs(n)}
<1> SUFFICES ASSUME Bad # {} PROVE FALSE
  OBVIOUS
<1>1. PICK n \in Bad : \A j \in Bad : n <= j
  <2>1. Bad \subseteq Nat
    OBVIOUS
  <2> HIDE DEF Bad
  <2> QED
    BY <2>1, LeastNat
<1>2. n \in Nat
  OBVIOUS
<1>3. CASE Up(n) = {}
  <2>1. Path[n] = <<>>
    BY <1>3, PathDef
  <2>2. Path[n] \in Seq(Functions) /\ Len(Path[n]) = 0
    BY <2>1
  <2> QED
    BY <1>3, <2>2 DEF Climbs, BusAt
<1>4. CASE Up(n) # {}
  <2> DEFINE b == Nearest(n)
             rest == Path[b.bus]
  <2>1. b \in Functions /\ b.bus \in Nat /\ b.bus < n
    BY <1>4, NearestBelow
  <2>2. Climbs(b.bus)
    BY <1>1, <2>1
  <2>3. Path[n] = <<b>> \o rest
    BY <1>4, PathDef
  <2>4. rest \in Seq(Functions)
    BY <2>2 DEF Climbs
  <2> HIDE DEF b, rest
  <2>5. /\ Path[n] \in Seq(Functions) /\ Len(Path[n]) = Len(rest) + 1
        /\ Path[n][1] = b /\ Len(rest) \in Nat
        /\ \A k \in 1..Len(rest) : Path[n][k + 1] = rest[k]
    BY <2>1, <2>3, <2>4
  <2>6. ASSUME NEW k \in 0..Len(rest)
        PROVE  BusAt(n, k + 1) = BusAt(b.bus, k)
    <3>1. CASE k = 0
      BY <2>5, <3>1 DEF BusAt
    <3>2. CASE k # 0
      BY <2>5, <3>2 DEF BusAt, rest
    <3> QED
      BY <3>1, <3>2
  <2>7. ASSUME NEW k \in 0..(Len(Path[n]) - 1)
        PROVE  Up(BusAt(n, k)) # {} /\ Path[n][k + 1] = Nearest(BusAt(n, k))
    <3>1. CASE k = 0
      BY <1>4, <2>5, <3>1 DEF BusAt, b
    <3>2. CASE k # 0
      <4>1. k - 1 \in 0..(Len(rest) - 1) /\ k - 1 \in 0..Len(rest) /\ k \in 1..Len(rest)
        BY <2>5, <3>2
      <4>2. BusAt(n, k) = BusAt(b.bus, k - 1)
        BY <2>6, <4>1
      <4>3. Path[n][k + 1] = rest[k]
        BY <2>5, <4>1
      <4> QED
        BY <2>2, <4>1, <4>2, <4>3 DEF Climbs, rest
    <3> QED
      BY <3>1, <3>2
  <2>8. Up(BusAt(n, Len(Path[n]))) = {}
    <3>1. BusAt(n, Len(rest) + 1) = BusAt(b.bus, Len(rest))
      BY <2>5, <2>6
    <3> QED
      BY <2>2, <2>5, <3>1 DEF Climbs, rest
  <2> QED
    BY <2>5, <2>7, <2>8 DEF Climbs
<1> QED
  BY <1>3, <1>4

\* On bus 0 there is no bridge above.
LEMMA RootHasNone ==
  ASSUME machine \in Machines
  PROVE  Up(0) = {}
<1> SUFFICES ASSUME NEW i \in Up(0) PROVE FALSE
  OBVIOUS
<1>1. i \in DOMAIN F /\ F[i].bus < 0
  BY DEF Up, Bridges
<1>2. F[i].bus \in Nat
  BY <1>1, MachineType DEF Functions
<1> QED
  BY <1>1, <1>2

LEMMA TurnsType ==
  ASSUME NEW path \in Seq(Functions), NEW k \in 0..Len(path)
  PROVE  Turns(path)[k] \in Nat
<1> DEFINE Bad == {n \in 0..Len(path) : Turns(path)[n] \notin Nat}
<1> SUFFICES ASSUME Bad # {} PROVE FALSE
  OBVIOUS
<1>1. PICK n \in Bad : \A j \in Bad : n <= j
  <2>1. Bad \subseteq Nat
    OBVIOUS
  <2> HIDE DEF Bad
  <2> QED
    BY <2>1, LeastNat
<1>2. n \in 0..Len(path) /\ n \in Nat
  OBVIOUS
<1>3. CASE n = 0
  <2>1. Turns(path)[0] = 0
    BY TurnsDef
  <2> QED
    BY <1>3, <2>1
<1>4. CASE n # 0
  <2>1. Turns(path)[n] = Turns(path)[n - 1] + path[n].dev
    BY <1>2, <1>4, TurnsDef
  <2>2. n - 1 \in 0..Len(path) /\ n - 1 < n /\ n \in 1..Len(path)
    BY <1>2, <1>4
  <2>3. Turns(path)[n - 1] \in Nat
    BY <1>1, <2>2
  <2>4. path[n] \in Functions
    BY <2>2
  <2>5. path[n].dev \in Nat
    BY <2>4 DEF Functions
  <2> QED
    BY <2>1, <2>3, <2>5
<1> QED
  BY <1>3, <1>4

LEMMA ModSum ==
  ASSUME NEW a \in Nat, NEW b \in Nat
  PROVE  (a + (b % 4)) % 4 = (b + a) % 4
<1>1. b = 4 * (b \div 4) + (b % 4) /\ b % 4 \in 0..3 /\ b \div 4 \in Nat
  OBVIOUS
<1> DEFINE r == b % 4
           q == b \div 4
<1>2. b = 4 * q + r /\ r \in 0..3 /\ q \in Nat
  BY <1>1
<1> HIDE DEF r, q
<1>3. (a + r) % 4 = (4 * q + r + a) % 4
  BY <1>2
<1> QED
  BY <1>2, <1>3 DEF r

\* One bridge up the pin is turned by the device number, as the code turns it.
LEMMA PinTurns ==
  ASSUME machine \in Machines, NEW f \in Functions, f.pin \in 1..4,
         NEW k \in 0..(Len(PathOf(f)) - 1)
  PROVE  /\ PinOn(f, k + 1) = 1 + ((DevAt(f, k) + PinOn(f, k) - 1) % 4)
         /\ PinOn(f, k) \in 1..4 /\ DevAt(f, k) \in Nat
<1> DEFINE path == PathOf(f)
           base == f.pin - 1 + f.dev
           sum == Turns(path)
<1>1. f.dev \in Nat /\ f.bus \in Nat /\ base \in Nat
  BY DEF Functions
<1>2. path \in Seq(Functions)
  BY <1>1, PathClimbs DEF Climbs, PathOf
<1>3. k \in Nat /\ k + 1 \in 1..Len(path) /\ Len(path) \in Nat /\ k \in 0..Len(path)
  BY <1>2
<1>4. sum[k] \in Nat
  BY <1>2, <1>3, TurnsType
<1>5. PinOn(f, k + 1) = 1 + ((base + sum[k]) % 4)
  BY <1>3 DEF PinOn, PinAt
<1>6. CASE k = 0
  <2>1. sum[0] = 0
    BY TurnsDef
  <2> QED
    BY <1>1, <1>5, <1>6, <2>1 DEF DevAt, PinOn
<1>7. CASE k # 0
  <2>1. sum[k] = sum[k - 1] + path[k].dev
    BY <1>3, <1>7, TurnsDef
  <2>2. k - 1 \in 0..Len(path) /\ k \in 1..Len(path)
    BY <1>3, <1>7
  <2>3. sum[k - 1] \in Nat /\ path[k] \in Functions
    BY <1>2, <2>2, TurnsType
  <2>4. path[k].dev \in Nat
    BY <2>3 DEF Functions
  <2>5. DevAt(f, k) = path[k].dev /\ PinOn(f, k) = 1 + ((base + sum[k - 1]) % 4)
    BY <1>7 DEF DevAt, PinOn, PinAt
  <2> HIDE DEF sum, path, base
  <2>6. base + sum[k - 1] \in Nat
    BY <1>1, <2>3
  <2> DEFINE d == path[k].dev
             b == base + sum[k - 1]
  <2>7. base + sum[k] = b + d
    BY <1>1, <2>1, <2>3, <2>4
  <2>8. b \in Nat /\ d \in Nat /\ DevAt(f, k) = d /\ PinOn(f, k) = 1 + (b % 4)
        /\ PinOn(f, k + 1) = 1 + ((b + d) % 4)
    BY <1>5, <2>4, <2>5, <2>6, <2>7
  <2> HIDE DEF b, d
  <2>9. (d + (b % 4)) % 4 = (b + d) % 4
    BY <2>8, ModSum
  <2>10. b % 4 \in 0..3
    BY <2>8
  <2>11. d + (1 + (b % 4)) - 1 = d + (b % 4)
    BY <2>8, <2>10
  <2> QED
    BY <2>8, <2>9, <2>10, <2>11
<1> QED
  BY <1>6, <1>7

\* What the reference interrupt is.
LEMMA InterruptIs ==
  ASSUME machine \in Machines, NEW f \in Functions
  PROVE  /\ f.pin \notin 1..4 => Interrupt(f) = ERROR
         /\ f.pin \in 1..4 /\ FindMpEntry(f.bus, f.dev, f.pin) # ERROR
              => Interrupt(f) = FindMpEntry(f.bus, f.dev, f.pin)
         /\ f.pin \in 1..4 /\ FindMpEntry(f.bus, f.dev, f.pin) = ERROR =>
              /\ (\A k \in 1..Len(PathOf(f)) : EntryAt(f, k) < IOAPIC_PIRQA_INT_LVL)
                   => Interrupt(f) = ERROR
              /\ \A k \in 1..Len(PathOf(f)) :
                   /\ EntryAt(f, k) >= IOAPIC_PIRQA_INT_LVL
                   /\ \A j \in 1..(k - 1) : EntryAt(f, j) < IOAPIC_PIRQA_INT_LVL
                   => Interrupt(f) = EntryAt(f, k)
<1> DEFINE path == PathOf(f)
           at == [k \in DOMAIN path |->
                    FindMpEntry(path[k].bus, path[k].dev, PinAt(f, path, k))]
           hits == {k \in DOMAIN path : at[k] >= IOAPIC_PIRQA_INT_LVL}
           own == FindMpEntry(f.bus, f.dev, f.pin)
<1>1. Interrupt(f) =
        IF f.pin \notin 1..4 THEN ERROR
        ELSE IF own # ERROR THEN own
        ELSE IF hits = {} THEN ERROR ELSE at[CHOOSE k \in hits : \A j \in hits : k <= j]
  BY DEF Interrupt
<1>2. path \in Seq(Functions)
  <2>1. f.bus \in Nat
    BY DEF Functions
  <2> QED
    BY <2>1, PathClimbs DEF Climbs, PathOf
<1>3. DOMAIN path = 1..Len(path) /\ Len(path) \in Nat
  BY <1>2
<1>4. \A k \in 1..Len(path) : at[k] = EntryAt(f, k) /\ at[k] \in Nat \cup {ERROR}
  BY <1>3, EntryType DEF EntryAt
<1>5. ASSUME own = ERROR, f.pin \in 1..4,
             \A k \in 1..Len(path) : EntryAt(f, k) < IOAPIC_PIRQA_INT_LVL
      PROVE  Interrupt(f) = ERROR
  <2>1. \A k \in DOMAIN path : at[k] < IOAPIC_PIRQA_INT_LVL /\ at[k] \in Nat \cup {ERROR}
    BY <1>3, <1>4, <1>5
  <2>2. hits = {}
    <3> HIDE DEF at, path
    <3> QED
      BY <2>1 DEF IOAPIC_PIRQA_INT_LVL, ERROR
  <2> QED
    BY <1>1, <1>5, <2>2
<1>6. ASSUME own = ERROR, f.pin \in 1..4, NEW k \in 1..Len(path),
             EntryAt(f, k) >= IOAPIC_PIRQA_INT_LVL,
             \A j \in 1..(k - 1) : EntryAt(f, j) < IOAPIC_PIRQA_INT_LVL
      PROVE  Interrupt(f) = EntryAt(f, k)
  <2> HIDE DEF at, path
  <2>1. k \in hits
    BY <1>3, <1>4, <1>6
  <2>2. ASSUME NEW j \in hits PROVE k <= j
    <3>1. j \in 1..Len(path) /\ at[j] >= IOAPIC_PIRQA_INT_LVL
      BY <1>3
    <3>2. at[j] = EntryAt(f, j) /\ at[j] \in Nat \cup {ERROR}
      BY <1>4, <3>1
    <3>3. j \notin 1..(k - 1)
      BY <1>6, <3>1, <3>2 DEF IOAPIC_PIRQA_INT_LVL, ERROR
    <3> QED
      BY <1>3, <3>1, <3>3
  <2>3. hits \subseteq Nat
    BY <1>3
  <2> DEFINE first == CHOOSE i \in hits : \A j \in hits : i <= j
  <2> HIDE DEF hits
  <2>4. first \in hits /\ \A j \in hits : first <= j
    BY <2>1, <2>2
  <2>5. first = k
    <3>1. first <= k /\ k <= first /\ first \in Nat /\ k \in Nat
      BY <2>1, <2>2, <2>3, <2>4
    <3> QED
      BY <3>1
  <2>6. Interrupt(f) = at[first]
    BY <1>1, <1>6, <2>1
  <2> QED
    BY <1>4, <2>5, <2>6
<1> QED
  BY <1>1, <1>5, <1>6

-----------------------------------------------------------------------------
(* Types.                                                                  *)

Scanning == stage \in {"route", "show"}
TypeInv ==
  /\ machine \in Machines
  /\ TypeOK
  /\ climb # NoClimb => Scanning /\ pos \in DOMAIN F

LEMMA PirqType ==
  ASSUME NEW irq \in Nat
  PROVE  Pirq(irq) \in Pirqs
BY DEF Pirq, Pirqs, N_IOAPIC_PIRQS

LEMMA ProgType ==
  ASSUME TypeInv, NEW irq \in Nat, Prog(irq), pos \in DOMAIN F
  PROVE  line' \in [DOMAIN F -> 0..255] /\ isaOff' \subseteq Pirqs
<1>1. line \in [DOMAIN F -> 0..255] /\ isaOff \subseteq Pirqs
  BY DEF TypeInv, TypeOK
<1>2. CASE UNCHANGED <<line, isaOff>>
  BY <1>1, <1>2
<1>3. CASE ~TooWide(irq) /\ ProgIrq(irq)
  <2>1. irq \in 0..255
    BY <1>3 DEF TooWide
  <2> QED
    BY <1>1, <1>3, <2>1, PirqType DEF ProgIrq
<1> QED
  BY <1>2, <1>3 DEF Prog, ProgIrq

\* The list holds bridges, which are functions.
LEMMA ListedBridge ==
  ASSUME TypeInv, NEW k \in DOMAIN list
  PROVE  list[k] \in Bridges /\ list[k] \in DOMAIN F /\ F[list[k]] \in Functions
<1>1. list[k] \in Bridges
  BY DEF TypeInv, TypeOK
<1> QED
  BY <1>1, MachineType DEF TypeInv, Bridges

\* The first listed bridge above the bus the climb is on.
First == list[CHOOSE k \in Above : \A j \in Above : k <= j]

LEMMA FirstAbove ==
  ASSUME TypeInv, Above # {}
  PROVE  \E k \in Above : First = list[k]
<1>1. Above \subseteq Nat
  BY DEF Above, TypeInv, TypeOK
<1>2. \E k \in Above : \A j \in Above : k <= j
  BY <1>1, LeastNat
<1> QED
  BY <1>2 DEF First

LEMMA FirstType ==
  ASSUME TypeInv, Above # {}
  PROVE  /\ First \in Bridges /\ F[First] \in Functions /\ F[First].sec = climb.bus
         /\ F[First].bus \in Nat /\ F[First].dev \in Nat
<1>1. PICK k \in Above : First = list[k]
  BY FirstAbove
<1>2. k \in DOMAIN list /\ F[list[k]].sec = climb.bus
  BY DEF Above
<1>3. F[First] \in Functions /\ First \in Bridges
  BY <1>1, <1>2, ListedBridge
<1> QED
  BY <1>1, <1>2, <1>3 DEF Functions

LEMMA PinPriType ==
  ASSUME NEW b \in Functions, climb.dev \in Nat, climb.pin \in 1..256
  PROVE  PinPri(b) + 1 \in 1..256
<1>1. climb.dev + climb.pin - 1 \in Nat
  OBVIOUS
<1>2. Swizzle(b) \in 0..3
  BY <1>1 DEF Swizzle
<1>3. b.pin \in 0..255
  BY DEF Functions
<1> QED
  BY <1>2, <1>3 DEF PinPri

LEMMA TypeInit == Init => TypeInv
<1> SUFFICES ASSUME Init PROVE TypeInv
  OBVIOUS
<1>1. machine \in Machines /\ Firmware \in 0..255 /\ MaxFails \in Nat /\ MaxCalls \in Nat
  BY RouteAssumption DEF Init
<1>2. Len(F) \in Nat
  BY <1>1, MachineType
<1>3. line \in [DOMAIN F -> 0..255]
  BY <1>1 DEF Init, F
<1>4. isaOff \subseteq Pirqs
  BY DEF Init, Pirqs, N_IOAPIC_PIRQS
<1>5. list \in Seq(Bridges) /\ pos \in 1..(Len(F) + 1)
  BY <1>2 DEF Init
<1>6. /\ stage \in {"idle", "find", "route", "show"} /\ enable \in BOOLEAN
      /\ done \in {"none", "partial", "enabled", "disabled"}
      /\ fails \in 0..MaxFails /\ calls \in 0..MaxCalls /\ climb = NoClimb
  <2>1. fails \in 0..MaxFails /\ calls \in 0..MaxCalls
    BY <1>1 DEF Init
  <2> QED
    BY <2>1, Zenon DEF Init
<1> QED
  BY <1>1, <1>3, <1>4, <1>5, <1>6 DEF TypeInv, TypeOK

\* A function is done with, or the climb from it begins.
LEMMA TypeVisit ==
  ASSUME TypeInv, Visit
  PROVE  TypeInv'
<1> DEFINE f == F[pos]
           irq == FindMpEntry(f.bus, f.dev, f.pin)
<1>1. pos \in DOMAIN F /\ Len(F) \in Nat /\ pos + 1 \in 1..(Len(F) + 1)
  BY MachineType DEF TypeInv, TypeOK, Visit
<1>2. f \in Functions /\ f.bus \in Nat /\ f.dev \in Nat
  BY <1>1, MachineType DEF TypeInv, Functions
<1>3. UNCHANGED <<machine, list, stage, enable, done, fails, calls>> /\ Scanning
  BY DEF Visit, Scanning
<1>4. irq \in Nat \cup {ERROR}
  BY EntryType DEF TypeInv
<1> HIDE DEF irq
<1>5. /\ line' \in [DOMAIN F -> 0..255] /\ isaOff' \subseteq Pirqs
      /\ \/ pos' = pos + 1 /\ climb' = NoClimb
         \/ /\ climb' = [bus |-> f.bus, dev |-> f.dev, pin |-> f.pin]
            /\ f.pin \in 1..4 /\ pos' = pos
  <2>1. CASE f.pin \notin 1..4 /\ NextFunction /\ UNCHANGED <<line, isaOff>>
    BY <2>1 DEF TypeInv, TypeOK, NextFunction
  <2>2. CASE irq # ERROR /\ Prog(irq) /\ NextFunction
    BY <1>1, <1>4, <2>2, ProgType DEF NextFunction
  <2>3. CASE /\ f.pin \in 1..4 /\ UNCHANGED <<line, isaOff>>
             /\ IF list = <<>> THEN NextFunction
                ELSE /\ climb' = [bus |-> f.bus, dev |-> f.dev, pin |-> f.pin]
                     /\ UNCHANGED pos
    BY <2>3 DEF TypeInv, TypeOK, NextFunction
  <2> QED
    BY <2>1, <2>2, <2>3 DEF Visit, irq
<1>6. climb' \in [bus : Nat, dev : Nat, pin : 1..256] \cup {NoClimb}
  BY <1>2, <1>5
<1>7. pos' \in 1..(Len(F) + 1) /\ (climb' # NoClimb => pos' \in DOMAIN F)
  BY <1>1, <1>5
<1> QED
  BY <1>3, <1>5, <1>6, <1>7 DEF TypeInv, TypeOK, F, Scanning, Bridges

LEMMA TypeClimb ==
  ASSUME TypeInv, Climb
  PROVE  TypeInv'
<1> DEFINE b == F[First]
           pin == PinPri(b) + 1
           irq == FindMpEntry(b.bus, b.dev, pin)
<1>1. climb # NoClimb /\ Scanning
      /\ UNCHANGED <<machine, list, stage, enable, done, fails, calls>>
  BY DEF Climb, Scanning
<1>2. pos \in DOMAIN F /\ Len(F) \in Nat /\ pos + 1 \in 1..(Len(F) + 1)
  BY <1>1, MachineType DEF TypeInv
<1>3. climb.dev \in Nat /\ climb.pin \in 1..256
  BY <1>1 DEF TypeInv, TypeOK
<1>4. irq \in Nat \cup {ERROR}
  BY EntryType DEF TypeInv
<1>5. Above # {} => b \in Functions /\ b.bus \in Nat /\ b.dev \in Nat /\ pin \in 1..256
  BY <1>3, FirstType, PinPriType
<1> HIDE DEF irq, pin, b
<1>6. /\ line' \in [DOMAIN F -> 0..255] /\ isaOff' \subseteq Pirqs
      /\ \/ pos' = pos + 1 /\ climb' = NoClimb
         \/ /\ climb' = [bus |-> b.bus, dev |-> b.dev, pin |-> pin]
            /\ Above # {} /\ pos' = pos
  <2>1. CASE NextFunction /\ UNCHANGED <<line, isaOff>>
    BY <2>1 DEF TypeInv, TypeOK, NextFunction
  <2>2. CASE irq >= IOAPIC_PIRQA_INT_LVL /\ Prog(irq) /\ NextFunction
    <3>1. irq \in Nat
      BY <1>4, <2>2 DEF IOAPIC_PIRQA_INT_LVL, ERROR
    <3> QED
      BY <1>2, <2>2, <3>1, ProgType DEF NextFunction
  <2>3. CASE /\ Above # {} /\ UNCHANGED <<line, isaOff, pos>>
             /\ climb' = [bus |-> b.bus, dev |-> b.dev, pin |-> pin]
    BY <2>3 DEF TypeInv, TypeOK
  <2> QED
    BY <2>1, <2>2, <2>3 DEF Climb, irq, pin, b, First
<1>7. climb' \in [bus : Nat, dev : Nat, pin : 1..256] \cup {NoClimb}
  BY <1>5, <1>6
<1>8. pos' \in 1..(Len(F) + 1) /\ (climb' # NoClimb => pos' \in DOMAIN F)
  BY <1>2, <1>6
<1> QED
  BY <1>1, <1>6, <1>7, <1>8 DEF TypeInv, TypeOK, F, Scanning, Bridges

LEMMA TypeStep == TypeInv /\ [Next]_vars => TypeInv'
<1> SUFFICES ASSUME TypeInv, [Next]_vars PROVE TypeInv'
  OBVIOUS
<1>1. Len(F) \in Nat /\ DOMAIN F = 1..Len(F)
  BY MachineType DEF TypeInv
<1> DEFINE Ends == /\ UNCHANGED <<machine, list, climb, line, isaOff, fails>>
                   /\ climb = NoClimb /\ enable' \in BOOLEAN
                   /\ pos' \in 1..(Len(F) + 1)
                   /\ stage' \in {"idle", "find", "route", "show"}
                   /\ done' \in {"none", "partial", "enabled", "disabled"}
                   /\ calls' \in 0..MaxCalls
<1>0. Ends => TypeInv'
  BY DEF TypeInv, TypeOK, F, Scanning, Bridges
<1>2. CASE (\E e \in BOOLEAN : PirqEnable(e)) \/ PirqShow
  <2>1. climb = NoClimb
    BY <1>2 DEF PirqEnable, PirqShow, TypeInv, Scanning
  <2>2. calls' \in 0..MaxCalls
    BY <1>2, RouteAssumption DEF PirqEnable, PirqShow, TypeInv, TypeOK
  <2>3. UNCHANGED <<machine, list, climb, line, isaOff, fails, done>>
    BY <1>2 DEF PirqEnable, PirqShow
  <2>4. enable' \in BOOLEAN /\ stage' \in {"idle", "find", "route", "show"}
    BY <1>2 DEF PirqEnable, PirqShow, TypeInv, TypeOK
  <2>5. pos' \in 1..(Len(F) + 1)
    BY <1>1, <1>2 DEF PirqEnable, PirqShow
  <2>6. done' \in {"none", "partial", "enabled", "disabled"}
    BY <2>3 DEF TypeInv, TypeOK
  <2> QED
    BY <1>0, <2>1, <2>2, <2>3, <2>4, <2>5, <2>6
<1>3. CASE FindBridge
  <2>1. pos + 1 \in 1..(Len(F) + 1) /\ pos \in DOMAIN F
    BY <1>1, <1>3 DEF FindBridge, TypeInv, TypeOK
  <2>2. list' \in Seq(Bridges)
    <3>1. list \in Seq(Bridges)
      BY DEF TypeInv, TypeOK
    <3>2. CASE list' = Append(list, pos) /\ pos \in Bridges
      BY <3>1, <3>2
    <3>3. CASE list' = list
      BY <3>1, <3>3
    <3> QED
      BY <1>3, <3>2, <3>3 DEF FindBridge
  <2>3. fails' \in 0..MaxFails
    BY <1>3, RouteAssumption DEF FindBridge, TypeInv, TypeOK
  <2>4. pos' \in 1..(Len(F) + 1) /\ stage' \in {"find", "route"} /\ climb' = NoClimb
    BY <1>1, <1>3, <2>1 DEF FindBridge, TypeInv, TypeOK, Scanning
  <2>5. UNCHANGED <<machine, enable, climb, line, isaOff, done, calls>>
    BY <1>3 DEF FindBridge
  <2> QED
    BY <2>2, <2>3, <2>4, <2>5 DEF TypeInv, TypeOK, F, Bridges
<1>4. CASE FindEnd
  <2>1. climb = NoClimb
    BY <1>4 DEF FindEnd, TypeInv, Scanning
  <2> QED
    BY <1>0, <1>1, <1>4, <2>1 DEF FindEnd, TypeInv, TypeOK
<1>5. CASE Return
  <2>1. climb = NoClimb
    BY <1>1, <1>5 DEF Return, TypeInv, TypeOK
  <2>2. done' \in {"none", "partial", "enabled", "disabled"}
    BY <1>5 DEF Return, TypeInv, TypeOK
  <2> QED
    BY <1>0, <1>5, <2>1, <2>2 DEF Return, TypeInv, TypeOK
<1>6. CASE UNCHANGED vars
  BY <1>6 DEF vars, TypeInv, TypeOK, F, Scanning, Bridges
<1> QED
  BY <1>2, <1>3, <1>4, <1>5, <1>6, TypeVisit, TypeClimb DEF Next, Step

\* On any machine the list holds bridges, the climb has a pin, and what is
\* written to an INT_LINE fits it.
THEOREM TypeCorrect == Spec => []TypeOK
<1>1. TypeInv => TypeOK
  BY DEF TypeInv
<1> QED
  BY <1>1, TypeInit, TypeStep, PTL DEF Spec

-----------------------------------------------------------------------------
(* What the climb finds, and what it leaves.                               *)

\* The climb is where the reference path is, and no slot on the way had a PCI
\* interrupt.
ClimbInv ==
  \A i \in DOMAIN F : i = pos /\ climb # NoClimb =>
    /\ F[i].pin \in 1..4 /\ FindMpEntry(F[i].bus, F[i].dev, F[i].pin) = ERROR
    /\ Configured /\ Plain(F[i]) =>
         \E k \in 0..Len(PathOf(F[i])) :
           /\ climb = [bus |-> BusAt(F[i].bus, k), dev |-> DevAt(F[i], k),
                       pin |-> PinOn(F[i], k)]
           /\ \A j \in 1..k : EntryAt(F[i], j) < IOAPIC_PIRQA_INT_LVL

\* A line holds what the firmware or its slot says; those an enabling with the
\* whole list has passed hold the latter.
LineInv ==
  Configured =>
    \A i \in DOMAIN F : Plain(F[i]) =>
      /\ line[i] \in {Firmware, Target(i)}
      /\ done = "enabled" => line[i] = Target(i)
      /\ stage = "route" /\ Whole /\ enable /\ i < pos => line[i] = Target(i)

\* The PIRQs nobody uses are as the firmware left them; those of the functions
\* that were passed are as the call says.
AllPlain == \A i \in DOMAIN F : Plain(F[i])
PirqOf(i) == Interrupt(F[i]) - IOAPIC_PIRQA_INT_LVL
PirqInv ==
  Configured /\ AllPlain =>
    \A p \in Pirqs \ {0} :
      /\ (\A i \in DOMAIN F : PirqOf(i) # p) => (p \in isaOff <=> p = N_IOAPIC_PIRQS - 1)
      /\ \A i \in DOMAIN F : PirqOf(i) = p =>
           /\ stage = "route" /\ Whole /\ i < pos => (p \in isaOff <=> enable)
           /\ stage # "route" /\ done = "enabled" => p \in isaOff
           /\ stage # "route" /\ done = "disabled" => p \notin isaOff

RouteInv == TypeInv /\ ClimbInv /\ LineInv /\ PirqInv

LEMMA SameMachine ==
  ASSUME machine' = machine
  PROVE  /\ F' = F /\ Bridges' = Bridges /\ Configured' = Configured
         /\ AllPlain' = AllPlain
         /\ \A i : /\ Target(i)' = Target(i) /\ PirqOf(i)' = PirqOf(i)
                   /\ Plain(F[i])' = Plain(F[i]) /\ PathOf(F[i])' = PathOf(F[i])
         /\ \A i, k : /\ BusAt(F[i].bus, k)' = BusAt(F[i].bus, k)
                      /\ DevAt(F[i], k)' = DevAt(F[i], k)
                      /\ PinOn(F[i], k)' = PinOn(F[i], k)
                      /\ EntryAt(F[i], k)' = EntryAt(F[i], k)
<1>1. F' = F /\ Bridges' = Bridges /\ Configured' = Configured
  BY DEF F, Bridges, Configured
<1>2. Path' = Path
  BY SamePath
<1>3. ASSUME NEW i
      PROVE  /\ Target(i)' = Target(i) /\ PirqOf(i)' = PirqOf(i)
             /\ Plain(F[i])' = Plain(F[i]) /\ PathOf(F[i])' = PathOf(F[i])
  <2>1. Interrupt(F[i])' = Interrupt(F[i]) /\ Plain(F[i])' = Plain(F[i])
    BY SameInterrupt
  <2>2. PathOf(F[i])' = PathOf(F[i])
    BY <1>2 DEF PathOf, F
  <2> QED
    BY <2>1, <2>2 DEF Target, PirqOf
<1>4. ASSUME NEW i, NEW k
      PROVE  /\ BusAt(F[i].bus, k)' = BusAt(F[i].bus, k)
             /\ DevAt(F[i], k)' = DevAt(F[i], k)
             /\ PinOn(F[i], k)' = PinOn(F[i], k)
             /\ EntryAt(F[i], k)' = EntryAt(F[i], k)
  <2>1. BusAt(F[i].bus, k)' = BusAt(F[i].bus, k)
    BY <1>2 DEF BusAt, F
  <2>2. DevAt(F[i], k)' = DevAt(F[i], k)
    BY <1>2 DEF DevAt, PathOf, F
  <2>3. PinOn(F[i], k)' = PinOn(F[i], k)
    BY <1>2 DEF PinOn, PathOf, F, PinAt, Turns
  <2>4. EntryAt(F[i], k)' = EntryAt(F[i], k)
    BY <1>2 DEF EntryAt, PathOf, FindMpEntry, F, PinAt, Turns
  <2> QED
    BY <2>1, <2>2, <2>3, <2>4
<1>5. AllPlain' = AllPlain
  BY <1>1, <1>3 DEF AllPlain
<1> QED
  BY <1>1, <1>3, <1>4, <1>5

\* The one bridge above a bus, however often it is listed.
LEMMA OneAbove ==
  ASSUME TypeInv, BusTree, Configured, NEW i \in Bridges
  PROVE  Up(F[i].sec) = {i} /\ Nearest(F[i].sec) = F[i]
<1>1. machine \in Machines /\ i \in DOMAIN machine.funcs /\ F[i].sec # 0
  BY DEF TypeInv, Bridges, Configured, F
<1>2. F[i].bus < F[i].sec
  BY <1>1 DEF BusTree, Bridges, F
<1>3. \A j \in Bridges : F[j].sec = F[i].sec => j = i
  BY <1>1 DEF BusTree, Bridges, F
<1>4. Up(F[i].sec) = {i}
  BY <1>2, <1>3 DEF Up
<1> QED
  BY <1>4 DEF Nearest

\* With the whole list, a bus with no listed bridge above has none above.
LEMMA NoneAbove ==
  ASSUME TypeInv, Whole, Above = {}
  PROVE  Up(climb.bus) = {}
BY DEF Whole, Above, Up

\* How a function is done with: its interrupt is programmed, it has none, or the
\* climb goes on.
ProgDone ==
  /\ pos' = pos + 1 /\ climb' = NoClimb
  /\ \E irq \in Nat : /\ Prog(irq)
                      /\ Configured /\ Plain(F[pos]) => irq = Interrupt(F[pos])
NoneDone ==
  /\ pos' = pos + 1 /\ climb' = NoClimb /\ UNCHANGED <<line, isaOff>>
  /\ Configured /\ Plain(F[pos]) /\ Whole => Interrupt(F[pos]) = ERROR
GoesOn == UNCHANGED <<pos, line, isaOff>> /\ ClimbInv'

\* The climb goes on to where the reference path is.
LEMMA ClimbGoes ==
  ASSUME TypeInv, machine' = machine, pos' = pos, pos \in DOMAIN F,
         F[pos].pin \in 1..4,
         FindMpEntry(F[pos].bus, F[pos].dev, F[pos].pin) = ERROR,
         Configured /\ Plain(F[pos]) =>
           \E k \in 0..Len(PathOf(F[pos])) :
             /\ climb' = [bus |-> BusAt(F[pos].bus, k), dev |-> DevAt(F[pos], k),
                          pin |-> PinOn(F[pos], k)]
             /\ \A j \in 1..k : EntryAt(F[pos], j) < IOAPIC_PIRQA_INT_LVL
  PROVE  ClimbInv'
<1>1. F' = F /\ Configured' = Configured
  BY SameMachine
<1>2. SUFFICES
        ASSUME NEW i \in DOMAIN F, i = pos, climb' # NoClimb
        PROVE  /\ F[i].pin \in 1..4
               /\ FindMpEntry(F[i].bus, F[i].dev, F[i].pin)' = ERROR
               /\ Configured /\ Plain(F[i])' =>
                    \E k \in 0..Len(PathOf(F[i])') :
                      /\ climb' = [bus |-> BusAt(F[i].bus, k)', dev |-> DevAt(F[i], k)',
                                   pin |-> PinOn(F[i], k)']
                      /\ \A j \in 1..k : EntryAt(F[i], j)' < IOAPIC_PIRQA_INT_LVL
  BY <1>1 DEF ClimbInv
<1>3. FindMpEntry(F[i].bus, F[i].dev, F[i].pin)'
        = FindMpEntry(F[i].bus, F[i].dev, F[i].pin)
  BY <1>1 DEF FindMpEntry, F
<1>4. /\ Plain(F[i])' = Plain(F[i]) /\ PathOf(F[i])' = PathOf(F[i])
      /\ \A k : /\ BusAt(F[i].bus, k)' = BusAt(F[i].bus, k)
                /\ DevAt(F[i], k)' = DevAt(F[i], k)
                /\ PinOn(F[i], k)' = PinOn(F[i], k)
                /\ EntryAt(F[i], k)' = EntryAt(F[i], k)
  BY SameMachine
<1> QED
  BY <1>2, <1>3, <1>4

LEMMA VisitOutcome ==
  ASSUME TypeInv, Visit
  PROVE  ProgDone \/ NoneDone \/ GoesOn
<1> DEFINE f == F[pos]
           irq == FindMpEntry(f.bus, f.dev, f.pin)
<1>1. pos \in DOMAIN F /\ f \in Functions /\ f.bus \in Nat /\ machine' = machine
  BY MachineType DEF TypeInv, TypeOK, Visit, Functions
<1>2. irq \in Nat \cup {ERROR}
  BY EntryType DEF TypeInv
<1> HIDE DEF irq
<1>3. CASE f.pin \notin 1..4 /\ NextFunction /\ UNCHANGED <<line, isaOff>>
  BY <1>1, <1>3, InterruptIs DEF NoneDone, NextFunction, TypeInv
<1>4. CASE f.pin \in 1..4 /\ irq # ERROR /\ Prog(irq) /\ NextFunction
  <2>1. Interrupt(f) = irq
    BY <1>1, <1>4, InterruptIs DEF TypeInv, irq
  <2> QED
    BY <1>2, <1>4, <2>1 DEF ProgDone, NextFunction
<1>5. CASE /\ f.pin \in 1..4 /\ irq = ERROR /\ list = <<>>
           /\ NextFunction /\ UNCHANGED <<line, isaOff>>
  <2>1. ASSUME Whole PROVE Interrupt(f) = ERROR
    <3>1. DOMAIN list = {}
      BY <1>5
    <3>2. Bridges = {}
      BY <2>1, <3>1 DEF Whole
    <3>3. Up(f.bus) = {}
      BY <3>2 DEF Up
    <3>4. PathOf(f) = <<>>
      BY <1>1, <3>3, PathDef DEF PathOf, TypeInv
    <3>5. Len(PathOf(f)) = 0
      BY <3>4
    <3>6. \A k \in 1..Len(PathOf(f)) : EntryAt(f, k) < IOAPIC_PIRQA_INT_LVL
      BY <3>5
    <3> QED
      BY <1>1, <1>5, <3>6, InterruptIs DEF TypeInv, irq
  <2> QED
    BY <1>5, <2>1 DEF NoneDone, NextFunction
<1>6. CASE /\ f.pin \in 1..4 /\ irq = ERROR /\ UNCHANGED <<pos, line, isaOff>>
           /\ climb' = [bus |-> f.bus, dev |-> f.dev, pin |-> f.pin]
  <2> SUFFICES \E k \in 0..Len(PathOf(f)) :
                 /\ climb' = [bus |-> BusAt(f.bus, k), dev |-> DevAt(f, k),
                              pin |-> PinOn(f, k)]
                 /\ \A j \in 1..k : EntryAt(f, j) < IOAPIC_PIRQA_INT_LVL
    BY <1>1, <1>6, ClimbGoes DEF GoesOn, irq
  <2>1. climb' = [bus |-> BusAt(f.bus, 0), dev |-> DevAt(f, 0), pin |-> PinOn(f, 0)]
    BY <1>6 DEF BusAt, DevAt, PinOn
  <2>2. 0 \in 0..Len(PathOf(f))
    BY <1>1, PathClimbs DEF PathOf, Climbs, TypeInv
  <2> QED
    BY <2>1, <2>2
<1> QED
  BY <1>3, <1>4, <1>5, <1>6 DEF Visit, irq

\* One bridge up: the bridge the code finds is the next one of the path, and the
\* pin it looks for the one the path gives.
LEMMA OneUp ==
  ASSUME RouteInv, BusTree, Configured, climb # NoClimb, Above # {}, Plain(F[pos]),
         NEW k \in 0..Len(PathOf(F[pos])),
         climb = [bus |-> BusAt(F[pos].bus, k), dev |-> DevAt(F[pos], k),
                  pin |-> PinOn(F[pos], k)]
  PROVE  /\ k + 1 \in 1..Len(PathOf(F[pos]))
         /\ F[First] = PathOf(F[pos])[k + 1]
         /\ PinPri(F[First]) + 1 = PinOn(F[pos], k + 1)
<1> DEFINE f == F[pos]
           path == PathOf(f)
<1>1. TypeInv /\ machine \in Machines /\ pos \in DOMAIN F
  BY DEF RouteInv, TypeInv
<1>2. f \in Functions /\ f.bus \in Nat /\ f.pin \in 1..4
  BY <1>1, MachineType DEF Functions, RouteInv, ClimbInv
<1>3. First \in Bridges /\ F[First].sec = BusAt(f.bus, k)
  BY <1>1, FirstType
<1>4. Up(BusAt(f.bus, k)) # {} /\ Nearest(BusAt(f.bus, k)) = F[First]
  <2>1. Up(F[First].sec) = {First} /\ Nearest(F[First].sec) = F[First]
    BY <1>1, <1>3, OneAbove
  <2> QED
    BY <1>3, <2>1
<1>5. Climbs(f.bus) /\ path = Path[f.bus]
  BY <1>1, <1>2, PathClimbs DEF PathOf
<1> HIDE DEF f, path
<1>6. path \in Seq(Functions) /\ Len(path) \in Nat /\ k \in 0..Len(path)
  BY <1>5 DEF Climbs, path, f
<1>7. k # Len(path)
  BY <1>4, <1>5 DEF Climbs
<1>8. k \in 0..(Len(path) - 1) /\ k + 1 \in 1..Len(path)
  BY <1>6, <1>7
<1>9. path[k + 1] = F[First]
  BY <1>4, <1>5, <1>8 DEF Climbs
<1>10. path[k + 1].kind = "p2p"
  BY <1>6, <1>8 DEF Plain, path, f
<1>11. PinOn(f, k + 1) = 1 + ((DevAt(f, k) + PinOn(f, k) - 1) % 4)
       /\ PinOn(f, k) \in 1..4 /\ DevAt(f, k) \in Nat
  BY <1>1, <1>2, <1>8, PinTurns DEF path
<1>12. PinPri(F[First]) = (climb.dev + climb.pin - 1) % 4
  BY <1>9, <1>10 DEF PinPri, Swizzle
<1>13. climb.dev = DevAt(f, k) /\ climb.pin = PinOn(f, k)
  BY DEF f
<1>14. (DevAt(f, k) + PinOn(f, k) - 1) % 4 \in 0..3
  BY <1>11
<1>15. PinPri(F[First]) + 1 = PinOn(f, k + 1)
  BY <1>11, <1>12, <1>13, <1>14
<1> QED
  BY <1>8, <1>9, <1>15 DEF path, f

LEMMA ClimbOutcome ==
  ASSUME RouteInv, BusTree, Climb
  PROVE  ProgDone \/ NoneDone \/ GoesOn
<1> DEFINE f == F[pos]
           path == PathOf(f)
           b == F[First]
           pin == PinPri(b) + 1
           irq == FindMpEntry(b.bus, b.dev, pin)
           At(k) == /\ climb = [bus |-> BusAt(f.bus, k), dev |-> DevAt(f, k),
                                pin |-> PinOn(f, k)]
                    /\ \A j \in 1..k : EntryAt(f, j) < IOAPIC_PIRQA_INT_LVL
<1>1. /\ TypeInv /\ machine \in Machines /\ pos \in DOMAIN F
      /\ climb # NoClimb /\ machine' = machine /\ stage \in {"route", "show"}
  BY DEF RouteInv, TypeInv, Climb
<1>2. /\ f \in Functions /\ f.bus \in Nat
      /\ f.pin \in 1..4 /\ FindMpEntry(f.bus, f.dev, f.pin) = ERROR
  BY <1>1, MachineType DEF Functions, RouteInv, ClimbInv
<1>3. ASSUME Configured, Plain(f) PROVE \E k \in 0..Len(path) : At(k)
  BY <1>1, <1>3 DEF RouteInv, ClimbInv
<1>4. Climbs(f.bus) /\ path = Path[f.bus] /\ Len(path) \in Nat
  <2>1. Climbs(f.bus)
    BY <1>1, <1>2, PathClimbs
  <2>2. path = Path[f.bus]
    BY DEF PathOf
  <2> HIDE DEF path, f
  <2>3. path \in Seq(Functions)
    BY <2>1, <2>2 DEF Climbs
  <2> QED
    BY <2>1, <2>2, <2>3
<1>5. irq \in Nat \cup {ERROR}
  BY <1>1, EntryType
<1>6. ASSUME Configured, Plain(f), Above # {}, NEW k \in 0..Len(path), At(k)
      PROVE  /\ k + 1 \in 1..Len(path) /\ b = path[k + 1] /\ pin = PinOn(f, k + 1)
             /\ irq = EntryAt(f, k + 1) /\ b.bus = BusAt(f.bus, k + 1)
             /\ b.dev = DevAt(f, k + 1)
  <2>1. k + 1 \in 1..Len(path) /\ b = path[k + 1] /\ pin = PinOn(f, k + 1)
    BY <1>1, <1>6, OneUp
  <2>2. k + 1 # 0 /\ k \in Nat
    BY <1>4, <1>6
  <2>3. pin = PinAt(f, path, k + 1)
    BY <2>1, <2>2 DEF PinOn
  <2> HIDE DEF b, pin
  <2> QED
    BY <1>4, <2>1, <2>2, <2>3 DEF EntryAt, BusAt, DevAt
<1>7. CASE Above = {} /\ NextFunction /\ UNCHANGED <<line, isaOff>>
  <2>1. ASSUME Configured, Plain(f), Whole PROVE Interrupt(f) = ERROR
    <3>1. PICK k \in 0..Len(path) : At(k)
      BY <1>3, <2>1
    <3>2. Up(BusAt(f.bus, k)) = {}
      BY <1>1, <1>7, <2>1, <3>1, NoneAbove
    <3>3. k = Len(path)
      <4>1. k \notin 0..(Len(path) - 1)
        BY <1>4, <3>2 DEF Climbs
      <4> QED
        BY <1>4, <4>1
    <3>4. \A j \in 1..Len(path) : EntryAt(f, j) < IOAPIC_PIRQA_INT_LVL
      BY <3>1, <3>3
    <3> QED
      BY <1>1, <1>2, <3>4, InterruptIs
  <2> QED
    BY <1>7, <2>1 DEF NoneDone, NextFunction
<1>8. CASE Above # {} /\ irq >= IOAPIC_PIRQA_INT_LVL /\ Prog(irq) /\ NextFunction
  <2>1. irq \in Nat
    <3> HIDE DEF irq
    <3> QED
      BY <1>5, <1>8 DEF ERROR, IOAPIC_PIRQA_INT_LVL
  <2>2. ASSUME Configured, Plain(f) PROVE irq = Interrupt(f)
    <3>1. PICK k \in 0..Len(path) : At(k)
      BY <1>3, <2>2
    <3>2. k + 1 \in 1..Len(path) /\ irq = EntryAt(f, k + 1)
      BY <1>6, <1>8, <2>2, <3>1
    <3>3. EntryAt(f, k + 1) >= IOAPIC_PIRQA_INT_LVL
      BY <1>8, <3>2
    <3>4. \A j \in 1..((k + 1) - 1) : EntryAt(f, j) < IOAPIC_PIRQA_INT_LVL
      BY <3>1
    <3>5. Interrupt(f) = EntryAt(f, k + 1)
      BY <1>1, <1>2, <3>2, <3>3, <3>4, InterruptIs
    <3> QED
      BY <3>2, <3>5
  <2> QED
    BY <1>8, <2>1, <2>2 DEF ProgDone, NextFunction
<1>9. ASSUME Configured, Plain(f), Above # {}, irq < IOAPIC_PIRQA_INT_LVL,
             NEW k \in 0..Len(path), At(k)
      PROVE  \A j \in 1..(k + 1) : EntryAt(f, j) < IOAPIC_PIRQA_INT_LVL
  <2>1. irq = EntryAt(f, k + 1) /\ k \in Nat
    BY <1>4, <1>6, <1>9
  <2> SUFFICES ASSUME NEW j \in 1..(k + 1) PROVE EntryAt(f, j) < IOAPIC_PIRQA_INT_LVL
    OBVIOUS
  <2>2. CASE j = k + 1
    BY <1>9, <2>1, <2>2
  <2>3. CASE j # k + 1
    <3>1. j \in 1..k
      BY <2>1, <2>3
    <3> QED
      BY <1>9, <3>1
  <2> QED
    BY <2>2, <2>3
<1>10. CASE /\ Above # {} /\ irq < IOAPIC_PIRQA_INT_LVL /\ AtRoot(b)
            /\ NextFunction /\ UNCHANGED <<line, isaOff>>
  <2>1. ASSUME Configured, Plain(f) PROVE Interrupt(f) = ERROR
    <3>1. PICK k \in 0..Len(path) : At(k)
      BY <1>3, <2>1
    <3>2. k + 1 \in 1..Len(path) /\ BusAt(f.bus, k + 1) = 0
      <4>1. b.bus = 0
        BY <1>10 DEF AtRoot
      <4> QED
        BY <1>6, <1>10, <2>1, <3>1, <4>1
    <3>3. Up(BusAt(f.bus, k + 1)) = {}
      BY <1>1, <3>2, RootHasNone
    <3>4. k + 1 = Len(path)
      <4>1. k + 1 \notin 0..(Len(path) - 1)
        BY <1>4, <3>3 DEF Climbs
      <4> QED
        BY <1>4, <3>2, <4>1
    <3>5. \A j \in 1..Len(path) : EntryAt(f, j) < IOAPIC_PIRQA_INT_LVL
      BY <1>9, <1>10, <2>1, <3>1, <3>4
    <3> QED
      BY <1>1, <1>2, <3>5, InterruptIs
  <2> QED
    BY <1>10, <2>1 DEF NoneDone, NextFunction
<1>11. CASE /\ Above # {} /\ irq < IOAPIC_PIRQA_INT_LVL
            /\ climb' = [bus |-> b.bus, dev |-> b.dev, pin |-> pin]
            /\ UNCHANGED <<pos, line, isaOff>>
  <2>1. ASSUME Configured, Plain(f)
        PROVE  \E k \in 0..Len(path) :
                 /\ climb' = [bus |-> BusAt(f.bus, k), dev |-> DevAt(f, k),
                              pin |-> PinOn(f, k)]
                 /\ \A j \in 1..k : EntryAt(f, j) < IOAPIC_PIRQA_INT_LVL
    <3>1. PICK k \in 0..Len(path) : At(k)
      BY <1>3, <2>1
    <3>2. k + 1 \in 1..Len(path) /\ b.bus = BusAt(f.bus, k + 1)
          /\ b.dev = DevAt(f, k + 1) /\ pin = PinOn(f, k + 1)
      BY <1>6, <1>11, <2>1, <3>1
    <3>3. \A j \in 1..(k + 1) : EntryAt(f, j) < IOAPIC_PIRQA_INT_LVL
      BY <1>9, <1>11, <2>1, <3>1
    <3>4. k + 1 \in 0..Len(path)
      BY <1>4, <3>2
    <3> HIDE DEF b, pin, path, f
    <3>5. climb' = [bus |-> BusAt(f.bus, k + 1), dev |-> DevAt(f, k + 1),
                    pin |-> PinOn(f, k + 1)]
      BY <1>11, <3>2
    <3> QED
      BY <3>3, <3>4, <3>5
  <2>2. ClimbInv'
    BY <1>1, <1>2, <1>11, <2>1, ClimbGoes
  <2> QED
    BY <1>11, <2>2 DEF GoesOn
<1>12. irq >= IOAPIC_PIRQA_INT_LVL \/ irq < IOAPIC_PIRQA_INT_LVL
  <2> HIDE DEF irq
  <2> QED
    BY <1>5 DEF ERROR, IOAPIC_PIRQA_INT_LVL
<1> HIDE DEF irq, pin, b
<1> QED
  BY <1>7, <1>8, <1>10, <1>11, <1>12 DEF Climb, irq, pin, b, First

-----------------------------------------------------------------------------
(* The invariant is kept.                                                  *)

LEMMA RouteInit == Init => RouteInv
<1> SUFFICES ASSUME Init PROVE RouteInv
  OBVIOUS
<1>1. TypeInv
  BY TypeInit
<1>2. /\ climb = NoClimb /\ stage = "idle" /\ done = "none"
      /\ isaOff = {N_IOAPIC_PIRQS - 1} /\ \A i \in DOMAIN F : line[i] = Firmware
  BY DEF Init, F
<1>3. ClimbInv /\ LineInv
  BY <1>2 DEF ClimbInv, LineInv
<1>4. PirqInv
  BY <1>2 DEF PirqInv
<1> QED
  BY <1>1, <1>3, <1>4 DEF RouteInv

\* Programming the function's own interrupt gives it its line, and its PIRQ the
\* call's state; no other is touched.
LEMMA ProgEffect ==
  ASSUME TypeInv, pos \in DOMAIN F, stage = "route", NEW irq \in Nat, Prog(irq),
         irq = Interrupt(F[pos])
  PROVE  /\ \A i \in DOMAIN F : i # pos => line'[i] = line[i]
         /\ line'[pos] \in {line[pos], Target(pos)}
         /\ enable => line'[pos] = Target(pos) \/ (line'[pos] = line[pos] /\ Target(pos) = Firmware)
         /\ \A p \in Pirqs \ {0} :
              IF PirqOf(pos) = p THEN p \in isaOff' <=> enable
              ELSE p \in isaOff' <=> p \in isaOff
<1>1. line \in [DOMAIN F -> 0..255] /\ enable \in BOOLEAN
  BY DEF TypeInv, TypeOK
<1>2. CASE TooWide(irq)
  <2>1. UNCHANGED <<line, isaOff>> /\ irq > 255
    BY <1>2 DEF Prog, ProgIrq, TooWide
  <2>2. Target(pos) = Firmware
    BY <2>1 DEF Target
  <2>3. PirqOf(pos) \notin Pirqs
    BY <2>1 DEF PirqOf, Pirqs, N_IOAPIC_PIRQS, IOAPIC_PIRQA_INT_LVL
  <2> QED
    BY <2>1, <2>2, <2>3
<1>3. CASE ~TooWide(irq)
  <2>1. /\ line' = IF enable THEN [line EXCEPT ![pos] = irq] ELSE line
        /\ isaOff' = IF enable THEN isaOff \cup {Pirq(irq)} ELSE isaOff \ {Pirq(irq)}
    BY <1>3 DEF Prog, ProgIrq
  <2>2. Target(pos) = irq
    BY <1>3 DEF Target, TooWide
  <2>3. \A p \in Pirqs \ {0} : Pirq(irq) = p <=> PirqOf(pos) = p
    BY DEF Pirq, PirqOf
  <2>4. /\ \A i \in DOMAIN F : i # pos => line'[i] = line[i]
        /\ line'[pos] \in {line[pos], Target(pos)}
        /\ enable => line'[pos] = Target(pos)
    BY <1>1, <2>1, <2>2
  <2>5. \A p \in Pirqs \ {0} :
          IF PirqOf(pos) = p THEN p \in isaOff' <=> enable
          ELSE p \in isaOff' <=> p \in isaOff
    <3> SUFFICES ASSUME NEW p \in Pirqs \ {0}
                 PROVE  IF PirqOf(pos) = p THEN p \in isaOff' <=> enable
                        ELSE p \in isaOff' <=> p \in isaOff
      OBVIOUS
    <3>1. Pirq(irq) = p <=> PirqOf(pos) = p
      BY <2>3
    <3> QED
      BY <1>1, <2>1, <3>1
  <2> QED
    BY <2>4, <2>5
<1> QED
  BY <1>2, <1>3

\* So a function that is done with has its line and its PIRQ, and the others keep
\* theirs.
Kept == UNCHANGED <<machine, list, stage, enable, done, fails, calls>>

LEMMA OutcomeLine ==
  ASSUME RouteInv, Kept, stage \in {"route", "show"}, pos \in DOMAIN F,
         ProgDone \/ NoneDone \/ GoesOn
  PROVE  LineInv'
<1>1. TypeInv /\ F' = F /\ Configured' = Configured /\ Whole' = Whole
  BY SameMachine DEF Kept, RouteInv, Whole
<1>2. \A i : Target(i)' = Target(i) /\ Plain(F[i])' = Plain(F[i])
  BY SameMachine DEF Kept
<1>3. SUFFICES
        ASSUME Configured, NEW i \in DOMAIN F, Plain(F[i])
        PROVE  /\ line'[i] \in {Firmware, Target(i)}
               /\ done = "enabled" => line'[i] = Target(i)
               /\ stage = "route" /\ Whole /\ enable /\ i < pos' => line'[i] = Target(i)
  BY <1>1, <1>2 DEF LineInv, Kept
<1>4. /\ line[i] \in {Firmware, Target(i)}
      /\ done = "enabled" => line[i] = Target(i)
      /\ stage = "route" /\ Whole /\ enable /\ i < pos => line[i] = Target(i)
  BY <1>3 DEF RouteInv, LineInv
<1>5. pos \in Nat /\ i \in Nat /\ (pos' = pos + 1 /\ i < pos' => i < pos \/ i = pos)
  <2>1. pos \in Nat /\ i \in Nat
    BY <1>1, MachineType DEF TypeInv
  <2> QED
    BY <2>1
<1>6. CASE UNCHANGED <<pos, line>>
  BY <1>4, <1>6
<1>7. CASE NoneDone
  <2>1. i = pos /\ Whole => Target(i) = Firmware
    BY <1>3, <1>7 DEF NoneDone, Target, ERROR
  <2> QED
    BY <1>4, <1>5, <1>7, <2>1 DEF NoneDone
<1>8. CASE ProgDone
  <2>1. PICK irq \in Nat : Prog(irq) /\ (Plain(F[pos]) => irq = Interrupt(F[pos]))
    BY <1>3, <1>8 DEF ProgDone
  <2>2. pos' = pos + 1
    BY <1>8 DEF ProgDone
  <2>3. CASE stage # "route"
    <3>1. line' = line
      BY <2>1, <2>3 DEF Prog
    <3> QED
      BY <1>4, <2>3, <3>1
  <2>4. CASE stage = "route" /\ i # pos
    <3>1. line'[i] = line[i]
      BY <1>1, <2>1, <2>4 DEF Prog, ProgIrq, TypeInv, TypeOK
    <3> QED
      BY <1>4, <1>5, <2>2, <2>4, <3>1
  <2>5. CASE stage = "route" /\ i = pos
    <3>1. /\ line'[i] \in {line[i], Target(i)}
          /\ enable => \/ line'[i] = Target(i)
                       \/ line'[i] = line[i] /\ Target(i) = Firmware
      BY <1>1, <1>3, <2>1, <2>5, ProgEffect
    <3> QED
      BY <1>4, <3>1
  <2> QED
    BY <2>3, <2>4, <2>5
<1> QED
  BY <1>6, <1>7, <1>8 DEF GoesOn

LEMMA OutcomePirq ==
  ASSUME RouteInv, Kept, stage \in {"route", "show"}, pos \in DOMAIN F,
         ProgDone \/ NoneDone \/ GoesOn
  PROVE  PirqInv'
<1>1. TypeInv /\ F' = F /\ Configured' = Configured /\ Whole' = Whole /\ AllPlain' = AllPlain
  BY SameMachine DEF Kept, RouteInv, Whole
<1>2. \A i : PirqOf(i)' = PirqOf(i)
  BY SameMachine DEF Kept
<1>3. SUFFICES
        ASSUME Configured, AllPlain, NEW p \in Pirqs \ {0}
        PROVE
          /\ (\A i \in DOMAIN F : PirqOf(i) # p) => (p \in isaOff' <=> p = N_IOAPIC_PIRQS - 1)
          /\ \A i \in DOMAIN F : PirqOf(i) = p =>
               /\ stage = "route" /\ Whole /\ i < pos' => (p \in isaOff' <=> enable)
               /\ stage # "route" /\ done = "enabled" => p \in isaOff'
               /\ stage # "route" /\ done = "disabled" => p \notin isaOff'
  BY <1>1, <1>2 DEF PirqInv, Kept
<1>4. /\ (\A i \in DOMAIN F : PirqOf(i) # p) => (p \in isaOff <=> p = N_IOAPIC_PIRQS - 1)
      /\ \A i \in DOMAIN F : PirqOf(i) = p =>
           /\ stage = "route" /\ Whole /\ i < pos => (p \in isaOff <=> enable)
           /\ stage # "route" /\ done = "enabled" => p \in isaOff
           /\ stage # "route" /\ done = "disabled" => p \notin isaOff
  BY <1>3 DEF RouteInv, PirqInv
<1>5. \A i \in DOMAIN F : pos' = pos + 1 /\ i < pos' => i < pos \/ i = pos
  <2>1. pos \in Nat /\ \A i \in DOMAIN F : i \in Nat
    BY <1>1, MachineType DEF TypeInv
  <2> QED
    BY <2>1
<1>6. CASE UNCHANGED <<pos, isaOff>>
  BY <1>4, <1>6
<1>7. CASE NoneDone
  <2>1. Whole => PirqOf(pos) # p
    <3>1. Plain(F[pos])
      BY <1>3 DEF AllPlain
    <3>2. Whole => Interrupt(F[pos]) = ERROR
      BY <1>3, <1>7, <3>1 DEF NoneDone
    <3> QED
      BY <3>2 DEF PirqOf, ERROR, IOAPIC_PIRQA_INT_LVL, Pirqs, N_IOAPIC_PIRQS
  <2>2. pos' = pos + 1 /\ isaOff' = isaOff
    BY <1>7 DEF NoneDone
  <2> QED
    BY <1>4, <1>5, <2>1, <2>2
<1>8. CASE ProgDone
  <2>1. Plain(F[pos])
    BY <1>3 DEF AllPlain
  <2>2. PICK irq \in Nat : Prog(irq) /\ irq = Interrupt(F[pos])
    BY <1>3, <1>8, <2>1 DEF ProgDone
  <2>3. pos' = pos + 1
    BY <1>8 DEF ProgDone
  <2>4. CASE stage # "route"
    <3>1. isaOff' = isaOff
      BY <2>2, <2>4 DEF Prog
    <3> QED
      BY <1>4, <2>4, <3>1
  <2>5. CASE stage = "route"
    <3>1. IF PirqOf(pos) = p THEN p \in isaOff' <=> enable
          ELSE p \in isaOff' <=> p \in isaOff
      BY <1>1, <2>2, <2>5, ProgEffect
    <3> QED
      BY <1>4, <1>5, <2>3, <2>5, <3>1
  <2> QED
    BY <2>4, <2>5
<1> QED
  BY <1>6, <1>7, <1>8 DEF GoesOn

\* A call begins, or looks for bridges.
LEMMA QuietKept ==
  ASSUME RouteInv, UNCHANGED <<machine, climb, line, isaOff, done>>, climb = NoClimb,
         stage # "route", stage' = "route" => pos' = 1
  PROVE  ClimbInv' /\ LineInv' /\ PirqInv'
<1>1. TypeInv /\ F' = F /\ Configured' = Configured /\ AllPlain' = AllPlain
      /\ \A i : PirqOf(i)' = PirqOf(i) /\ Target(i)' = Target(i) /\ Plain(F[i])' = Plain(F[i])
  BY SameMachine DEF RouteInv
<1>2. \A i \in DOMAIN F : ~(stage' = "route" /\ i < pos')
  BY <1>1, MachineType DEF TypeInv
<1>3. ClimbInv'
  BY DEF ClimbInv
<1>4. LineInv'
  BY <1>1, <1>2 DEF RouteInv, LineInv
<1>5. PirqInv'
  <2> SUFFICES
        ASSUME Configured, AllPlain, NEW p \in Pirqs \ {0}
        PROVE
          /\ (\A i \in DOMAIN F : PirqOf(i) # p) => (p \in isaOff <=> p = N_IOAPIC_PIRQS - 1)
          /\ \A i \in DOMAIN F : PirqOf(i) = p =>
               /\ ~(stage' = "route" /\ i < pos')
               /\ done = "enabled" => p \in isaOff
               /\ done = "disabled" => p \notin isaOff
    BY <1>1 DEF PirqInv
  <2> QED
    BY <1>2 DEF RouteInv, PirqInv
<1> QED
  BY <1>3, <1>4, <1>5

\* A call ends: what was so for the functions that were passed is so for all.
LEMMA ReturnKept ==
  ASSUME RouteInv, Return
  PROVE  ClimbInv' /\ LineInv' /\ PirqInv'
<1>1. TypeInv /\ F' = F /\ Configured' = Configured /\ AllPlain' = AllPlain
      /\ \A i : PirqOf(i)' = PirqOf(i) /\ Target(i)' = Target(i) /\ Plain(F[i])' = Plain(F[i])
  BY SameMachine DEF RouteInv, Return
<1>2. \A i \in DOMAIN F : i < pos
  BY <1>1, MachineType DEF TypeInv, TypeOK, Return
<1>3. /\ UNCHANGED <<climb, line, isaOff>> /\ stage' = "idle" /\ climb = NoClimb
      /\ done' = "enabled" => \/ stage # "route" /\ done = "enabled"
                              \/ stage = "route" /\ Whole /\ enable
      /\ done' = "disabled" => \/ stage # "route" /\ done = "disabled"
                               \/ stage = "route" /\ Whole /\ ~enable
  <2>1. climb = NoClimb
    BY <1>1, <1>2 DEF Return, TypeInv
  <2> QED
    BY <2>1 DEF Return
<1>4. ClimbInv'
  BY <1>3 DEF ClimbInv
<1>5. LineInv'
  BY <1>1, <1>2, <1>3 DEF RouteInv, LineInv
<1>6. PirqInv'
  <2> SUFFICES
        ASSUME Configured, AllPlain, NEW p \in Pirqs \ {0}
        PROVE
          /\ (\A i \in DOMAIN F : PirqOf(i) # p) => (p \in isaOff <=> p = N_IOAPIC_PIRQS - 1)
          /\ \A i \in DOMAIN F : PirqOf(i) = p =>
               /\ done' = "enabled" => p \in isaOff
               /\ done' = "disabled" => p \notin isaOff
    BY <1>1, <1>3 DEF PirqInv
  <2> QED
    BY <1>2, <1>3 DEF RouteInv, PirqInv
<1> QED
  BY <1>4, <1>5, <1>6

LEMMA StutterKept ==
  ASSUME RouteInv,
         UNCHANGED <<machine, list, stage, enable, pos, climb, line, isaOff, done>>
  PROVE  ClimbInv' /\ LineInv' /\ PirqInv'
<1>1. /\ TypeInv /\ F' = F /\ Configured' = Configured /\ AllPlain' = AllPlain
      /\ Whole' = Whole
      /\ \A i : PirqOf(i)' = PirqOf(i) /\ Target(i)' = Target(i) /\ Plain(F[i])' = Plain(F[i])
  BY SameMachine DEF RouteInv, Whole
<1>2. ClimbInv'
  <2>1. CASE climb = NoClimb
    BY <2>1 DEF ClimbInv
  <2>2. CASE climb # NoClimb
    BY <1>1, <2>2, ClimbGoes DEF RouteInv, ClimbInv, TypeInv
  <2> QED
    BY <2>1, <2>2
<1>3. LineInv'
  BY <1>1 DEF RouteInv, LineInv
<1>4. PirqInv'
  BY <1>1 DEF RouteInv, PirqInv
<1> QED
  BY <1>2, <1>3, <1>4

LEMMA RouteStep ==
  ASSUME BusTree
  PROVE  RouteInv /\ [Next]_vars => RouteInv'
<1> SUFFICES ASSUME RouteInv, [Next]_vars PROVE RouteInv'
  OBVIOUS
<1>1. TypeInv /\ TypeInv' /\ Len(F) \in Nat /\ DOMAIN F = 1..Len(F)
  BY TypeStep, MachineType DEF RouteInv, TypeInv
<1>2. CASE Visit \/ Climb
  <2>1. Kept /\ stage \in {"route", "show"} /\ pos \in DOMAIN F
    <3>1. Kept /\ stage \in {"route", "show"}
      BY <1>2 DEF Visit, Climb, Kept
    <3>2. pos \in DOMAIN F
      BY <1>1, <1>2 DEF Visit, Climb, TypeInv, TypeOK
    <3> QED
      BY <3>1, <3>2
  <2>2. ProgDone \/ NoneDone \/ GoesOn
    BY <1>1, <1>2, VisitOutcome, ClimbOutcome
  <2>3. ClimbInv'
    BY <2>2 DEF ProgDone, NoneDone, GoesOn, ClimbInv
  <2>4. LineInv' /\ PirqInv'
    BY <2>1, <2>2, OutcomeLine, OutcomePirq
  <2> QED
    BY <1>1, <2>3, <2>4 DEF RouteInv
<1>3. CASE (\E e \in BOOLEAN : PirqEnable(e)) \/ PirqShow \/ FindBridge \/ FindEnd
  <2>1. /\ UNCHANGED <<machine, climb, line, isaOff, done>>
        /\ climb = NoClimb /\ stage # "route" /\ (stage' = "route" => pos' = 1)
    BY <1>1, <1>3 DEF PirqEnable, PirqShow, FindBridge, FindEnd, TypeInv, Scanning
  <2> QED
    BY <1>1, <2>1, QuietKept DEF RouteInv
<1>4. CASE Return
  BY <1>1, <1>4, ReturnKept DEF RouteInv
<1>5. CASE UNCHANGED vars
  <2>1. UNCHANGED <<machine, list, stage, enable, pos, climb, line, isaOff, done>>
    BY <1>5 DEF vars
  <2> QED
    BY <1>1, <2>1, StutterKept DEF RouteInv
<1> QED
  BY <1>2, <1>3, <1>4, <1>5 DEF Next, Step

\* A function behind configured PCI-to-PCI bridges gets the line its slot is wired
\* to, in any tree of buses, with any table, however often and in whatever order
\* the bridges are listed, and whichever are missed for lack of memory.
THEOREM LinesRouted ==
  ASSUME BusTree
  PROVE  Spec => []LineRouted
<1>1. RouteInv => LineRouted
  BY DEF RouteInv, LineInv, LineRouted, Target
<1> QED
  BY <1>1, RouteInit, RouteStep, PTL DEF Spec

\* An enabling with the whole list takes exactly the PIRQs that functions use from
\* the ISA interrupts, and a disabling gives them back.
THEOREM PirqsRouted ==
  ASSUME BusTree
  PROVE  Spec => []PirqRouted
<1>1. RouteInv => PirqRouted
  <2> SUFFICES ASSUME RouteInv, stage = "idle", Configured, AllPlain, NEW p \in Pirqs \ {0}
               PROVE  IF \E i \in DOMAIN F : PirqOf(i) = p
                      THEN /\ done = "enabled" => p \in isaOff
                           /\ done = "disabled" => p \notin isaOff
                      ELSE p \in isaOff <=> p = N_IOAPIC_PIRQS - 1
    BY DEF PirqRouted, AllPlain, PirqOf
  <2> QED
    BY DEF RouteInv, PirqInv
<1> QED
  BY <1>1, RouteInit, RouteStep, PTL DEF Spec
=============================================================================
