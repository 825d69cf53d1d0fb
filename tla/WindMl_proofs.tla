---------------------------- MODULE WindMl_proofs ----------------------------
(***************************************************************************)
(* Proofs about WindMl, for any machine, pool and clients.                 *)
(***************************************************************************)
EXTENDS WindMl, FiniteSetTheorems, FunctionTheorems, SequenceTheorems, TLAPS

-----------------------------------------------------------------------------
(* How often a descriptor occurs in a sequence.                            *)

Places(s, p) == {k \in DOMAIN s : s[k] = p}

\* It is a number, and not zero where the sequence has the descriptor.
LEMMA TimesNat ==
  ASSUME NEW S, NEW s \in Seq(S), NEW p
  PROVE  /\ IsFiniteSet(Places(s, p)) /\ Times(s, p) \in Nat
         /\ \A k \in DOMAIN s : s[k] = p => Times(s, p) >= 1
<1>1. DOMAIN s = 1..Len(s) /\ Len(s) \in Nat
  BY LenProperties
<1>2. IsFiniteSet(DOMAIN s)
  BY <1>1, FS_Interval
<1>3. Places(s, p) \in SUBSET DOMAIN s
  BY DEF Places
<1>4. IsFiniteSet(Places(s, p))
  BY <1>2, <1>3, FS_Subset
<1>5. Times(s, p) = Cardinality(Places(s, p))
  BY DEF Times, Places
<1>6. Times(s, p) \in Nat /\ (Times(s, p) = 0 <=> Places(s, p) = {})
  BY <1>4, <1>5, FS_CardinalityType, FS_EmptySet
<1> QED
  BY <1>4, <1>6 DEF Places

\* An element put at the end.
LEMMA TimesOfAppend ==
  ASSUME NEW S, NEW s \in Seq(S), NEW e \in S, NEW p
  PROVE  Times(Append(s, e), p) = Times(s, p) + (IF e = p THEN 1 ELSE 0)
<1> DEFINE n == Len(s) + 1
           t == Append(s, e)
<1>1. DOMAIN s = 1..Len(s) /\ Len(s) \in Nat
  BY LenProperties
<1>2. /\ t \in Seq(S) /\ Len(t) = n
      /\ \A i \in 1..Len(s) : t[i] = s[i]
      /\ t[n] = e
  BY AppendProperties
<1>3. DOMAIN t = 1..n
  BY <1>2, LenProperties
<1>4. IsFiniteSet(Places(s, p)) /\ Times(s, p) \in Nat
  BY TimesNat
<1> HIDE DEF t
<1>5. CASE e = p
  <2>1. Places(t, p) = Places(s, p) \cup {n}
    BY <1>1, <1>2, <1>3, <1>5 DEF Places
  <2>2. n \notin Places(s, p)
    BY <1>1 DEF Places
  <2>3. Cardinality(Places(t, p)) = Cardinality(Places(s, p)) + 1
    BY <1>4, <2>1, <2>2, FS_AddElement
  <2> QED
    BY <1>5, <2>3 DEF Times, Places, t
<1>6. CASE e # p
  <2>1. Places(t, p) = Places(s, p)
    BY <1>1, <1>2, <1>3, <1>6 DEF Places
  <2>2. Times(t, p) = Times(s, p)
    BY <2>1 DEF Times, Places
  <2> QED
    BY <1>4, <1>6, <2>2 DEF t
<1> QED
  BY <1>5, <1>6

\* An element put in front, or taken from there.
LEMMA TimesOfShift ==
  ASSUME NEW S, NEW s \in Seq(S), NEW t \in Seq(S), NEW p,
         Len(t) = Len(s) + 1, \A i \in 1..Len(s) : t[i + 1] = s[i]
  PROVE  Times(t, p) = Times(s, p) + (IF t[1] = p THEN 1 ELSE 0)
<1> DEFINE A == Places(s, p)
           B == {k \in 2..Len(t) : t[k] = p}
           f == [k \in A |-> k + 1]
<1>1. /\ DOMAIN s = 1..Len(s) /\ Len(s) \in Nat
      /\ DOMAIN t = 1..Len(t) /\ Len(t) \in Nat
  BY LenProperties
<1>2. IsFiniteSet(A) /\ Times(s, p) \in Nat /\ Times(s, p) = Cardinality(A)
  BY TimesNat DEF Times, Places
<1>3. f \in Bijection(A, B)
  <2>1. f \in [A -> B]
    BY <1>1 DEF Places
  <2>2. \A a, b \in A : f[a] = f[b] => a = b
    BY <1>1 DEF Places
  <2>3. \A b \in B : \E a \in A : f[a] = b
    <3> SUFFICES ASSUME NEW b \in B PROVE b - 1 \in A /\ f[b - 1] = b
      OBVIOUS
    <3>1. b \in 2..Len(t) /\ b \in Nat /\ t[b] = p
      BY <1>1
    <3>2. b - 1 \in 1..Len(s) /\ (b - 1) + 1 = b
      BY <1>1, <3>1
    <3>3. b - 1 \in A
      BY <1>1, <3>1, <3>2 DEF Places
    <3> QED
      BY <3>2, <3>3
  <2> QED
    BY <2>1, <2>2, <2>3, Fun_IsBij
<1>4. IsFiniteSet(B) /\ Cardinality(B) = Cardinality(A)
  BY <1>2, <1>3, FS_Bijection DEF ExistsBijection
<1>5. Times(t, p) = Cardinality(Places(t, p))
  BY DEF Times, Places
<1>6. CASE t[1] = p
  <2>1. Places(t, p) = B \cup {1} /\ 1 \notin B
    BY <1>1, <1>6 DEF Places
  <2> HIDE DEF A, B
  <2>2. Cardinality(Places(t, p)) = Cardinality(B) + 1
    BY <1>4, <2>1, FS_AddElement
  <2> QED
    BY <1>2, <1>4, <1>5, <1>6, <2>2
<1>7. CASE t[1] # p
  <2>1. Places(t, p) = B
    BY <1>1, <1>7 DEF Places
  <2> HIDE DEF A, B
  <2> QED
    BY <1>2, <1>4, <1>5, <1>7, <2>1
<1> QED
  BY <1>6, <1>7
-----------------------------------------------------------------------------
(* The owners of a descriptor.                                             *)

Pool == 1..WmMaxDev
Tabled(p) == Times(wmDisplays, p) + Times(wmAudios, p)

OwnerType ==
  /\ wmFree \in Seq(Pool) /\ wmDisplays \in Seq(Pool) /\ wmAudios \in Seq(Pool)
  /\ DOMAIN wmDesc = Pool
  /\ \A p \in Pool : wmDesc[p].pci \in BOOLEAN
  /\ wmHeld \in [Pool -> Nat]

\* The descriptors of PCI functions are the ones in the tables.
OwnerInv ==
  /\ OwnerType /\ WmOneOwner
  /\ \A p \in Pool : wmDesc[p].pci => Tabled(p) = 1

\* The part of the state the owners are read from.
owned == <<wmFree, wmDesc, wmDisplays, wmAudios, wmHeld>>

\* What the counts of a descriptor are while it has one owner.
LEMMA OwnerCounts ==
  ASSUME OwnerInv, NEW p \in Pool
  PROVE  /\ Times(wmFree, p) \in Nat /\ Times(wmDisplays, p) \in Nat
         /\ Times(wmAudios, p) \in Nat /\ Tabled(p) \in Nat /\ wmHeld[p] \in Nat
         /\ wmDesc[p].pci => Times(wmFree, p) + Tabled(p) = 1
         /\ ~wmDesc[p].pci => Times(wmFree, p) + Tabled(p) + wmHeld[p] = 1
         /\ Tabled(p) = 1 <=> wmDesc[p].pci
<1>1. /\ Times(wmFree, p) \in Nat /\ Times(wmDisplays, p) \in Nat
      /\ Times(wmAudios, p) \in Nat /\ wmHeld[p] \in Nat
  BY TimesNat DEF OwnerInv, OwnerType
<1>2. Tabled(p) \in Nat
  BY <1>1 DEF Tabled
<1>3. /\ Times(wmFree, p) + Tabled(p) + (IF wmDesc[p].pci THEN 0 ELSE wmHeld[p]) = 1
      /\ Tabled(p) = 1 <=> wmDesc[p].pci
  BY DEF OwnerInv, OwnerType, WmOneOwner, Tabled, Pool
<1>4. wmDesc[p].pci => Times(wmFree, p) + Tabled(p) = 1
  BY <1>1, <1>2, <1>3
<1>5. ~wmDesc[p].pci => Times(wmFree, p) + Tabled(p) + wmHeld[p] = 1
  BY <1>3
<1> QED
  BY <1>1, <1>2, <1>3, <1>4, <1>5

\* Initially every descriptor is free, once.
LEMMA OwnerInit == WmInit => OwnerInv
<1> SUFFICES ASSUME WmInit PROVE OwnerInv
  OBVIOUS
<1>1. /\ wmFree = [k \in Pool |-> k] /\ wmDesc = [p \in Pool |-> Blank]
      /\ wmDisplays = <<>> /\ wmAudios = <<>> /\ wmHeld = [p \in Pool |-> 0]
  BY DEF WmInit, Pool
<1>2. wmFree \in Seq(Pool)
  BY <1>1, WmAssumption DEF Pool
<1>3. OwnerType
  BY <1>1, <1>2, EmptySeq DEF OwnerType, Blank
<1>4. ASSUME NEW p \in Pool
      PROVE  Times(wmFree, p) = 1 /\ Times(wmDisplays, p) = 0 /\ Times(wmAudios, p) = 0
  <2>1. {k \in DOMAIN wmFree : wmFree[k] = p} = {p}
    BY <1>1
  <2>2. {k \in DOMAIN <<>> : <<>>[k] = p} = {}
    OBVIOUS
  <2> QED
    BY <1>1, <2>1, <2>2, FS_Singleton, FS_EmptySet DEF Times
<1>5. ASSUME NEW p \in Pool
      PROVE  wmDesc[p].pci = FALSE /\ wmHeld[p] = 0
  BY <1>1 DEF Blank
<1>6. WmOneOwner
  <2> SUFFICES ASSUME NEW p \in Pool
               PROVE  /\ Times(wmFree, p) + (Times(wmDisplays, p) + Times(wmAudios, p))
                           + (IF wmDesc[p].pci THEN 0 ELSE wmHeld[p]) = 1
                      /\ (Times(wmDisplays, p) + Times(wmAudios, p)) = 1 => wmDesc[p].pci
    BY DEF WmOneOwner, Pool
  <2>1. Times(wmDisplays, p) + Times(wmAudios, p) = 0
    BY <1>4
  <2>2. (IF wmDesc[p].pci THEN 0 ELSE wmHeld[p]) = 0
    BY <1>5
  <2> QED
    BY <1>4, <2>1, <2>2
<1> QED
  BY <1>3, <1>5, <1>6 DEF OwnerInv

\* The descriptor sysWindMlDescAlloc takes had no owner but the free list, which is
\* left without it.
LEMMA Taken ==
  ASSUME OwnerInv, NEW rec, Made(rec)
  PROVE  LET h == Head(wmFree)
         IN  /\ h \in Pool /\ wmFree' \in Seq(Pool)
             /\ Times(wmFree, h) = 1 /\ Tabled(h) = 0
             /\ ~wmDesc[h].pci /\ wmHeld[h] = 0
             /\ wmDesc' = [wmDesc EXCEPT ![h] = rec]
             /\ \A p \in Pool : Times(wmFree', p) = IF p = h THEN 0 ELSE Times(wmFree, p)
<1> DEFINE h == Head(wmFree)
           t == Tail(wmFree)
<1>1. wmFree # <<>> /\ wmFree' = t /\ wmDesc' = [wmDesc EXCEPT ![h] = rec]
  BY DEF Made
<1>2. wmFree \in Seq(Pool)
  BY DEF OwnerInv, OwnerType
<1>3. /\ h \in Pool /\ t \in Seq(Pool) /\ Len(t) = Len(wmFree) - 1
      /\ \A i \in 1..Len(t) : t[i] = wmFree[i + 1]
  BY <1>1, <1>2, HeadTailProperties
<1>4. Len(wmFree) \in Nat /\ Len(t) \in Nat /\ DOMAIN wmFree = 1..Len(wmFree)
  BY <1>2, <1>3, LenProperties
<1>5. wmFree[1] = h /\ 1 \in DOMAIN wmFree
  BY <1>1, <1>2, <1>3, <1>4
<1>6. ASSUME NEW p \in Pool
      PROVE  Times(wmFree, p) = Times(t, p) + (IF h = p THEN 1 ELSE 0) /\ Times(t, p) \in Nat
  <2>1. Len(wmFree) = Len(t) + 1 /\ \A i \in 1..Len(t) : wmFree[i + 1] = t[i]
    BY <1>3, <1>4
  <2> HIDE DEF t, h
  <2> QED
    BY <1>2, <1>3, <1>5, <2>1, TimesOfShift, TimesNat
<1>7. Times(wmFree, h) >= 1
  BY <1>2, <1>5, TimesNat
<1>8. /\ Times(wmFree, h) \in Nat /\ Tabled(h) \in Nat /\ wmHeld[h] \in Nat
      /\ wmDesc[h].pci => Times(wmFree, h) + Tabled(h) = 1
      /\ ~wmDesc[h].pci => Times(wmFree, h) + Tabled(h) + wmHeld[h] = 1
      /\ Tabled(h) = 1 <=> wmDesc[h].pci
  BY <1>3, OwnerCounts
<1> HIDE DEF t, h
<1>9. ~wmDesc[h].pci => Times(wmFree, h) = 1 /\ Tabled(h) = 0 /\ wmHeld[h] = 0
  BY <1>7, <1>8
<1>10. Times(wmFree, h) = 1 /\ Tabled(h) = 0
  BY <1>7, <1>8
<1>11. ~wmDesc[h].pci
  <2>1. Tabled(h) # 1
    BY <1>10
  <2> QED
    BY <1>8, <2>1
<1> QED
  BY <1>1, <1>3, <1>6, <1>9, <1>10, <1>11 DEF h

\* sysWindMlPciInit hands a free descriptor to a table.
LEMMA PciInitOwner ==
  ASSUME OwnerInv, WmPciInit
  PROVE  OwnerInv'
<1> DEFINE f == wmFns[wmPos]
           h == Head(wmFree)
<1>0. UNCHANGED wmHeld /\ OwnerType
  BY DEF WmPciInit, OwnerInv
<1>1. CASE UNCHANGED <<wmFree, wmDesc, wmDisplays, wmAudios>>
  BY <1>0, <1>1 DEF OwnerInv, OwnerType, WmOneOwner, Tabled
<1>2. ASSUME NEW rec, rec.pci = TRUE, Made(rec),
             \/ wmDisplays' = Append(wmDisplays, h) /\ UNCHANGED wmAudios
             \/ wmAudios' = Append(wmAudios, h) /\ UNCHANGED wmDisplays
      PROVE  OwnerInv'
  <2>1. /\ h \in Pool /\ wmFree' \in Seq(Pool)
        /\ Times(wmFree, h) = 1 /\ Tabled(h) = 0
        /\ ~wmDesc[h].pci /\ wmHeld[h] = 0
        /\ wmDesc' = [wmDesc EXCEPT ![h] = rec]
        /\ \A p \in Pool : Times(wmFree', p) = IF p = h THEN 0 ELSE Times(wmFree, p)
    BY <1>2, Taken
  <2>0. \/ wmDisplays' = Append(wmDisplays, h) /\ wmAudios' = wmAudios
        \/ wmAudios' = Append(wmAudios, h) /\ wmDisplays' = wmDisplays
    BY <1>2
  <2> HIDE DEF h
  <2>2. wmDisplays' \in Seq(Pool) /\ wmAudios' \in Seq(Pool)
    <3>1. wmDisplays \in Seq(Pool) /\ wmAudios \in Seq(Pool) /\ h \in Pool
      BY <1>0, <2>1 DEF OwnerType
    <3>2. Append(wmDisplays, h) \in Seq(Pool) /\ Append(wmAudios, h) \in Seq(Pool)
      BY <3>1, AppendProperties
    <3> QED
      BY <2>0, <3>1, <3>2
  <2>3. ASSUME NEW p \in Pool
        PROVE  Tabled(p)' = Tabled(p) + (IF h = p THEN 1 ELSE 0)
    <3>1. /\ Times(wmDisplays, p) \in Nat /\ Times(wmAudios, p) \in Nat
      BY <2>3, OwnerCounts
    <3>2. /\ Times(Append(wmDisplays, h), p)
               = Times(wmDisplays, p) + (IF h = p THEN 1 ELSE 0)
          /\ Times(Append(wmAudios, h), p)
               = Times(wmAudios, p) + (IF h = p THEN 1 ELSE 0)
      BY <1>0, <2>1, TimesOfAppend DEF OwnerType
    <3>3. Tabled(p)' = Times(wmDisplays', p) + Times(wmAudios', p)
      BY DEF Tabled
    <3>4. CASE wmDisplays' = Append(wmDisplays, h) /\ wmAudios' = wmAudios
      <4>1. Tabled(p)' = Times(Append(wmDisplays, h), p) + Times(wmAudios, p)
        BY <3>3, <3>4
      <4> QED
        BY <3>1, <3>2, <4>1 DEF Tabled
    <3>5. CASE wmAudios' = Append(wmAudios, h) /\ wmDisplays' = wmDisplays
      <4>1. Tabled(p)' = Times(wmDisplays, p) + Times(Append(wmAudios, h), p)
        BY <3>3, <3>5
      <4> QED
        BY <3>1, <3>2, <4>1 DEF Tabled
    <3> QED
      BY <2>0, <3>4, <3>5
  <2>4. ASSUME NEW p \in Pool
        PROVE  wmDesc'[p].pci = IF p = h THEN TRUE ELSE wmDesc[p].pci
    BY <1>0, <1>2, <2>1 DEF OwnerType
  <2>5. OwnerType'
    <3>1. \A p \in Pool : wmDesc'[p].pci \in BOOLEAN
      BY <1>0, <2>4 DEF OwnerType
    <3> QED
      BY <1>0, <2>1, <2>2, <3>1 DEF OwnerType
  <2>6. ASSUME NEW p \in Pool
        PROVE  /\ Times(wmFree', p) + Tabled(p)' + (IF wmDesc'[p].pci THEN 0 ELSE wmHeld'[p]) = 1
               /\ Tabled(p)' = 1 <=> wmDesc'[p].pci
    <3>1. CASE p = h
      <4>1. Times(wmFree', p) = 0 /\ Tabled(p)' = 1
        BY <2>1, <2>3, <3>1
      <4>2. wmDesc'[p].pci
        BY <2>4, <3>1
      <4>3. (IF wmDesc'[p].pci THEN 0 ELSE wmHeld'[p]) = 0
        BY <4>2
      <4> QED
        BY <4>1, <4>2, <4>3
    <3>2. CASE p # h
      <4>1. /\ Times(wmFree', p) = Times(wmFree, p) /\ Tabled(p)' = Tabled(p)
            /\ wmDesc'[p].pci = wmDesc[p].pci /\ wmHeld'[p] = wmHeld[p]
        <5>1. Tabled(p) \in Nat
          BY OwnerCounts
        <5> QED
          BY <1>0, <2>1, <2>3, <2>4, <3>2, <5>1
      <4>2. /\ Times(wmFree, p) + Tabled(p) + (IF wmDesc[p].pci THEN 0 ELSE wmHeld[p]) = 1
            /\ Tabled(p) = 1 <=> wmDesc[p].pci
        <5>1. Tabled(p) = 1 <=> wmDesc[p].pci
          BY OwnerCounts
        <5> QED
          BY <5>1 DEF OwnerInv, WmOneOwner, Tabled, Pool
      <4> QED
        BY <4>1, <4>2
    <3> QED
      BY <3>1, <3>2
  <2> QED
    BY <2>5, <2>6 DEF OwnerInv, WmOneOwner, Tabled, Pool
<1> QED
  BY <1>1, <1>2 DEF WmPciInit

\* Giving out an entry of a table changes no owner: the table keeps it.
LEMMA EntryOwner ==
  ASSUME OwnerInv, NEW type, NEW n, NEW v, NEW d, WmGetEntry(type, n, v, d)
  PROVE  OwnerInv'
<1>1. PICK p \in Pool : /\ wmHeld' = [wmHeld EXCEPT ![p] = @ + 1]
                        /\ Tabled(p) >= 1
  <2> DEFINE table == IF type = "graphics" THEN wmDisplays ELSE wmAudios
  <2>1. PICK k \in Nth(Asked(table, v, d), n) : Given(table[k])
    BY DEF WmGetEntry
  <2>2. k \in DOMAIN table
    BY <2>1 DEF Nth, Asked
  <2>3. table \in Seq(Pool)
    BY DEF OwnerInv, OwnerType
  <2>4. table[k] \in Pool /\ Times(table, table[k]) >= 1
    <3>1. k \in 1..Len(table)
      BY <2>2, <2>3, LenProperties
    <3> HIDE DEF table
    <3> QED
      BY <2>2, <2>3, <3>1, ElementOfSeq, TimesNat
  <2>5. /\ Times(wmDisplays, table[k]) \in Nat /\ Times(wmAudios, table[k]) \in Nat
    <3> HIDE DEF table
    <3> QED
      BY <2>4, OwnerCounts
  <2>6. Tabled(table[k]) >= 1
    BY <2>4, <2>5 DEF Tabled
  <2> QED
    BY <2>1, <2>4, <2>6 DEF Given
<1>2. UNCHANGED <<wmFree, wmDesc, wmDisplays, wmAudios>>
  BY DEF WmGetEntry, wmTables
<1>3. wmDesc[p].pci
  BY <1>1, OwnerCounts
<1>4. OwnerType'
  BY <1>1, <1>2 DEF OwnerInv, OwnerType
<1>5. \A q \in Pool : ~wmDesc[q].pci => wmHeld'[q] = wmHeld[q]
  BY <1>1, <1>3 DEF OwnerInv, OwnerType
<1>6. ASSUME NEW q \in Pool
      PROVE  (IF wmDesc[q].pci THEN 0 ELSE wmHeld'[q])
               = (IF wmDesc[q].pci THEN 0 ELSE wmHeld[q])
  BY <1>5
<1> QED
  BY <1>2, <1>4, <1>6 DEF OwnerInv, WmOneOwner, Tabled, Pool

\* A descriptor made for a client goes from the free list to that client.
LEMMA MadeOwner ==
  ASSUME OwnerInv, NEW rec, rec.pci = FALSE, Made(rec), Given(Head(wmFree)),
         UNCHANGED <<wmDisplays, wmAudios>>
  PROVE  OwnerInv'
<1> DEFINE h == Head(wmFree)
<1>1. /\ h \in Pool /\ wmFree' \in Seq(Pool)
      /\ Times(wmFree, h) = 1 /\ Tabled(h) = 0
      /\ ~wmDesc[h].pci /\ wmHeld[h] = 0
      /\ wmDesc' = [wmDesc EXCEPT ![h] = rec]
      /\ \A p \in Pool : Times(wmFree', p) = IF p = h THEN 0 ELSE Times(wmFree, p)
  BY Taken
<1>2. wmHeld' = [wmHeld EXCEPT ![h] = @ + 1]
  BY DEF Given
<1>0. OwnerType /\ UNCHANGED <<wmDisplays, wmAudios>>
  BY DEF OwnerInv
<1> HIDE DEF h
<1>3. ASSUME NEW p \in Pool
      PROVE  /\ wmDesc'[p].pci = IF p = h THEN FALSE ELSE wmDesc[p].pci
  BY <1>0, <1>1 DEF OwnerType
<1>4. ASSUME NEW p \in Pool
      PROVE  wmHeld'[p] = IF p = h THEN 1 ELSE wmHeld[p]
  BY <1>0, <1>1, <1>2 DEF OwnerType
<1>5. OwnerType'
  <2>1. \A p \in Pool : wmDesc'[p].pci \in BOOLEAN
    BY <1>0, <1>3 DEF OwnerType
  <2>2. wmHeld' \in [Pool -> Nat]
    BY <1>0, <1>1, <1>2 DEF OwnerType
  <2> QED
    BY <1>0, <1>1, <2>1, <2>2 DEF OwnerType
<1>6. ASSUME NEW p \in Pool
      PROVE  Tabled(p)' = Tabled(p)
  BY <1>0 DEF Tabled
<1>7. ASSUME NEW p \in Pool
      PROVE  /\ Times(wmFree', p) + Tabled(p)' + (IF wmDesc'[p].pci THEN 0 ELSE wmHeld'[p]) = 1
             /\ Tabled(p)' = 1 <=> wmDesc'[p].pci
  <2>1. CASE p = h
    <3>1. Times(wmFree', p) = 0 /\ Tabled(p)' = 0 /\ wmHeld'[p] = 1
      BY <1>1, <1>4, <1>6, <2>1
    <3>2. ~wmDesc'[p].pci
      BY <1>3, <2>1
    <3>3. (IF wmDesc'[p].pci THEN 0 ELSE wmHeld'[p]) = 1
      BY <3>1, <3>2
    <3>4. Tabled(p)' # 1
      BY <3>1
    <3> QED
      BY <3>1, <3>2, <3>3, <3>4
  <2>2. CASE p # h
    <3>1. /\ Times(wmFree', p) = Times(wmFree, p) /\ Tabled(p)' = Tabled(p)
          /\ wmDesc'[p].pci = wmDesc[p].pci /\ wmHeld'[p] = wmHeld[p]
      BY <1>1, <1>3, <1>4, <1>6, <2>2
    <3>2. Tabled(p) = 1 <=> wmDesc[p].pci
      BY OwnerCounts
    <3>3. Times(wmFree, p) + Tabled(p) + (IF wmDesc[p].pci THEN 0 ELSE wmHeld[p]) = 1
      BY DEF OwnerInv, WmOneOwner, Tabled, Pool
    <3> QED
      BY <3>1, <3>2, <3>3
  <2> QED
    BY <2>1, <2>2
<1> QED
  BY <1>5, <1>7 DEF OwnerInv, WmOneOwner, Tabled, Pool

\* sysWindMLDevRelease gives a client's own descriptor back to the free list, and
\* leaves a table's where it is.
LEMMA ReleaseOwner ==
  ASSUME OwnerInv, NEW p \in Pool, WmDevRelease(p)
  PROVE  OwnerInv'
<1>0. /\ OwnerType /\ wmHeld[p] > 0 /\ UNCHANGED <<wmDesc, wmDisplays, wmAudios>>
      /\ wmHeld' = [wmHeld EXCEPT ![p] = @ - 1]
      /\ wmHeld[p] \in Nat
  BY DEF WmDevRelease, wmTables, OwnerInv, OwnerType
<1>1. wmHeld' \in [Pool -> Nat]
  BY <1>0 DEF OwnerType
<1>2. CASE wmDesc[p].pci
  <2>1. wmFree' = wmFree
    BY <1>2 DEF WmDevRelease, FreesIt
  <2>2. OwnerType'
    BY <1>0, <1>1, <2>1 DEF OwnerType
  <2>3. ASSUME NEW q \in Pool
        PROVE  (IF wmDesc[q].pci THEN 0 ELSE wmHeld'[q])
                 = (IF wmDesc[q].pci THEN 0 ELSE wmHeld[q])
    <3>1. ~wmDesc[q].pci => wmHeld'[q] = wmHeld[q]
      BY <1>0, <1>2 DEF OwnerType
    <3> QED
      BY <3>1
  <2> QED
    BY <1>0, <2>1, <2>2, <2>3 DEF OwnerInv, WmOneOwner, Tabled, Pool
<1>3. CASE ~wmDesc[p].pci
  <2> DEFINE t == <<p>> \o wmFree
  <2>1. wmFree' = t
    BY <1>3 DEF WmDevRelease, FreesIt
  <2>2. wmFree \in Seq(Pool) /\ <<p>> \in Seq(Pool) /\ Len(<<p>>) = 1 /\ <<p>>[1] = p
    BY <1>0 DEF OwnerType
  <2>3. /\ t \in Seq(Pool) /\ Len(t) = 1 + Len(wmFree)
        /\ \A i \in 1..(1 + Len(wmFree)) : t[i] = IF i <= 1 THEN <<p>>[i] ELSE wmFree[i - 1]
    BY <2>2, ConcatProperties
  <2> HIDE DEF t
  <2>4. Len(wmFree) \in Nat
    BY <2>2, LenProperties
  <2>5. t[1] = p /\ Len(t) = Len(wmFree) + 1 /\ \A i \in 1..Len(wmFree) : t[i + 1] = wmFree[i]
    BY <2>2, <2>3, <2>4
  <2>6. ASSUME NEW q \in Pool
        PROVE  Times(t, q) = Times(wmFree, q) + (IF p = q THEN 1 ELSE 0)
    BY <2>2, <2>3, <2>5, TimesOfShift
  <2>7. OwnerType'
    BY <1>0, <1>1, <2>1, <2>3 DEF OwnerType
  <2>8. ASSUME NEW q \in Pool
        PROVE  wmHeld'[q] = IF q = p THEN wmHeld[q] - 1 ELSE wmHeld[q]
    BY <1>0 DEF OwnerType
  <2>9. ASSUME NEW q \in Pool
        PROVE  Times(wmFree', q) + Tabled(q)' + (IF wmDesc'[q].pci THEN 0 ELSE wmHeld'[q]) = 1
    <3>1. Times(wmFree, q) + Tabled(q) + (IF wmDesc[q].pci THEN 0 ELSE wmHeld[q]) = 1
      BY DEF OwnerInv, WmOneOwner, Tabled, Pool
    <3>2. Times(wmFree, q) \in Nat /\ Tabled(q) \in Nat /\ wmHeld[q] \in Nat
      BY OwnerCounts
    <3>3. Tabled(q)' = Tabled(q)
      BY <1>0 DEF Tabled
    <3>4. CASE q = p
      <4>1. /\ (IF wmDesc[q].pci THEN 0 ELSE wmHeld[q]) = wmHeld[q]
            /\ (IF wmDesc'[q].pci THEN 0 ELSE wmHeld'[q]) = wmHeld'[q]
        BY <1>0, <1>3, <3>4
      <4>2. Times(wmFree', q) = Times(wmFree, q) + 1 /\ wmHeld'[q] = wmHeld[q] - 1
        BY <2>1, <2>6, <2>8, <3>4
      <4> QED
        BY <3>1, <3>2, <3>3, <4>1, <4>2
    <3>5. CASE q # p
      <4>1. Times(wmFree', q) = Times(wmFree, q) /\ wmHeld'[q] = wmHeld[q]
        BY <2>1, <2>6, <2>8, <3>2, <3>5
      <4> QED
        BY <1>0, <3>1, <3>3, <4>1
    <3> QED
      BY <3>4, <3>5
  <2> QED
    BY <1>0, <2>7, <2>9 DEF OwnerInv, WmOneOwner, Tabled, Pool
<1> QED
  BY <1>2, <1>3

\* Every step of the interface keeps each descriptor's one owner.
LEMMA OwnerStep == OwnerInv /\ [WmNext]_wmVars => OwnerInv'
<1> SUFFICES ASSUME OwnerInv, [WmNext]_wmVars PROVE OwnerInv'
  OBVIOUS
<1>0. ASSUME UNCHANGED owned PROVE OwnerInv'
  BY <1>0 DEF owned, OwnerInv, OwnerType, WmOneOwner, Tabled
<1>1. ASSUME NEW n, WmGetVga(n) PROVE OwnerInv'
  <2>1. [Blank EXCEPT !.type = "graphics", !.ven = VgaIds[1], !.dev = VgaIds[2],
                      !.inst = n].pci = FALSE
    BY DEF Blank
  <2> QED
    BY <1>1, <2>1, MadeOwner DEF WmGetVga, wmTables
<1>2. ASSUME NEW type, NEW n, WmGetInput(type, n) PROVE OwnerInv'
  <2> DEFINE line == IF type = "keyboard" THEN KBD_INT_LVL ELSE MSE_INT_LVL
             rec == [Blank EXCEPT !.type = type, !.inst = n, !.line = line, !.vector = line]
  <2>1. rec.pci = FALSE
    BY DEF Blank
  <2>2. Made(rec) /\ Given(Head(wmFree)) /\ UNCHANGED <<wmDisplays, wmAudios>>
    BY <1>2 DEF WmGetInput, wmTables
  <2> HIDE DEF rec
  <2> QED
    BY <2>1, <2>2, MadeOwner
<1>3. ASSUME NEW p \in Pool,
             \/ WmAccessModeSet(p) \/ WmIntConnect(p) \/ WmIntEnable(p) \/ WmIntDisable(p)
      PROVE  OwnerInv'
  BY <1>0, <1>3 DEF WmAccessModeSet, WmIntConnect, WmIntEnable, WmIntDisable, wmTables,
     wmPool, owned
<1>4. CASE UNCHANGED wmVars
  BY <1>0, <1>4 DEF wmVars, wmTables, wmPool, owned
<1> QED
  BY <1>1, <1>2, <1>3, <1>4, PciInitOwner, EntryOwner, ReleaseOwner DEF WmNext, Pool

\* Every WindML descriptor always has one owner, on any machine: the free list of
\* the pool, the table of its type, or the one client it was given to, whatever the
\* order in which descriptors are made, given out and released once.
THEOREM OneOwnerKept == WmSpec => []WmOneOwner
<1>1. OwnerInv => WmOneOwner
  BY DEF OwnerInv
<1> QED
  BY <1>1, OwnerInit, OwnerStep, PTL DEF WmSpec
-----------------------------------------------------------------------------
(* The types.                                                              *)

NoPciLines == {KBD_INT_LVL, MSE_INT_LVL, 0}
DescType(rec) ==
  /\ rec.type \in WmTypes \cup {"none"}
  /\ rec.vector \in {rec.line, NoVector}
  /\ ~rec.pci => rec.line \in NoPciLines
LinesOfDescs == {wmDesc[p].line : p \in Pool}

\* The types besides those of the owners.
WmTypeInv ==
  /\ OwnerInv
  /\ wmFns \in WmMachines /\ wmPos \in Nat /\ wmVga \in BOOLEAN
  /\ \A p \in Pool : DescType(wmDesc[p])
  /\ wmCommand \in (0..WmMaxDev) \X Nat
  /\ wmLines \subseteq LinesOfDescs \cup NoPciLines
  /\ wmOn \subseteq Pool

LEMMA WmTypeInit == WmInit => WmTypeInv
<1> SUFFICES ASSUME WmInit PROVE WmTypeInv
  OBVIOUS
<1>1. /\ wmFns \in WmMachines /\ wmPos = 1 /\ wmVga = FALSE
      /\ wmDesc = [p \in Pool |-> Blank]
      /\ wmCommand = <<0, 0>> /\ wmLines = {} /\ wmOn = {}
  BY DEF WmInit, Pool
<1>2. \A p \in Pool : DescType(wmDesc[p])
  BY <1>1 DEF DescType, Blank, NoPciLines
<1>3. <<0, 0>> \in (0..WmMaxDev) \X Nat
  BY WmAssumption
<1> QED
  BY <1>1, <1>2, <1>3, OwnerInit DEF WmTypeInv

\* A descriptor that is made over was no PCI function's, so an enabled line stays
\* the line of a descriptor or one of a device that is not on the PCI bus.
LEMMA TypesMade ==
  ASSUME WmTypeInv, NEW rec, DescType(rec), Made(rec)
  PROVE  /\ \A p \in Pool : DescType(wmDesc'[p])
         /\ wmLines \subseteq LinesOfDescs' \cup NoPciLines
<1> DEFINE h == Head(wmFree)
<1>1. h \in Pool /\ ~wmDesc[h].pci /\ wmDesc' = [wmDesc EXCEPT ![h] = rec]
  BY Taken DEF WmTypeInv
<1> HIDE DEF h
<1>2. \A p \in Pool : wmDesc'[p] = IF p = h THEN rec ELSE wmDesc[p]
  BY <1>1 DEF WmTypeInv, OwnerInv, OwnerType
<1>3. \A p \in Pool : DescType(wmDesc'[p])
  BY <1>2 DEF WmTypeInv
<1>4. ASSUME NEW l \in wmLines PROVE l \in LinesOfDescs' \cup NoPciLines
  <2>1. CASE l \in NoPciLines
    BY <2>1
  <2>2. CASE l \notin NoPciLines
    <3>1. PICK p \in Pool : l = wmDesc[p].line
      BY <1>4, <2>2 DEF WmTypeInv, LinesOfDescs
    <3>2. wmDesc[p].pci
      BY <2>2, <3>1 DEF WmTypeInv, DescType
    <3>3. wmDesc'[p] = wmDesc[p]
      BY <1>1, <1>2, <3>2
    <3>4. l = wmDesc'[p].line
      BY <3>1, <3>3
    <3> QED
      BY <3>4 DEF LinesOfDescs
  <2> QED
    BY <2>1, <2>2
<1> QED
  BY <1>3, <1>4

\* A step that makes no descriptor.
LEMMA TypesStay ==
  ASSUME WmTypeInv, UNCHANGED wmDesc, wmLines' \subseteq wmLines \cup LinesOfDescs
  PROVE  /\ \A p \in Pool : DescType(wmDesc'[p])
         /\ wmLines' \subseteq LinesOfDescs' \cup NoPciLines
BY DEF WmTypeInv, LinesOfDescs

\* The walk.
LEMMA TypesPciInit ==
  ASSUME WmTypeInv, OwnerInv', WmPciInit
  PROVE  WmTypeInv'
<1>1. /\ wmPos' = wmPos + 1
      /\ UNCHANGED <<wmFns, wmVga, wmCommand, wmLines, wmOn>>
  BY DEF WmPciInit, wmInts
<1>2. ASSUME NEW rec, Made(rec), rec.pci = TRUE, rec.type \in {"graphics", "audio"},
             rec.vector = rec.line
      PROVE  WmTypeInv'
  <2>1. DescType(rec)
    BY <1>2 DEF DescType, WmTypes
  <2> QED
    BY <1>1, <1>2, <2>1, TypesMade DEF WmTypeInv
<1>3. CASE UNCHANGED wmDesc
  BY <1>1, <1>3, TypesStay DEF WmTypeInv
<1> QED
  BY <1>2, <1>3 DEF WmPciInit

\* Every step keeps the types.
LEMMA WmTypeStep == WmTypeInv /\ [WmNext]_wmVars => WmTypeInv'
<1> SUFFICES ASSUME WmTypeInv, [WmNext]_wmVars PROVE WmTypeInv'
  OBVIOUS
<1>0. OwnerInv'
  BY OwnerStep DEF WmTypeInv
<1>1. ASSUME UNCHANGED <<wmFns, wmPos, wmVga, wmDesc, wmCommand, wmLines, wmOn>>
      PROVE  WmTypeInv'
  BY <1>0, <1>1, TypesStay DEF WmTypeInv
<1>2. ASSUME NEW type, NEW n, NEW v, NEW d, WmGetEntry(type, n, v, d) PROVE WmTypeInv'
  BY <1>1, <1>2 DEF WmGetEntry, wmTables, wmInts
<1>3. ASSUME NEW rec, DescType(rec), Made(rec), wmVga' \in BOOLEAN,
             UNCHANGED <<wmTables, wmCommand, wmInts>>
      PROVE  WmTypeInv'
  BY <1>0, <1>3, TypesMade DEF WmTypeInv, wmTables, wmInts
<1>4. ASSUME NEW n, WmGetVga(n) PROVE WmTypeInv'
  <2> DEFINE rec == [Blank EXCEPT !.type = "graphics", !.ven = VgaIds[1],
                                  !.dev = VgaIds[2], !.inst = n]
  <2>1. DescType(rec)
    BY DEF DescType, Blank, WmTypes, NoPciLines
  <2>2. Made(rec) /\ wmVga' \in BOOLEAN /\ UNCHANGED <<wmTables, wmCommand, wmInts>>
    BY <1>4 DEF WmGetVga
  <2> HIDE DEF rec
  <2> QED
    BY <1>3, <2>1, <2>2
<1>5. ASSUME NEW type \in {"keyboard", "pointer"}, NEW n, WmGetInput(type, n)
      PROVE  WmTypeInv'
  <2> DEFINE line == IF type = "keyboard" THEN KBD_INT_LVL ELSE MSE_INT_LVL
             rec == [Blank EXCEPT !.type = type, !.inst = n, !.line = line, !.vector = line]
  <2>1. rec.type \in WmTypes /\ rec.vector = rec.line /\ rec.line \in NoPciLines
    BY DEF Blank, WmTypes, NoPciLines
  <2>2. Made(rec) /\ wmVga' \in BOOLEAN /\ UNCHANGED <<wmTables, wmCommand, wmInts>>
    BY <1>5 DEF WmGetInput, WmTypeInv
  <2> HIDE DEF rec
  <2> QED
    BY <1>3, <2>1, <2>2 DEF DescType
<1>6. ASSUME NEW p \in Pool, WmAccessModeSet(p) PROVE WmTypeInv'
  <2>1. PICK fn \in PciFind(wmDesc[p].ven, wmDesc[p].dev, wmDesc[p].inst) :
               wmCommand' = <<p, fn>>
    BY <1>6 DEF WmAccessModeSet
  <2>2. fn \in Nat
    <3>1. wmFns \in Seq({wmFns[k] : k \in DOMAIN wmFns})
      BY WmAssumption DEF WmTypeInv
    <3>2. DOMAIN wmFns = 1..Len(wmFns)
      BY <3>1, LenProperties
    <3> QED
      BY <2>1, <3>2 DEF PciFind, Nth
  <2>3. wmCommand' \in (0..WmMaxDev) \X Nat
    BY <2>1, <2>2, WmAssumption DEF Pool
  <2>4. UNCHANGED <<wmFns, wmPos, wmVga, wmDesc, wmLines, wmOn>>
    BY <1>6 DEF WmAccessModeSet, wmTables, wmPool, wmInts
  <2> QED
    BY <1>0, <2>3, <2>4, TypesStay DEF WmTypeInv
<1>7. ASSUME NEW p \in Pool, WmDevRelease(p) PROVE WmTypeInv'
  BY <1>1, <1>7 DEF WmDevRelease, wmTables, wmInts
<1>8. ASSUME NEW p \in Pool, WmIntConnect(p) PROVE WmTypeInv'
  BY <1>1, <1>8 DEF WmIntConnect, wmTables, wmPool
<1>9. ASSUME NEW p \in Pool, WmIntEnable(p) \/ WmIntDisable(p) PROVE WmTypeInv'
  <2>1. UNCHANGED <<wmFns, wmPos, wmVga, wmDesc, wmCommand>>
    BY <1>9 DEF WmIntEnable, WmIntDisable, wmTables, wmPool
  <2>2. wmLines' \subseteq wmLines \cup LinesOfDescs /\ wmOn' \subseteq wmOn \cup {p}
    BY <1>9 DEF WmIntEnable, WmIntDisable, LinesOfDescs
  <2> QED
    BY <1>0, <2>1, <2>2, TypesStay DEF WmTypeInv
<1>10. CASE UNCHANGED wmVars
  BY <1>1, <1>10 DEF wmVars, wmTables, wmPool, wmInts
<1> QED
  BY <1>0, <1>2, <1>4, <1>5, <1>6, <1>7, <1>8, <1>9, <1>10, TypesPciInit DEF WmNext, Pool

\* Every variable of the interface stays in its type; an enabled line is the line of
\* a descriptor, or one of the keyboard, the pointer or no device (sysWindMLIntEnable,
\* lines 582 to 590), also after the descriptor was released and made over.
THEOREM WmTyped == WmSpec => []WmTypeOK
<1>1. WmTypeInv => WmTypeOK
  <2> SUFFICES ASSUME WmTypeInv PROVE WmTypeOK
    OBVIOUS
  <2>1. wmLines \subseteq {wmDesc[p].line : p \in 1..WmMaxDev} \cup {KBD_INT_LVL, MSE_INT_LVL, 0}
    BY DEF WmTypeInv, LinesOfDescs, NoPciLines, Pool
  <2> QED
    BY <2>1 DEF WmTypeInv, OwnerInv, OwnerType, DescType, WmTypeOK, Pool
<1> QED
  BY <1>1, WmTypeInit, WmTypeStep, PTL DEF WmSpec
-----------------------------------------------------------------------------
(* The function a descriptor is of.                                        *)

\* The functions before one, with its identifiers.
Before(k, v, d) == {j \in 1..(k - 1) : wmFns[j].ven = v /\ wmFns[j].dev = d}
TableOf(type) == IF type = "graphics" THEN wmDisplays ELSE wmAudios
PciTypes == {"graphics", "audio"}

\* A descriptor of a PCI function has its identifiers, and counts those before it.
DescInv ==
  \A p \in Pool :
    /\ wmDesc[p].pci =>
         /\ wmDesc[p].base \in 1..(wmPos - 1)
         /\ wmDesc[p].ven = wmFns[wmDesc[p].base].ven
         /\ wmDesc[p].dev = wmFns[wmDesc[p].base].dev
         /\ wmDesc[p].inst = Cardinality(Before(wmDesc[p].base, wmDesc[p].ven, wmDesc[p].dev))
    /\ ~wmDesc[p].pci /\ wmHeld[p] > 0 =>
         "0" = wmDesc[p].ven \/ <<wmDesc[p].ven, wmDesc[p].dev>> = VgaIds

\* A table has the functions of its type, once each, and all of them that were
\* walked over while the pool lasts.
TableInv ==
  \A t \in PciTypes :
    /\ \A k \in DOMAIN TableOf(t) : wmDesc[TableOf(t)[k]].pci
    /\ \A j, k \in DOMAIN TableOf(t) :
         wmDesc[TableOf(t)[j]].base = wmDesc[TableOf(t)[k]].base => j = k
    /\ ~WmReady /\ wmFree # <<>> =>
         \A i \in 1..(wmPos - 1) :
           TypeOf(wmFns[i]) = t => \E k \in DOMAIN TableOf(t) : wmDesc[TableOf(t)[k]].base = i

FnInv ==
  /\ OwnerInv
  /\ wmFns \in WmMachines /\ wmPos \in 1..(Len(wmFns) + 1)
  /\ DescInv /\ TableInv
  /\ ~WmReady => \A p \in Pool : wmHeld[p] = 0
  /\ wmCommand[1] # 0 =>
       wmCommand[1] \in Pool /\ wmDesc[wmCommand[1]].pci /\ WmRightFunction

\* The functions of a machine are a sequence.
LEMMA Functions ==
  ASSUME FnInv
  PROVE  DOMAIN wmFns = 1..Len(wmFns) /\ Len(wmFns) \in Nat
<1>1. wmFns \in Seq({wmFns[k] : k \in DOMAIN wmFns})
  BY WmAssumption DEF FnInv
<1> QED
  BY <1>1, LenProperties

\* As many functions as a table counts are before the one the walk is at.
LEMMA OrdinalCounts ==
  ASSUME IdsTellClass, FnInv, wmPos <= Len(wmFns), wmFree # <<>>,
         NEW t \in PciTypes, TypeOf(wmFns[wmPos]) = t
  PROVE  Ordinal(TableOf(t), wmFns[wmPos].ven, wmFns[wmPos].dev)
           = Cardinality(Before(wmPos, wmFns[wmPos].ven, wmFns[wmPos].dev))
<1> DEFINE f == wmFns[wmPos]
           A == {k \in DOMAIN TableOf(t) : SameIds(TableOf(t)[k], f.ven, f.dev)}
           B == Before(wmPos, f.ven, f.dev)
           g == [k \in A |-> wmDesc[TableOf(t)[k]].base]
<1>1. DOMAIN wmFns = 1..Len(wmFns) /\ Len(wmFns) \in Nat /\ wmPos \in Nat
  BY Functions DEF FnInv
<1>2. TableOf(t) \in Seq(Pool)
  BY DEF FnInv, OwnerInv, OwnerType, TableOf
<1>3. /\ DOMAIN TableOf(t) = 1..Len(TableOf(t)) /\ Len(TableOf(t)) \in Nat
      /\ \A k \in DOMAIN TableOf(t) : TableOf(t)[k] \in Pool /\ wmDesc[TableOf(t)[k]].pci
  BY <1>2, LenProperties, ElementOfSeq DEF FnInv, TableInv
<1>4. IsFiniteSet(A)
  <2>1. IsFiniteSet(DOMAIN TableOf(t))
    BY <1>3, FS_Interval
  <2>2. A \in SUBSET DOMAIN TableOf(t)
    OBVIOUS
  <2> QED
    BY <2>1, <2>2, FS_Subset
<1>5. g \in [A -> B]
  <2> SUFFICES ASSUME NEW k \in A PROVE wmDesc[TableOf(t)[k]].base \in B
    OBVIOUS
  <2>1. TableOf(t)[k] \in Pool /\ wmDesc[TableOf(t)[k]].pci
    BY <1>3
  <2> QED
    BY <2>1 DEF FnInv, DescInv, Before, SameIds
<1>6. \A j, k \in A : g[j] = g[k] => j = k
  BY DEF FnInv, TableInv
<1>7. ASSUME NEW i \in B PROVE \E k \in A : g[k] = i
  <2>1. i \in 1..(wmPos - 1) /\ wmFns[i].ven = f.ven /\ wmFns[i].dev = f.dev
    BY DEF Before
  <2>2. i \in DOMAIN wmFns /\ wmPos \in DOMAIN wmFns
    BY <1>1, <2>1 DEF FnInv
  <2>3. TypeOf(wmFns[i]) = t
    BY <2>1, <2>2 DEF IdsTellClass, FnInv, TypeOf
  <2>4. ~WmReady
    BY <1>1 DEF WmReady
  <2>5. PICK k \in DOMAIN TableOf(t) : wmDesc[TableOf(t)[k]].base = i
    BY <2>1, <2>3, <2>4 DEF FnInv, TableInv
  <2>6. SameIds(TableOf(t)[k], f.ven, f.dev)
    <3>1. TableOf(t)[k] \in Pool /\ wmDesc[TableOf(t)[k]].pci
      BY <1>3
    <3> QED
      BY <2>1, <2>5, <3>1 DEF FnInv, DescInv, SameIds
  <2> QED
    BY <2>5, <2>6
<1>8. g \in Bijection(A, B)
  <2> HIDE DEF A, B, g
  <2> QED
    BY <1>5, <1>6, <1>7, Fun_IsBij
<1> HIDE DEF A, B, g
<1>9. Cardinality(B) = Cardinality(A)
  BY <1>4, <1>8, FS_Bijection DEF ExistsBijection
<1> QED
  BY <1>9 DEF Ordinal, A, B, f

\* A step that makes no descriptor keeps the invariant, if what it gives out is in
\* a table, or was given out before.
LEMMA FnUnchanged ==
  ASSUME FnInv, OwnerInv', UNCHANGED wmTables, UNCHANGED wmDesc,
         WmReady, \A p \in Pool : wmHeld'[p] > 0 => wmDesc[p].pci \/ wmHeld[p] > 0,
         \/ UNCHANGED wmCommand
         \/ wmCommand[1]' \in Pool /\ wmDesc[wmCommand[1]'].pci
            /\ wmDesc[wmCommand[1]'].base = wmCommand[2]'
  PROVE  FnInv'
<1>1. UNCHANGED <<wmFns, wmPos, wmDisplays, wmAudios, wmDesc>>
  BY DEF wmTables
<1>2. WmReady'
  BY <1>1 DEF WmReady
<1>3. DescInv'
  <2>1. \A k, v, d : Before(k, v, d)' = Before(k, v, d)
    BY <1>1 DEF Before
  <2> QED
    BY <1>1, <2>1 DEF FnInv, DescInv
<1>4. TableInv'
  <2>1. \A t : TableOf(t)' = TableOf(t)
    BY <1>1 DEF TableOf
  <2> QED
    BY <1>1, <1>2, <2>1 DEF FnInv, TableInv
<1>5. wmCommand'[1] # 0 =>
        wmCommand'[1] \in Pool /\ wmDesc'[wmCommand'[1]].pci /\ WmRightFunction'
  BY <1>1 DEF FnInv, WmRightFunction
<1> QED
  BY <1>1, <1>2, <1>3, <1>4, <1>5 DEF FnInv

\* The walk: sysWindMlPciInit of one function.
LEMMA FnPciInit ==
  ASSUME IdsTellClass, FnInv, OwnerInv', WmPciInit
  PROVE  FnInv'
<1> DEFINE f == wmFns[wmPos]
           h == Head(wmFree)
           n == Cardinality(Before(wmPos, f.ven, f.dev))
<1>1. /\ wmPos <= Len(wmFns) /\ wmPos' = wmPos + 1
      /\ UNCHANGED <<wmFns, wmHeld, wmCommand>>
  BY DEF WmPciInit
<1>2. /\ DOMAIN wmFns = 1..Len(wmFns) /\ Len(wmFns) \in Nat /\ wmPos \in 1..Len(wmFns)
      /\ wmPos' \in 1..(Len(wmFns) + 1) /\ wmPos \in Nat /\ wmPos \in DOMAIN wmFns
  BY <1>1, Functions DEF FnInv
<1>3. ~WmReady /\ \A p \in Pool : wmHeld[p] = 0
  BY <1>1, <1>2 DEF WmReady, FnInv
<1>4. \A k, v, d : Before(k, v, d)' = Before(k, v, d)
  BY <1>1 DEF Before
<1>5. \A i \in 1..(wmPos' - 1) : i \in 1..(wmPos - 1) \/ i = wmPos
  BY <1>1, <1>2
<1>6. \A i : i \in 1..(wmPos - 1) => i \in 1..(wmPos' - 1) /\ i # wmPos
  BY <1>1, <1>2
<1>7. wmPos \in 1..(wmPos' - 1)
  BY <1>1, <1>2
<1>8. ASSUME UNCHANGED <<wmFree, wmDesc, wmDisplays, wmAudios>>,
             TypeOf(f) = "none" \/ wmFree = <<>>
      PROVE  FnInv'
  <2>1. DescInv'
    BY <1>1, <1>4, <1>6, <1>8 DEF FnInv, DescInv
  <2>2. \A t : TableOf(t)' = TableOf(t)
    BY <1>8 DEF TableOf
  <2>3. TableInv'
    <3> SUFFICES ASSUME NEW t \in PciTypes, wmFree # <<>>,
                        NEW i \in 1..(wmPos' - 1), TypeOf(wmFns[i]) = t
                 PROVE  \E k \in DOMAIN TableOf(t) : wmDesc[TableOf(t)[k]].base = i
      BY <1>1, <1>8, <2>2 DEF FnInv, TableInv, TypeOf
    <3>1. i # wmPos
      BY <1>8 DEF PciTypes
    <3> QED
      BY <1>3, <1>5, <3>1 DEF FnInv, TableInv
  <2>4. wmCommand'[1] # 0 =>
          wmCommand'[1] \in Pool /\ wmDesc'[wmCommand'[1]].pci /\ WmRightFunction'
    BY <1>1, <1>8 DEF FnInv, WmRightFunction
  <2> QED
    BY <1>1, <1>2, <1>3, <2>1, <2>3, <2>4 DEF FnInv
<1>9. ASSUME NEW t \in PciTypes, TypeOf(f) = t, NEW rec, Made(rec),
             rec = [type |-> t, ven |-> f.ven, dev |-> f.dev, pci |-> TRUE,
                    inst |-> Ordinal(TableOf(t), f.ven, f.dev), base |-> PhysBaseAdrs(wmPos),
                    line |-> f.line, vector |-> f.line],
             TableOf(t)' = Append(TableOf(t), h),
             \A u \in PciTypes : u # t => TableOf(u)' = TableOf(u)
      PROVE  FnInv'
  <2>1. /\ h \in Pool /\ ~wmDesc[h].pci /\ wmDesc' = [wmDesc EXCEPT ![h] = rec]
        /\ wmFree # <<>>
    BY <1>9, Taken DEF FnInv, Made
  <2>2. /\ rec.pci = TRUE /\ rec.base = wmPos /\ rec.ven = f.ven /\ rec.dev = f.dev
        /\ rec.inst = n
    <3>1. Ordinal(TableOf(t), f.ven, f.dev) = n
      BY <1>1, <1>9, <2>1, OrdinalCounts
    <3> QED
      BY <1>9, <3>1 DEF PhysBaseAdrs
  <2> HIDE DEF h, n
  <2>3. /\ wmDesc'[h] = rec
        /\ \A p \in Pool : p # h => wmDesc'[p] = wmDesc[p]
    BY <2>1 DEF FnInv, OwnerInv, OwnerType
  <2>4. DescInv'
    <3> SUFFICES ASSUME NEW p \in Pool
                 PROVE  (wmDesc'[p].pci =>
                           /\ wmDesc'[p].base \in 1..(wmPos' - 1)
                           /\ wmDesc'[p].ven = wmFns[wmDesc'[p].base].ven
                           /\ wmDesc'[p].dev = wmFns[wmDesc'[p].base].dev
                           /\ wmDesc'[p].inst =
                                Cardinality(Before(wmDesc'[p].base, wmDesc'[p].ven,
                                                   wmDesc'[p].dev)))
      BY <1>1, <1>3, <1>4 DEF DescInv
    <3>1. CASE p = h
      <4>1. wmDesc'[p].base = wmPos /\ wmDesc'[p].ven = f.ven /\ wmDesc'[p].dev = f.dev
        BY <2>2, <2>3, <3>1
      <4>2. wmDesc'[p].inst = n
        BY <2>2, <2>3, <3>1
      <4> QED
        BY <1>7, <4>1, <4>2 DEF n
    <3>2. CASE p # h
      BY <1>6, <2>3, <3>2 DEF FnInv, DescInv
    <3> QED
      BY <3>1, <3>2
  <2>5. ASSUME NEW u \in PciTypes
        PROVE  /\ TableOf(u) \in Seq(Pool)
               /\ DOMAIN TableOf(u) = 1..Len(TableOf(u)) /\ Len(TableOf(u)) \in Nat
               /\ \A k \in DOMAIN TableOf(u) :
                    /\ TableOf(u)[k] \in Pool /\ TableOf(u)[k] # h
                    /\ wmDesc[TableOf(u)[k]].pci
                    /\ wmDesc'[TableOf(u)[k]] = wmDesc[TableOf(u)[k]]
                    /\ wmDesc[TableOf(u)[k]].base # wmPos
    <3>1. TableOf(u) \in Seq(Pool)
      BY DEF FnInv, OwnerInv, OwnerType, TableOf
    <3>2. DOMAIN TableOf(u) = 1..Len(TableOf(u)) /\ Len(TableOf(u)) \in Nat
      BY <3>1, LenProperties
    <3>3. ASSUME NEW k \in DOMAIN TableOf(u)
          PROVE  TableOf(u)[k] \in Pool /\ wmDesc[TableOf(u)[k]].pci
      BY <3>1, <3>2, ElementOfSeq DEF FnInv, TableInv
    <3>4. ASSUME NEW k \in DOMAIN TableOf(u)
          PROVE  wmDesc[TableOf(u)[k]].base # wmPos
      BY <1>6, <3>3 DEF FnInv, DescInv
    <3> QED
      BY <2>1, <2>3, <3>1, <3>2, <3>3, <3>4
  <2>6. TableInv'
    <3> SUFFICES ASSUME NEW u \in PciTypes
                 PROVE  /\ \A k \in DOMAIN TableOf(u)' : wmDesc'[TableOf(u)'[k]].pci
                        /\ \A j, k \in DOMAIN TableOf(u)' :
                             wmDesc'[TableOf(u)'[j]].base = wmDesc'[TableOf(u)'[k]].base
                               => j = k
                        /\ \A i \in 1..(wmPos' - 1) :
                             TypeOf(wmFns[i]) = u
                               => \E k \in DOMAIN TableOf(u)' :
                                    wmDesc'[TableOf(u)'[k]].base = i
      BY <1>1 DEF TableInv, TypeOf
    <3>0. /\ \A j, k \in DOMAIN TableOf(u) :
               wmDesc[TableOf(u)[j]].base = wmDesc[TableOf(u)[k]].base => j = k
          /\ \A i \in 1..(wmPos - 1) :
               TypeOf(wmFns[i]) = u
                 => \E k \in DOMAIN TableOf(u) : wmDesc[TableOf(u)[k]].base = i
      BY <1>3, <2>1 DEF FnInv, TableInv
    <3>1. CASE u # t
      <4>1. TableOf(u)' = TableOf(u)
        BY <1>9, <3>1
      <4>2. TypeOf(f) # u
        BY <1>9, <3>1
      <4> QED
        BY <1>5, <2>5, <3>0, <4>1, <4>2
    <3>2. CASE u = t
      <4> DEFINE m == Len(TableOf(u)) + 1
                 T == Append(TableOf(u), h)
      <4>1. TableOf(u)' = T
        BY <1>9, <3>2
      <4>2. /\ DOMAIN T = 1..m /\ T[m] = h
            /\ \A k \in DOMAIN TableOf(u) : T[k] = TableOf(u)[k]
        BY <2>1, <2>5, AppendProperties, LenProperties
      <4>3. \A k \in 1..m : k \in DOMAIN TableOf(u) \/ k = m
        BY <2>5
      <4>4. m \in 1..m /\ \A k \in DOMAIN TableOf(u) : k \in 1..m
        BY <2>5
      <4> HIDE DEF T, m
      <4>5. wmDesc'[h].base = wmPos /\ wmDesc'[h].pci
        BY <2>2, <2>3
      <4>6. \A k \in DOMAIN T : wmDesc'[T[k]].pci
        BY <2>5, <4>2, <4>3, <4>5
      <4>7. \A k \in DOMAIN T : wmDesc'[T[k]].base = wmPos <=> k = m
        BY <2>5, <4>2, <4>3, <4>5
      <4>8. ASSUME NEW j \in DOMAIN T, NEW k \in DOMAIN T,
                   wmDesc'[T[j]].base = wmDesc'[T[k]].base
            PROVE  j = k
        <5>1. CASE j = m \/ k = m
          BY <4>7, <4>8, <5>1
        <5>2. CASE j \in DOMAIN TableOf(u) /\ k \in DOMAIN TableOf(u)
          BY <2>5, <3>0, <4>2, <4>8, <5>2
        <5> QED
          BY <4>2, <4>3, <5>1, <5>2
      <4>9. ASSUME NEW i \in 1..(wmPos' - 1), TypeOf(wmFns[i]) = u
            PROVE  \E k \in DOMAIN T : wmDesc'[T[k]].base = i
        <5>1. CASE i = wmPos
          BY <4>2, <4>4, <4>5, <5>1
        <5>2. CASE i \in 1..(wmPos - 1)
          <6>1. PICK k \in DOMAIN TableOf(u) : wmDesc[TableOf(u)[k]].base = i
            BY <3>0, <4>9, <5>2
          <6> QED
            BY <2>5, <4>2, <4>4, <6>1
        <5> QED
          BY <1>5, <5>1, <5>2
      <4> QED
        BY <4>1, <4>6, <4>8, <4>9
    <3> QED
      BY <3>1, <3>2
  <2>7. wmCommand'[1] # 0 =>
          wmCommand'[1] \in Pool /\ wmDesc'[wmCommand'[1]].pci /\ WmRightFunction'
    <3>1. ASSUME wmCommand[1] # 0
          PROVE  /\ wmCommand[1] \in Pool /\ wmDesc[wmCommand[1]].pci
                 /\ wmCommand[1] # h /\ wmDesc[wmCommand[1]].base = wmCommand[2]
      BY <2>1, <3>1 DEF FnInv, WmRightFunction
    <3> QED
      BY <1>1, <2>3, <3>1 DEF WmRightFunction
  <2> QED
    BY <1>1, <1>2, <1>3, <2>4, <2>6, <2>7 DEF FnInv
<1>10. /\ wmDisplays = TableOf("graphics") /\ wmDisplays' = TableOf("graphics")'
       /\ wmAudios = TableOf("audio") /\ wmAudios' = TableOf("audio")'
       /\ PciTypes = {"graphics", "audio"}
  BY DEF TableOf, PciTypes
<1> QED
  BY <1>8, <1>9, <1>10 DEF WmPciInit

\* Nothing is walked over at first.
LEMMA FnInit == WmInit => FnInv
<1> SUFFICES ASSUME WmInit PROVE FnInv
  OBVIOUS
<1>1. /\ wmFns \in WmMachines /\ wmPos = 1 /\ wmDisplays = <<>> /\ wmAudios = <<>>
      /\ wmDesc = [p \in Pool |-> Blank] /\ wmHeld = [p \in Pool |-> 0]
      /\ wmCommand[1] = 0
  BY DEF WmInit, Pool
<1>2. Len(wmFns) \in Nat
  <2>1. wmFns \in Seq({wmFns[k] : k \in DOMAIN wmFns})
    BY <1>1, WmAssumption
  <2> QED
    BY <2>1, LenProperties
<1>3. DescInv
  BY <1>1 DEF DescInv, Blank
<1>4. TableInv
  <2>1. DOMAIN <<>> = {}
    OBVIOUS
  <2>2. \A t \in PciTypes : TableOf(t) = <<>>
    BY <1>1 DEF TableOf
  <2>3. 1..(wmPos - 1) = {}
    BY <1>1
  <2> QED
    BY <2>1, <2>2, <2>3 DEF TableInv
<1> QED
  BY <1>1, <1>2, <1>3, <1>4, OwnerInit DEF FnInv

\* A descriptor made for a client is of no PCI function, and no table had it.
LEMMA FnMade ==
  ASSUME FnInv, OwnerInv', NEW rec, Made(rec), rec.pci = FALSE, Given(Head(wmFree)),
         "0" = rec.ven \/ <<rec.ven, rec.dev>> = VgaIds, WmReady,
         UNCHANGED <<wmTables, wmCommand>>
  PROVE  FnInv'
<1> DEFINE h == Head(wmFree)
<1>1. UNCHANGED <<wmFns, wmPos, wmDisplays, wmAudios, wmCommand>> /\ WmReady'
  BY DEF wmTables, WmReady
<1>2. h \in Pool /\ ~wmDesc[h].pci /\ wmDesc' = [wmDesc EXCEPT ![h] = rec]
  BY Taken DEF FnInv
<1>3. wmHeld' = [wmHeld EXCEPT ![h] = @ + 1]
  BY DEF Given
<1> HIDE DEF h
<1>4. \A p \in Pool : p # h => wmDesc'[p] = wmDesc[p] /\ wmHeld'[p] = wmHeld[p]
  BY <1>2, <1>3 DEF FnInv, OwnerInv, OwnerType
<1>5. wmDesc'[h] = rec
  BY <1>2 DEF FnInv, OwnerInv, OwnerType
<1>6. DescInv'
  <2> SUFFICES ASSUME NEW p \in Pool
               PROVE  /\ wmDesc'[p].pci =>
                           /\ wmDesc'[p].base \in 1..(wmPos - 1)
                           /\ wmDesc'[p].ven = wmFns[wmDesc'[p].base].ven
                           /\ wmDesc'[p].dev = wmFns[wmDesc'[p].base].dev
                           /\ wmDesc'[p].inst =
                                Cardinality(Before(wmDesc'[p].base, wmDesc'[p].ven,
                                                   wmDesc'[p].dev))
                      /\ ~wmDesc'[p].pci /\ wmHeld'[p] > 0 =>
                           "0" = wmDesc'[p].ven
                             \/ <<wmDesc'[p].ven, wmDesc'[p].dev>> = VgaIds
    <3>1. \A k, v, d : Before(k, v, d)' = Before(k, v, d)
      BY <1>1 DEF Before
    <3> QED
      BY <1>1, <3>1 DEF DescInv
  <2>1. CASE p = h
    BY <1>5, <2>1
  <2>2. CASE p # h
    BY <1>4, <2>2 DEF FnInv, DescInv
  <2> QED
    BY <2>1, <2>2
<1>7. TableInv'
  <2>1. ASSUME NEW t \in PciTypes
        PROVE  TableOf(t)' = TableOf(t) /\ TableOf(t) \in Seq(Pool)
    BY <1>1 DEF TableOf, FnInv, OwnerInv, OwnerType
  <2>2. ASSUME NEW t \in PciTypes, NEW k \in DOMAIN TableOf(t)
        PROVE  wmDesc[TableOf(t)[k]].pci /\ wmDesc'[TableOf(t)[k]] = wmDesc[TableOf(t)[k]]
    <3>1. TableOf(t)[k] \in Pool
      BY <2>1, LenProperties, ElementOfSeq
    <3>2. wmDesc[TableOf(t)[k]].pci
      BY DEF FnInv, TableInv
    <3> QED
      BY <1>2, <1>4, <3>1, <3>2
  <2>3. \A t \in PciTypes : \A j, k \in DOMAIN TableOf(t) :
           wmDesc[TableOf(t)[j]].base = wmDesc[TableOf(t)[k]].base => j = k
    BY DEF FnInv, TableInv
  <2> QED
    BY <1>1, <2>1, <2>2, <2>3 DEF TableInv
<1>8. wmCommand'[1] # 0 =>
        wmCommand'[1] \in Pool /\ wmDesc'[wmCommand'[1]].pci /\ WmRightFunction'
  <2>1. ASSUME wmCommand[1] # 0
        PROVE  /\ wmCommand[1] \in Pool /\ wmDesc[wmCommand[1]].pci
               /\ wmCommand[1] # h /\ wmDesc[wmCommand[1]].base = wmCommand[2]
    BY <1>2, <2>1 DEF FnInv, WmRightFunction
  <2> QED
    BY <1>1, <1>4, <2>1 DEF WmRightFunction
<1> QED
  BY <1>1, <1>6, <1>7, <1>8 DEF FnInv

\* Of two functions with the same identifiers the later has more before it.
LEMMA BeforeGrows ==
  ASSUME FnInv, NEW j \in DOMAIN wmFns, NEW k \in DOMAIN wmFns, j < k,
         NEW v, NEW d, wmFns[j].ven = v, wmFns[j].dev = d
  PROVE  Cardinality(Before(j, v, d)) < Cardinality(Before(k, v, d))
<1>1. DOMAIN wmFns = 1..Len(wmFns) /\ Len(wmFns) \in Nat /\ j \in Nat /\ k \in Nat
  BY Functions
<1>2. IsFiniteSet(Before(j, v, d)) /\ IsFiniteSet(Before(k, v, d))
  <2> SUFFICES ASSUME NEW i \in Nat PROVE IsFiniteSet(Before(i, v, d))
    BY <1>1
  <2>1. Before(i, v, d) \in SUBSET (1..(i - 1)) /\ 1 \in Int /\ i - 1 \in Int
    BY DEF Before
  <2>2. IsFiniteSet(1..(i - 1))
    BY <2>1, FS_Interval
  <2> QED
    BY <2>1, <2>2, FS_Subset
<1>3. Before(j, v, d) \subseteq Before(k, v, d) /\ Before(j, v, d) # Before(k, v, d)
  <2>1. j \in Before(k, v, d) /\ j \notin Before(j, v, d)
    BY <1>1 DEF Before
  <2>2. Before(j, v, d) \subseteq Before(k, v, d)
    BY <1>1 DEF Before
  <2> QED
    BY <2>1, <2>2
<1>4. Cardinality(Before(j, v, d)) # Cardinality(Before(k, v, d))
  BY <1>2, <1>3, FS_Subset
<1>5. Cardinality(Before(j, v, d)) <= Cardinality(Before(k, v, d))
  BY <1>2, <1>3, FS_Subset
<1> QED
  BY <1>2, <1>4, <1>5, FS_CardinalityType

\* What pciFindDevice finds for a descriptor is the function it was made of.
LEMMA FoundIsBase ==
  ASSUME FnInv, NEW p \in Pool, wmHeld[p] > 0,
         NEW fn \in PciFind(wmDesc[p].ven, wmDesc[p].dev, wmDesc[p].inst)
  PROVE  wmDesc[p].pci /\ wmDesc[p].base = fn
<1> DEFINE v == wmDesc[p].ven
           d == wmDesc[p].dev
           b == wmDesc[p].base
           s == {k \in DOMAIN wmFns : wmFns[k].ven = v /\ wmFns[k].dev = d}
<1>1. DOMAIN wmFns = 1..Len(wmFns) /\ Len(wmFns) \in Nat /\ wmFns \in WmMachines
      /\ wmPos \in 1..(Len(wmFns) + 1)
  BY Functions DEF FnInv
<1>2. /\ fn \in DOMAIN wmFns /\ wmFns[fn].ven = v /\ wmFns[fn].dev = d
      /\ Cardinality({j \in s : j < fn}) = wmDesc[p].inst
  BY DEF PciFind, Nth
<1>3. wmDesc[p].pci
  <2>1. "0" # v /\ <<v, d>> # VgaIds
    BY <1>1, <1>2, WmAssumption
  <2> QED
    BY <2>1 DEF FnInv, DescInv
<1>4. {j \in s : j < fn} = Before(fn, v, d)
  BY <1>1, <1>2 DEF Before
<1>5. /\ b \in 1..(wmPos - 1) /\ wmFns[b].ven = v /\ wmFns[b].dev = d
      /\ wmDesc[p].inst = Cardinality(Before(b, v, d))
  BY <1>3 DEF FnInv, DescInv
<1>6. b \in DOMAIN wmFns /\ b \in Nat /\ fn \in Nat
  BY <1>1, <1>2, <1>5
<1> HIDE DEF s, b, v, d
<1>7. Cardinality(Before(fn, v, d)) = Cardinality(Before(b, v, d))
  BY <1>2, <1>4, <1>5
<1>8. ASSUME NEW i \in Nat PROVE Cardinality(Before(i, v, d)) \in Nat
  <2>1. Before(i, v, d) \in SUBSET (1..(i - 1)) /\ 1 \in Int /\ i - 1 \in Int
    BY DEF Before
  <2>2. IsFiniteSet(1..(i - 1))
    BY <2>1, FS_Interval
  <2>3. IsFiniteSet(Before(i, v, d))
    BY <2>1, <2>2, FS_Subset
  <2> QED
    BY <2>3, FS_CardinalityType
<1>9. ~(fn < b)
  BY <1>2, <1>6, <1>7, <1>8, BeforeGrows
<1>10. ~(b < fn)
  BY <1>2, <1>5, <1>6, <1>7, <1>8, BeforeGrows
<1> QED
  BY <1>3, <1>6, <1>9, <1>10 DEF b

\* Every step keeps the invariant.
LEMMA FnStep ==
  ASSUME IdsTellClass, FnInv, [WmNext]_wmVars
  PROVE  FnInv'
<1>0. OwnerInv'
  BY OwnerStep DEF FnInv
<1>1. CASE UNCHANGED wmVars
  <2>1. UNCHANGED <<wmFns, wmPos, wmDisplays, wmAudios, wmDesc, wmFree, wmHeld, wmCommand>>
    BY <1>1 DEF wmVars, wmTables, wmPool
  <2>2. /\ \A t : TableOf(t)' = TableOf(t)
        /\ \A k, v, d : Before(k, v, d)' = Before(k, v, d)
        /\ WmReady' = WmReady
    BY <2>1 DEF TableOf, Before, WmReady
  <2>3. DescInv'
    BY <2>1, <2>2 DEF FnInv, DescInv
  <2>4. TableInv'
    BY <2>1, <2>2 DEF FnInv, TableInv, TypeOf
  <2> QED
    BY <1>0, <2>1, <2>2, <2>3, <2>4 DEF FnInv, WmRightFunction
<1>2. ASSUME NEW n, NEW v, NEW d, NEW t \in PciTypes, WmGetEntry(t, n, v, d)
      PROVE  FnInv'
  <2>1. PICK k \in DOMAIN TableOf(t) :
               wmHeld' = [wmHeld EXCEPT ![TableOf(t)[k]] = @ + 1]
    BY <1>2 DEF WmGetEntry, Given, Nth, Asked, TableOf
  <2>2. wmDesc[TableOf(t)[k]].pci
    BY DEF FnInv, TableInv
  <2>3. \A q \in Pool : wmHeld'[q] > 0 => wmDesc[q].pci \/ wmHeld[q] > 0
    BY <2>1, <2>2 DEF FnInv, OwnerInv, OwnerType
  <2> QED
    BY <1>0, <1>2, <2>3, FnUnchanged DEF WmGetEntry
<1>3. ASSUME NEW n, WmGetVga(n) PROVE FnInv'
  <2> DEFINE rec == [Blank EXCEPT !.type = "graphics", !.ven = VgaIds[1],
                                  !.dev = VgaIds[2], !.inst = n]
  <2>1. rec.pci = FALSE /\ <<rec.ven, rec.dev>> = VgaIds
    BY DEF Blank, VgaIds
  <2>2. /\ Made(rec) /\ Given(Head(wmFree)) /\ WmReady
        /\ UNCHANGED <<wmTables, wmCommand>>
    BY <1>3 DEF WmGetVga
  <2> HIDE DEF rec
  <2> QED
    BY <1>0, <2>1, <2>2, FnMade
<1>4. ASSUME NEW type, NEW n, WmGetInput(type, n) PROVE FnInv'
  <2> DEFINE line == IF type = "keyboard" THEN KBD_INT_LVL ELSE MSE_INT_LVL
             rec == [Blank EXCEPT !.type = type, !.inst = n, !.line = line, !.vector = line]
  <2>1. rec.pci = FALSE /\ rec.ven = "0"
    BY DEF Blank
  <2>2. /\ Made(rec) /\ Given(Head(wmFree)) /\ WmReady
        /\ UNCHANGED <<wmTables, wmCommand>>
    BY <1>4 DEF WmGetInput
  <2> HIDE DEF rec
  <2> QED
    BY <1>0, <2>1, <2>2, FnMade
<1>5. ASSUME NEW p \in Pool, wmHeld[p] > 0
      PROVE  WmReady /\ wmHeld[p] \in Nat
  BY <1>5 DEF FnInv, OwnerInv, OwnerType
<1>6. ASSUME NEW p \in Pool, WmAccessModeSet(p) PROVE FnInv'
  <2>1. PICK fn \in PciFind(wmDesc[p].ven, wmDesc[p].dev, wmDesc[p].inst) :
               wmCommand' = <<p, fn>>
    BY <1>6 DEF WmAccessModeSet
  <2>2. wmHeld[p] > 0 /\ UNCHANGED <<wmTables, wmDesc, wmHeld>>
    BY <1>6 DEF WmAccessModeSet, wmPool
  <2>3. wmDesc[p].pci /\ wmDesc[p].base = fn
    BY <2>1, <2>2, FoundIsBase
  <2> QED
    BY <1>0, <1>5, <2>1, <2>2, <2>3, FnUnchanged
<1>7. ASSUME NEW p \in Pool, WmDevRelease(p) PROVE FnInv'
  <2>1. /\ wmHeld[p] > 0 /\ wmHeld' = [wmHeld EXCEPT ![p] = @ - 1]
        /\ UNCHANGED <<wmTables, wmDesc, wmCommand>>
    BY <1>7 DEF WmDevRelease
  <2>2. \A q \in Pool : wmHeld'[q] > 0 => wmHeld[q] > 0
    BY <2>1 DEF FnInv, OwnerInv, OwnerType
  <2> QED
    BY <1>0, <1>5, <2>1, <2>2, FnUnchanged
<1>8. ASSUME NEW p \in Pool, WmIntConnect(p) \/ WmIntEnable(p) \/ WmIntDisable(p)
      PROVE  FnInv'
  <2>1. wmHeld[p] > 0 /\ UNCHANGED <<wmTables, wmDesc, wmHeld, wmCommand>>
    BY <1>8 DEF WmIntConnect, WmIntEnable, WmIntDisable, wmPool
  <2> QED
    BY <1>0, <1>5, <2>1, FnUnchanged
<1> QED
  BY <1>0, <1>1, <1>2, <1>3, <1>4, <1>6, <1>7, <1>8, FnPciInit DEF WmNext, Pool, PciTypes

\* Where identifiers tell the class of a function, WINDML_ACCESS_MODE_SET always
\* writes the command register of the function whose base addresses are in the
\* descriptor, though it finds the function by counting: the instance number made
\* while walking over the functions counts the same ones.
THEOREM RightFunctionKept ==
  ASSUME IdsTellClass
  PROVE  WmSpec => []WmRightFunction
<1>1. FnInv => WmRightFunction
  BY DEF FnInv, WmRightFunction
<1>2. FnInv /\ [WmNext]_wmVars => FnInv'
  BY FnStep
<1> QED
  BY <1>1, <1>2, FnInit, PTL DEF WmSpec
=============================================================================
