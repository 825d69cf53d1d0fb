---------------------------- MODULE Devices_proofs ----------------------------
(***************************************************************************)
(* Proofs about NvRam, IntLines and SdMonitor, for any callers, strings,    *)
(* offsets, devices, lines, users and cards.                               *)
(***************************************************************************)
EXTENDS NvRam, IntLines, SdMonitor, FiniteSetTheorems, SequenceTheorems,
        WellFoundedInduction, TLAPS

-----------------------------------------------------------------------------
(* NvRam: the operators.                                                   *)

\* Writing n bytes leaves a file of bytes.
LEMMA WrittenType ==
  ASSUME NEW file \in Seq(Nat), NEW c, c.str \in Seq(Nat), c.off \in Nat,
         NEW n \in 0..Len(c.str)
  PROVE  NvWritten(file, c, n) \in Seq(Nat)
<1> DEFINE m == IF n > 0 /\ c.off + n > Len(file) THEN c.off + n ELSE Len(file)
           b == [k \in 1..m |-> IF k \in (c.off + 1)..(c.off + n) THEN c.str[k - c.off]
                                ELSE IF k <= Len(file) THEN file[k] ELSE 0]
<1>1. m \in Nat
  OBVIOUS
<1>2. ASSUME NEW k \in 1..m
      PROVE  b[k] \in Nat
  <2>1. CASE k \in (c.off + 1)..(c.off + n)
    <3>1. k - c.off \in 1..Len(c.str)
      BY <2>1
    <3>2. c.str[k - c.off] \in Nat
      BY <3>1, ElementOfSeq
    <3> QED
      BY <2>1, <3>2
  <2>2. CASE k \notin (c.off + 1)..(c.off + n) /\ k <= Len(file)
    <3>1. k \in 1..Len(file)
      BY <2>2, <1>1
    <3>2. file[k] \in Nat
      BY <3>1, ElementOfSeq
    <3> QED
      BY <2>2, <3>2
  <2> QED
    BY <2>1, <2>2
<1>3. b \in [1..m -> Nat]
  BY <1>2
<1> HIDE DEF m
<1>4. b \in Seq(Nat)
  BY <1>1, <1>3
<1> QED
  BY <1>4 DEF NvWritten, m

\* A string that was written in full can be read at its offset.
LEMMA WrittenRead ==
  ASSUME NEW file \in Seq(Nat), NEW c, c.str \in Seq(Nat), c.off \in Nat
  PROVE  LET f == NvWritten(file, c, Len(c.str))
         IN  \A k \in 1..Len(c.str) : c.off + k \in 1..Len(f) /\ f[c.off + k] = c.str[k]
<1> DEFINE n == Len(c.str)
           m == IF n > 0 /\ c.off + n > Len(file) THEN c.off + n ELSE Len(file)
           f == NvWritten(file, c, n)
<1>1. n \in Nat /\ m \in Nat /\ Len(file) \in Nat
  OBVIOUS
<1>2. f \in Seq(Nat)
  BY WrittenType, <1>1
<1>3. DOMAIN f = 1..m
  BY DEF NvWritten
<1>4. Len(f) = m
  BY <1>1, <1>2, <1>3
<1>5. ASSUME NEW k \in 1..n
      PROVE  c.off + k \in 1..m /\ f[c.off + k] = c.str[k]
  <2>1. c.off + k \in 1..m
    BY <1>1
  <2>2. c.off + k \in (c.off + 1)..(c.off + n) /\ (c.off + k) - c.off = k
    BY <1>1
  <2> QED
    BY <2>1, <2>2 DEF NvWritten
<1> QED
  BY <1>4, <1>5

\* Bytes of a file that agree with a string are that string.
LEMMA BytesOf ==
  ASSUME NEW s \in Seq(Nat), NEW off \in Nat, nvFile \in Seq(Nat),
         \A k \in 1..Len(s) : off + k \in 1..Len(nvFile) /\ nvFile[off + k] = s[k]
  PROVE  NvBytes(off, Len(s)) = s
<1> DEFINE n == Len(s)
           h == IF off + n < Len(nvFile) THEN off + n ELSE Len(nvFile)
<1>1. n \in Nat /\ Len(nvFile) \in Nat /\ h \in Nat
  OBVIOUS
<1>2. CASE n = 0
  <2>1. SubSeq(nvFile, off + 1, h) = << >>
    BY <1>1, <1>2
  <2>2. s = << >>
    BY <1>2
  <2> QED
    BY <2>1, <2>2 DEF NvBytes
<1>3. CASE n > 0
  <2>1. off + n \in 1..Len(nvFile)
    BY <1>1, <1>3
  <2>2. h = off + n
    <3>1. off + n \in Nat /\ Len(nvFile) \in Nat /\ off + n <= Len(nvFile)
      BY <1>1, <2>1
    <3>2. ASSUME NEW x \in Nat, NEW y \in Nat, x <= y
          PROVE  (IF x < y THEN x ELSE y) = x
      BY <3>2
    <3> HIDE DEF n
    <3> QED
      BY <3>1, <3>2
  <2>3. /\ SubSeq(nvFile, off + 1, off + n) \in Seq(Nat)
        /\ Len(SubSeq(nvFile, off + 1, off + n)) = n
        /\ \A k \in 1..n : SubSeq(nvFile, off + 1, off + n)[k] = nvFile[off + k]
    <3>1. \A k \in (off + 1)..(off + n) : nvFile[k] \in Nat
      <4>1. \A k \in (off + 1)..(off + n) : k \in 1..Len(nvFile)
        BY <2>1, <1>1
      <4> QED
        BY <4>1
    <3>2. off + 1 \in Int /\ off + n \in Int /\ (off + n) - (off + 1) + 1 = n /\ off + 1 <= off + n
      BY <1>1, <1>3
    <3>3. \A k \in 1..n : off + 1 + k - 1 = off + k
      BY <1>1
    <3> HIDE DEF n
    <3> QED
      BY <3>1, <3>2, <3>3, SubSeqProperties
  <2>4. SubSeq(nvFile, off + 1, off + n) = s
    BY <2>3, SeqEqual
  <2> QED
    BY <2>2, <2>4 DEF NvBytes
<1> QED
  BY <1>1, <1>2, <1>3
-----------------------------------------------------------------------------
(* The invariant.                                                          *)

\* A call under way is inside the range and of one kind; one that reads or writes
\* has found the file.
CallsInv ==
  \A t \in NvTasks :
    /\ nvPc[t] # "idle" => nvCall[t].op \in {"get", "set"} /\ nvCall[t].off >= 0
    /\ nvPc[t] = "idle" => nvCall[t] = NoNvCall
    /\ nvPc[t] = "io" => nvFile # NoFile
    /\ nvPc[t] \in {"open", "delay"} => nvTries[t] < NUMBER_OF_ATTEMPTS

\* What was acknowledged is in the file, and nobody is about to change it.
AckedInv ==
  nvAcked # NoNvCall
    => /\ nvFile # NoFile /\ nvAcked.off >= 0
       /\ \A t \in NvTasks : nvCall[t].op # "set"
       /\ \A k \in 1..Len(nvAcked.str) :
            nvAcked.off + k \in 1..Len(nvFile) /\ nvFile[nvAcked.off + k] = nvAcked.str[k]

NvInv == NvTypeOK /\ CallsInv /\ AckedInv

\* Strings are sequences of bytes.
LEMMA Strings ==
  ASSUME NEW c \in NvCalls
  PROVE  c.str \in Seq(Nat) /\ c.off \in Int
<1>1. \A s \in NvStrings : s \in Seq(Nat)
  <2> TAKE s \in NvStrings
  <2>1. s \in Seq(Nat \ {EOS})
    BY NvAssumption
  <2> QED
    BY <2>1
<1>2. c.str \in NvStrings \cup {<<>>} /\ c.off \in Int
  BY DEF NvCalls
<1>3. <<>> \in Seq(Nat)
  OBVIOUS
<1> QED
  BY <1>1, <1>2, <1>3

\* The invariant holds initially.
LEMMA NvInvInit == NvInit => NvInv
<1> SUFFICES ASSUME NvInit PROVE NvInv
  OBVIOUS
<1>1. NoNvCall \in NvCalls
  BY DEF NoNvCall, NvCalls
<1>2. NvTypeOK
  <2>1. nvGot \in [strLen : Nat, str : Seq(Nat)]
    <3>1. nvGot = [strLen |-> 0, str |-> <<>>]
      BY DEF NvInit
    <3>2. <<>> \in Seq(Nat)
      OBVIOUS
    <3> QED
      BY <3>1, <3>2
  <2>2. nvPc \in [NvTasks -> {"idle", "open", "delay", "io"}]
    BY DEF NvInit
  <2>3. nvTries \in [NvTasks -> 0..NUMBER_OF_ATTEMPTS]
    BY DEF NvInit, NUMBER_OF_ATTEMPTS
  <2>4. nvCall \in [NvTasks -> NvCalls] /\ nvAcked \in NvCalls
    BY <1>1 DEF NvInit
  <2>5. nvFile = NoFile /\ nvMounted \in BOOLEAN /\ nvSets \in Nat /\ nvFaults \in Nat
    BY NvAssumption DEF NvInit
  <2> QED
    BY <2>1, <2>2, <2>3, <2>4, <2>5 DEF NvTypeOK
<1> QED
  BY <1>2 DEF NvInit, NvInv, CallsInv, AckedInv

\* Only the file's end matters for what is in it.
LEMMA AckedKept ==
  ASSUME AckedInv, UNCHANGED <<nvFile, nvAcked>>,
         \A t \in NvTasks : nvCall'[t].op = "set" => nvCall[t].op = "set"
  PROVE  AckedInv'
BY DEF AckedInv

\* A task leaves its call, or goes on with it.
LEMMA GotoType ==
  ASSUME NvTypeOK, NEW t \in NvTasks, NEW l \in {"idle", "open", "delay", "io"}, NvGoto(t, l)
  PROVE  /\ nvPc' \in [NvTasks -> {"idle", "open", "delay", "io"}]
         /\ nvCall' \in [NvTasks -> NvCalls]
         /\ nvPc'[t] = l /\ (l # "idle" => nvCall' = nvCall) /\ (l = "idle" => nvCall'[t] = NoNvCall)
         /\ \A u \in NvTasks \ {t} : nvPc'[u] = nvPc[u] /\ nvCall'[u] = nvCall[u]
<1>1. NoNvCall \in NvCalls /\ NoNvCall.op # "set"
  BY DEF NoNvCall, NvCalls
<1>2. nvPc \in [NvTasks -> {"idle", "open", "delay", "io"}] /\ nvCall \in [NvTasks -> NvCalls]
  BY DEF NvTypeOK
<1>3. nvPc' = [nvPc EXCEPT ![t] = l]
  BY DEF NvGoto
<1>4. nvCall' = IF l = "idle" THEN [nvCall EXCEPT ![t] = NoNvCall] ELSE nvCall
  BY DEF NvGoto
<1> QED
  BY <1>1, <1>2, <1>3, <1>4

\* The calls stay in order when the file stays.
LEMMA CallsKept ==
  ASSUME NvTypeOK, CallsInv, NEW t \in NvTasks, NEW l \in {"idle", "open", "delay", "io"},
         NvGoto(t, l), nvPc[t] # "idle", nvFile # NoFile => nvFile' # NoFile,
         l = "io" => nvFile' # NoFile,
         \A u \in NvTasks \ {t} : nvTries'[u] = nvTries[u],
         l \in {"open", "delay"} => nvTries'[t] < NUMBER_OF_ATTEMPTS
  PROVE  /\ CallsInv'
         /\ \A u \in NvTasks : nvCall'[u].op = "set" => nvCall[u].op = "set"
<1>1. NoNvCall.op # "set"
  BY DEF NoNvCall
<1> QED
  BY <1>1, GotoType DEF CallsInv
-----------------------------------------------------------------------------
(* The steps.                                                              *)

\* A call begins: a Set takes the acknowledgement back.
LEMMA BeginStep ==
  ASSUME NvInv, NEW t \in NvTasks, NEW op \in {"get", "set"}, NEW s \in NvStrings,
         NEW off \in NvOffsets, NvBegin(t, op, s, off)
  PROVE  NvInv'
<1> DEFINE c == [op |-> op, str |-> s, off |-> off]
<1>1. NvTypeOK /\ CallsInv /\ AckedInv
  BY DEF NvInv
<1>2. s \in Seq(Nat \ {EOS}) /\ off \in Int
  BY NvAssumption
<1>3. off >= 0
  BY <1>2 DEF NvBegin, NvOutside
<1>4. c \in NvCalls /\ c.op = op /\ c.off = off
  BY <1>2 DEF NvCalls
<1>5. /\ nvCall' = [nvCall EXCEPT ![t] = c]
      /\ nvTries' = [nvTries EXCEPT ![t] = 0]
      /\ nvPc' = [nvPc EXCEPT ![t] = "open"]
      /\ UNCHANGED <<nvFile, nvMounted, nvGot, nvFaults>>
  BY DEF NvBegin
<1>6. \/ op = "get" /\ UNCHANGED <<nvAcked, nvSets>>
      \/ op = "set" /\ nvSets > 0 /\ nvSets' = nvSets - 1 /\ nvAcked' = NoNvCall
  BY DEF NvBegin
<1> HIDE DEF c
<1>7. NoNvCall \in NvCalls
  BY DEF NoNvCall, NvCalls
<1>8. /\ nvPc' \in [NvTasks -> {"idle", "open", "delay", "io"}]
      /\ nvCall' \in [NvTasks -> NvCalls]
      /\ nvTries' \in [NvTasks -> 0..NUMBER_OF_ATTEMPTS]
  BY <1>1, <1>4, <1>5 DEF NvTypeOK, NUMBER_OF_ATTEMPTS
<1>9. nvAcked' \in NvCalls /\ nvSets' \in Nat
  BY <1>1, <1>6, <1>7 DEF NvTypeOK
<1>10. NvTypeOK'
  BY <1>1, <1>5, <1>8, <1>9 DEF NvTypeOK
<1>11. CallsInv'
  <2>1. /\ nvCall'[t] = c /\ nvPc'[t] = "open" /\ nvTries'[t] = 0
        /\ \A u \in NvTasks \ {t} : /\ nvCall'[u] = nvCall[u] /\ nvPc'[u] = nvPc[u]
                                   /\ nvTries'[u] = nvTries[u]
    BY <1>1, <1>5 DEF NvTypeOK
  <2> QED
    BY <1>1, <1>3, <1>4, <1>5, <2>1 DEF CallsInv, NUMBER_OF_ATTEMPTS
<1>12. AckedInv'
  <2>1. CASE op = "get"
    <3>1. UNCHANGED <<nvFile, nvAcked>>
      BY <1>5, <1>6, <2>1
    <3>2. \A u \in NvTasks : nvCall'[u].op = "set" => nvCall[u].op = "set"
      BY <1>1, <1>4, <1>5, <2>1 DEF NvTypeOK
    <3> QED
      BY <1>1, <3>1, <3>2, AckedKept
  <2>2. CASE op = "set"
    BY <1>6, <2>2 DEF AckedInv
  <2> QED
    BY <2>1, <2>2
<1> QED
  BY <1>10, <1>11, <1>12 DEF NvInv

\* Steps of a call that leave the file.
LEMMA QuietStep ==
  ASSUME NvInv, NEW t \in NvTasks, NEW l \in {"idle", "open", "delay", "io"}, NvGoto(t, l),
         nvPc[t] # "idle", l = "io" => nvFile # NoFile,
         UNCHANGED <<nvFile, nvMounted, nvAcked, nvSets>>,
         nvTries' \in [NvTasks -> 0..NUMBER_OF_ATTEMPTS],
         \A u \in NvTasks \ {t} : nvTries'[u] = nvTries[u],
         l \in {"open", "delay"} => nvTries'[t] < NUMBER_OF_ATTEMPTS,
         nvGot' \in [strLen : Nat, str : Seq(Nat)], nvFaults' \in Nat
  PROVE  NvInv'
<1>1. NvTypeOK /\ CallsInv /\ AckedInv
  BY DEF NvInv
<1>2. /\ nvPc' \in [NvTasks -> {"idle", "open", "delay", "io"}]
      /\ nvCall' \in [NvTasks -> NvCalls]
  BY <1>1, GotoType
<1>3. NvTypeOK'
  BY <1>1, <1>2 DEF NvTypeOK
<1>4. /\ CallsInv'
      /\ \A u \in NvTasks : nvCall'[u].op = "set" => nvCall[u].op = "set"
  BY <1>1, CallsKept
<1>5. AckedInv'
  BY <1>1, <1>4, AckedKept
<1> QED
  BY <1>3, <1>4, <1>5 DEF NvInv

\* Opening to read.
LEMMA OpenGetStep ==
  ASSUME NvInv, NEW t \in NvTasks, NvOpenGet(t)
  PROVE  NvInv'
<1>1. NvTypeOK /\ CallsInv
  BY DEF NvInv
<1>2. nvPc[t] # "idle" /\ UNCHANGED <<nvFile, nvMounted, nvGot, nvAcked, nvSets, nvFaults>>
  BY DEF NvOpenGet
<1>3. nvGot' \in [strLen : Nat, str : Seq(Nat)] /\ nvFaults' \in Nat
  BY <1>1, <1>2 DEF NvTypeOK
<1>4. CASE nvMounted /\ nvFile # NoFile /\ NvGoto(t, "io") /\ UNCHANGED nvTries
  <2>1. nvTries' \in [NvTasks -> 0..NUMBER_OF_ATTEMPTS] /\ nvTries' = nvTries
    BY <1>1, <1>4 DEF NvTypeOK
  <2> QED
    BY <1>2, <1>3, <1>4, <2>1, QuietStep
<1>5. CASE /\ nvTries' = [nvTries EXCEPT ![t] = @ + 1]
           /\ NvGoto(t, IF nvTries'[t] < NUMBER_OF_ATTEMPTS THEN "delay" ELSE "idle")
  <2>1. nvTries \in [NvTasks -> 0..2]
    BY <1>1 DEF NvTypeOK, NUMBER_OF_ATTEMPTS
  <2>2. nvTries[t] < 2
    BY <1>1 DEF CallsInv, NvOpenGet, NUMBER_OF_ATTEMPTS
  <2>3. nvTries' \in [NvTasks -> 0..NUMBER_OF_ATTEMPTS]
    BY <1>5, <2>1, <2>2 DEF NUMBER_OF_ATTEMPTS
  <2>4. PICK l \in {"delay", "idle"} :
          NvGoto(t, l) /\ (l = "delay" => nvTries'[t] < NUMBER_OF_ATTEMPTS)
    BY <1>5
  <2>5. \A u \in NvTasks \ {t} : nvTries'[u] = nvTries[u]
    BY <1>5, <2>1
  <2> QED
    BY <1>2, <1>3, <2>3, <2>4, <2>5, QuietStep
<1> QED
  BY <1>4, <1>5 DEF NvOpenGet

\* Opening to write, which makes the file.
LEMMA OpenSetStep ==
  ASSUME NvInv, NEW t \in NvTasks, NvOpenSet(t)
  PROVE  NvInv'
<1>1. NvTypeOK /\ CallsInv /\ AckedInv
  BY DEF NvInv
<1>2. /\ nvPc[t] = "open" /\ nvCall[t].op = "set"
      /\ nvFile' = IF nvMounted /\ nvFile = NoFile THEN <<>> ELSE nvFile
      /\ UNCHANGED <<nvMounted, nvTries, nvGot, nvAcked, nvSets, nvFaults>>
  BY DEF NvOpenSet
<1>3. PICK l \in {"io", "idle"} : NvGoto(t, l) /\ (l = "io" => nvMounted)
  BY DEF NvOpenSet
<1>4. <<>> # NoFile /\ <<>> \in Seq(Nat)
  BY DEF NoFile
<1>5. /\ nvFile' = NoFile \/ nvFile' \in Seq(Nat)
      /\ nvFile # NoFile => nvFile' # NoFile
      /\ l = "io" => nvFile' # NoFile
  BY <1>1, <1>2, <1>3, <1>4 DEF NvTypeOK
<1>6. NvTypeOK'
  BY <1>1, <1>2, <1>3, <1>5, GotoType DEF NvTypeOK
<1>7. /\ CallsInv'
      /\ \A u \in NvTasks : nvCall'[u].op = "set" => nvCall[u].op = "set"
  BY <1>1, <1>2, <1>3, <1>5, CallsKept
<1>8. AckedInv'
  BY <1>1, <1>2 DEF AckedInv
<1> QED
  BY <1>6, <1>7, <1>8 DEF NvInv

\* Reading.
LEMMA ReadStep ==
  ASSUME NvInv, NEW t \in NvTasks, NvRead(t)
  PROVE  NvInv'
<1>1. NvTypeOK /\ CallsInv
  BY DEF NvInv
<1> DEFINE n == Len(nvCall[t].str)
           off == nvCall[t].off
           h == IF off + n < Len(nvFile) THEN off + n ELSE Len(nvFile)
<1>2. nvCall[t].str \in Seq(Nat) /\ off \in Nat
  BY <1>1, Strings DEF NvTypeOK, CallsInv, NvRead
<1>3. nvFile \in Seq(Nat)
  BY <1>1 DEF NvTypeOK, CallsInv, NvRead
<1>4. \A k \in (off + 1)..h : nvFile[k] \in Nat
  <2>1. \A k \in (off + 1)..h : k \in 1..Len(nvFile)
    BY <1>2, <1>3
  <2> QED
    BY <2>1, <1>3, ElementOfSeq
<1>5. NvBytes(off, n) \in Seq(Nat)
  <2>1. off + 1 \in Int /\ h \in Int
    BY <1>2, <1>3
  <2> HIDE DEF h
  <2>2. SubSeq(nvFile, off + 1, h) \in Seq(Nat)
    BY <1>4, <2>1, SubSeqProperties
  <2> QED
    BY <2>2 DEF NvBytes, h
<1>6. nvGot' \in [strLen : Nat, str : Seq(Nat)]
  <2>1. nvGot' = [strLen |-> n, str |-> NvBytes(off, n) \o <<EOS>>]
    BY DEF NvRead
  <2>2. <<EOS>> \in Seq(Nat)
    BY DEF EOS
  <2>3. n \in Nat
    BY <1>2
  <2> HIDE DEF n, off
  <2>4. NvBytes(off, n) \o <<EOS>> \in Seq(Nat)
    BY <1>5, <2>2, ConcatProperties
  <2> QED
    BY <2>1, <2>3, <2>4
<1>7. /\ NvGoto(t, "idle") /\ nvPc[t] # "idle"
      /\ UNCHANGED <<nvFile, nvMounted, nvTries, nvAcked, nvSets, nvFaults>>
  BY DEF NvRead
<1>8. nvTries' \in [NvTasks -> 0..NUMBER_OF_ATTEMPTS] /\ nvFaults' \in Nat
  BY <1>1, <1>7 DEF NvTypeOK
<1> QED
  BY <1>6, <1>7, <1>8, QuietStep

\* Writing: in full, and alone, it is acknowledged.
LEMMA WriteStep ==
  ASSUME NvInv, NEW t \in NvTasks, NvWrite(t)
  PROVE  NvInv'
<1>1. NvTypeOK /\ CallsInv /\ AckedInv
  BY DEF NvInv
<1> DEFINE c == nvCall[t]
<1>2. c \in NvCalls /\ c.str \in Seq(Nat) /\ c.off \in Nat /\ c.op = "set"
  BY <1>1, Strings DEF NvTypeOK, CallsInv, NvWrite
<1>3. nvFile \in Seq(Nat)
  BY <1>1 DEF NvTypeOK, CallsInv, NvWrite
<1>4. PICK n \in 0..Len(c.str) :
        /\ n < Len(c.str) => nvFaults > 0
        /\ nvFaults' = IF n < Len(c.str) THEN nvFaults - 1 ELSE nvFaults
        /\ nvFile' = NvWritten(nvFile, c, n)
        /\ nvAcked' = IF FullWrite(n, Len(c.str))
                           /\ \A u \in NvTasks \ {t} : nvPc[u] = "idle" \/ nvCall[u].op = "get"
                      THEN c ELSE NoNvCall
  BY DEF NvWrite
<1>5. /\ nvPc[t] = "io" /\ NvGoto(t, "idle")
      /\ UNCHANGED <<nvMounted, nvTries, nvGot, nvSets>>
  BY DEF NvWrite
<1>6. nvFile' \in Seq(Nat)
  BY <1>2, <1>3, <1>4, WrittenType
<1>7. nvFile' # NoFile
  <2>1. NoFile[1] = -1 /\ Len(NoFile) = 1
    BY DEF NoFile
  <2>2. ASSUME nvFile' = NoFile PROVE FALSE
    <3>1. 1 \in 1..Len(nvFile')
      BY <2>1, <2>2
    <3>2. nvFile'[1] \in Nat
      BY <1>6, <3>1, ElementOfSeq
    <3> QED
      BY <2>1, <2>2, <3>2
  <2> QED
    BY <2>2
<1>8. NoNvCall \in NvCalls /\ NoNvCall.op # "set"
  BY DEF NoNvCall, NvCalls
<1>9. nvAcked' \in NvCalls /\ nvFaults' \in Nat
  <2>1. nvFaults \in Nat /\ Len(c.str) \in Nat
    BY <1>1, <1>2 DEF NvTypeOK
  <2> QED
    BY <1>2, <1>4, <1>8, <2>1
<1>10. /\ nvPc' \in [NvTasks -> {"idle", "open", "delay", "io"}]
       /\ nvCall' \in [NvTasks -> NvCalls]
       /\ nvCall'[t] = NoNvCall
       /\ \A u \in NvTasks \ {t} : nvPc'[u] = nvPc[u] /\ nvCall'[u] = nvCall[u]
  BY <1>1, <1>5, GotoType
<1>11. NvTypeOK'
  BY <1>1, <1>5, <1>6, <1>9, <1>10 DEF NvTypeOK
<1>12. CallsInv'
  BY <1>1, <1>5, <1>7, CallsKept
<1>13. AckedInv'
  <2> SUFFICES ASSUME nvAcked' # NoNvCall
               PROVE  /\ nvFile' # NoFile /\ nvAcked'.off >= 0
                      /\ \A u \in NvTasks : nvCall'[u].op # "set"
                      /\ \A k \in 1..Len(nvAcked'.str) :
                           /\ nvAcked'.off + k \in 1..Len(nvFile')
                           /\ nvFile'[nvAcked'.off + k] = nvAcked'.str[k]
    BY DEF AckedInv
  <2>1. /\ nvAcked' = c /\ n = Len(c.str)
        /\ \A u \in NvTasks \ {t} : nvPc[u] = "idle" \/ nvCall[u].op = "get"
    BY <1>4 DEF FullWrite
  <2>2. \A u \in NvTasks : nvCall'[u].op # "set"
    BY <1>1, <1>8, <1>10, <2>1 DEF CallsInv
  <2>3. nvFile' = NvWritten(nvFile, c, Len(c.str))
    BY <1>4, <2>1
  <2>4. \A k \in 1..Len(c.str) : /\ c.off + k \in 1..Len(nvFile')
                                 /\ nvFile'[c.off + k] = c.str[k]
    BY <1>2, <1>3, <2>3, WrittenRead
  <2> QED
    BY <1>2, <1>7, <2>1, <2>2, <2>4
<1> QED
  BY <1>11, <1>12, <1>13 DEF NvInv

\* A reset may cut a write short, and then nothing was acknowledged.
LEMMA ResetStep ==
  ASSUME NvInv, NvReset
  PROVE  NvInv'
<1>1. NvTypeOK /\ CallsInv /\ AckedInv
  BY DEF NvInv
<1>2. /\ nvFaults > 0 /\ nvFaults' = nvFaults - 1 /\ nvMounted' = FALSE
      /\ nvPc' = [t \in NvTasks |-> "idle"] /\ nvCall' = [t \in NvTasks |-> NoNvCall]
      /\ UNCHANGED <<nvTries, nvGot, nvAcked, nvSets>>
  BY DEF NvReset, NvFault
<1>3. NoNvCall \in NvCalls /\ NoNvCall.op # "set"
  BY DEF NoNvCall, NvCalls
<1>4. ASSUME nvFile' = NoFile \/ nvFile' \in Seq(Nat)
      PROVE  NvTypeOK'
  <2>1. nvPc' \in [NvTasks -> {"idle", "open", "delay", "io"}] /\ nvCall' \in [NvTasks -> NvCalls]
    BY <1>2, <1>3
  <2>2. nvFaults' \in Nat /\ nvMounted' \in BOOLEAN
    <3>1. nvFaults \in Nat
      BY <1>1 DEF NvTypeOK
    <3>2. nvFaults' \in Nat
      BY <1>2, <3>1
    <3>3. nvMounted' \in BOOLEAN
      BY <1>2
    <3> QED
      BY <3>2, <3>3
  <2>3. /\ nvTries' \in [NvTasks -> 0..NUMBER_OF_ATTEMPTS] /\ nvAcked' \in NvCalls
        /\ nvGot' \in [strLen : Nat, str : Seq(Nat)] /\ nvSets' \in Nat
    BY <1>1, <1>2 DEF NvTypeOK
  <2> QED
    BY <1>4, <2>1, <2>2, <2>3 DEF NvTypeOK
<1>5. CallsInv'
  BY <1>2 DEF CallsInv
<1>6. CASE UNCHANGED nvFile
  <2>1. AckedInv'
    <3>1. UNCHANGED <<nvFile, nvAcked>>
      BY <1>2, <1>6
    <3>2. \A t \in NvTasks : nvCall'[t].op # "set"
      BY <1>2, <1>3
    <3> QED
      BY <1>1, <3>1, <3>2, AckedKept
  <2> QED
    BY <1>1, <1>4, <1>5, <1>6, <2>1 DEF NvInv, NvTypeOK
<1>7. ASSUME NEW t \in NvTasks, nvPc[t] = "io", nvCall[t].op = "set",
             NEW n \in 0..Len(nvCall[t].str), nvFile' = NvWritten(nvFile, nvCall[t], n)
      PROVE  NvInv'
  <2>1. nvCall[t] \in NvCalls /\ nvFile \in Seq(Nat)
    BY <1>1, <1>7 DEF NvTypeOK, CallsInv
  <2>2. nvCall[t].str \in Seq(Nat) /\ nvCall[t].off \in Nat
    BY <1>1, <1>7, <2>1, Strings DEF CallsInv
  <2>3. nvFile' \in Seq(Nat)
    BY <1>7, <2>1, <2>2, WrittenType
  <2>4. AckedInv'
    BY <1>1, <1>2, <1>7 DEF AckedInv
  <2> QED
    BY <1>4, <1>5, <2>3, <2>4 DEF NvInv
<1> QED
  BY <1>6, <1>7 DEF NvReset

\* The invariant is inductive.
LEMMA NvInvStep ==
  ASSUME NvInv, [NvNext]_nvVars
  PROVE  NvInv'
<1>1. CASE UNCHANGED nvVars
  <2>1. NvTypeOK /\ CallsInv /\ AckedInv
    BY DEF NvInv
  <2>2. NvTypeOK'
    BY <1>1, <2>1 DEF NvTypeOK, nvVars, nvTasks
  <2>3. CallsInv'
    BY <1>1, <2>1 DEF CallsInv, nvVars, nvTasks
  <2>4. AckedInv'
    BY <1>1, <2>1 DEF AckedInv, nvVars, nvTasks
  <2> QED
    BY <2>2, <2>3, <2>4 DEF NvInv
<1>2. ASSUME NEW t \in NvTasks, NvDelayed(t)
      PROVE  NvInv'
  <2>1. /\ NvGoto(t, "open") /\ nvPc[t] = "delay"
        /\ UNCHANGED <<nvFile, nvMounted, nvTries, nvGot, nvAcked, nvSets, nvFaults>>
    BY <1>2 DEF NvDelayed
  <2>2. /\ nvTries' \in [NvTasks -> 0..NUMBER_OF_ATTEMPTS]
        /\ nvTries'[t] < NUMBER_OF_ATTEMPTS /\ nvTries' = nvTries
        /\ nvGot' \in [strLen : Nat, str : Seq(Nat)] /\ nvFaults' \in Nat
    BY <2>1 DEF NvInv, NvTypeOK, CallsInv
  <2> QED
    BY <2>1, <2>2, QuietStep
<1>3. ASSUME NEW t \in NvTasks, NvIoError(t)
      PROVE  NvInv'
  <2>1. /\ NvGoto(t, "idle") /\ nvPc[t] = "io" /\ nvFaults > 0 /\ nvFaults' = nvFaults - 1
        /\ UNCHANGED <<nvFile, nvMounted, nvTries, nvGot, nvAcked, nvSets>>
    BY <1>3 DEF NvIoError, NvFault
  <2>2. /\ nvTries' \in [NvTasks -> 0..NUMBER_OF_ATTEMPTS] /\ nvTries' = nvTries
        /\ nvGot' \in [strLen : Nat, str : Seq(Nat)] /\ nvFaults' \in Nat
    BY <2>1 DEF NvInv, NvTypeOK
  <2> QED
    BY <2>1, <2>2, QuietStep
<1>4. ASSUME NvMount
      PROVE  NvInv'
  <2>1. nvMounted' = TRUE /\ UNCHANGED <<nvFile, nvTasks, nvGot, nvAcked, nvSets, nvFaults>>
    BY <1>4 DEF NvMount
  <2>2. NvTypeOK'
    BY <2>1 DEF NvInv, NvTypeOK, nvTasks
  <2>3. CallsInv'
    BY <2>1 DEF NvInv, CallsInv, nvTasks
  <2>4. AckedInv'
    BY <2>1 DEF NvInv, AckedInv, nvTasks
  <2> QED
    BY <2>2, <2>3, <2>4 DEF NvInv
<1> QED
  BY <1>1, <1>2, <1>3, <1>4, BeginStep, OpenGetStep, OpenSetStep, ReadStep, WriteStep, ResetStep
     DEF NvNext

\* Every variable of the non-volatile RAM stays in its type.
THEOREM NvTyped == NvSpec => []NvTypeOK
<1>1. NvInv => NvTypeOK
  BY DEF NvInv
<1> QED
  BY <1>1, NvInvInit, NvInvStep, PTL DEF NvSpec

\* What a sysNvRamSet that answered OK has written is in the file until the next
\* one begins, across resets, failing calls and any number of readers.
THEOREM NvAcknowledgedKept == NvSpec => []NvAcknowledged
<1>1. NvInv => NvAcknowledged
  <2> SUFFICES ASSUME NvInv, nvAcked # NoNvCall
               PROVE  nvFile # NoFile /\ NvBytes(nvAcked.off, Len(nvAcked.str)) = nvAcked.str
    BY DEF NvAcknowledged
  <2>1. nvAcked \in NvCalls /\ nvFile # NoFile /\ nvFile \in Seq(Nat)
    BY DEF NvInv, NvTypeOK, AckedInv
  <2>2. nvAcked.str \in Seq(Nat) /\ nvAcked.off \in Nat
    BY <2>1, Strings DEF NvInv, AckedInv
  <2>3. \A k \in 1..Len(nvAcked.str) :
          nvAcked.off + k \in 1..Len(nvFile) /\ nvFile[nvAcked.off + k] = nvAcked.str[k]
    BY DEF NvInv, AckedInv
  <2> QED
    BY <2>1, <2>2, <2>3, BytesOf
<1> QED
  BY <1>1, NvInvInit, NvInvStep, PTL DEF NvSpec

-----------------------------------------------------------------------------
(* IntLines: the state of the users and of the lines.                      *)

Entry(u) == <<UsbFunc[u], u>>
Settled == {"idle", "on"}
Counted(i) == {u \in UsbUsers : usbLine[u] = i /\ usbPc[u] = "on"}

UsbType ==
  /\ usbPc \in [UsbUsers -> {"idle", "enable", "count", "on", "disable", "undo"}]
  /\ usbLine \in [UsbUsers -> UsbLines \cup {NoLine}]
  /\ usbUsage \in [UsbLines -> Nat]
  /\ irqChain \in [UsbLines -> Seq(STRING \X UsbUsers)]
  /\ irqPos \in Nat \ {0} /\ irqDevs \in IrqMachines

\* One call is under way at a time, after the setup, and it has a line.
CallInv ==
  /\ \A u, v \in UsbUsers : usbPc[u] \notin Settled /\ usbPc[v] \notin Settled => u = v
  /\ \A u \in UsbUsers : /\ usbPc[u] = "idle" <=> usbLine[u] = NoLine
                         /\ usbPc[u] # "idle" => irqPos > Len(irqDevs)

\* The chain of a line has each of its users once, and nothing else.
ChainInv ==
  \A i \in UsbLines :
    /\ \A k \in DOMAIN irqChain[i] :
         \E u \in UsbUsers : usbLine[u] = i /\ irqChain[i][k] = Entry(u)
    /\ \A j, k \in DOMAIN irqChain[i] : irqChain[i][j] = irqChain[i][k] => j = k
    /\ \A u \in UsbUsers :
         usbLine[u] = i => \E k \in DOMAIN irqChain[i] : irqChain[i][k] = Entry(u)

UsageInv == \A i \in UsbLines : usbUsage[i] = Cardinality(Counted(i))

\* A line is on for its users, and while it is being taken off it has one.
MaskInv ==
  /\ irqPtr.enable = irqPtr.disable
  /\ irqPtr.enable = 0 \/ irqPtr.enable \in DOMAIN irqDevs
  /\ irqMask # {} => irqPos > Len(irqDevs)
  /\ irqMask \subseteq Reached(irqPtr.enable)
  /\ \A u \in UsbUsers : usbPc[u] \in {"count", "on"} => usbLine[u] \in irqMask
  /\ \A i \in irqMask :
       \E u \in UsbUsers : usbLine[u] = i /\ usbPc[u] \in {"count", "on", "disable"}
  /\ \A u, v \in UsbUsers : usbPc[u] = "disable" /\ usbLine[v] = usbLine[u] => u = v

UsbInv == UsbType /\ CallInv /\ ChainInv /\ UsageInv /\ MaskInv

-----------------------------------------------------------------------------
(* The chain of a line.                                                    *)

\* A sequence without its i-th element.
LEMMA RemoveAtProperties ==
  ASSUME NEW S, NEW s \in Seq(S), NEW i \in 1..Len(s)
  PROVE  /\ RemoveAt(s, i) \in Seq(S) /\ Len(RemoveAt(s, i)) = Len(s) - 1
         /\ \A j \in 1..(Len(s) - 1) :
              RemoveAt(s, i)[j] = IF j < i THEN s[j] ELSE s[j + 1]
<1> DEFINE a == SubSeq(s, 1, i - 1)
           b == SubSeq(s, i + 1, Len(s))
<1>1. Len(s) \in Nat /\ \A k \in 1..Len(s) : s[k] \in S
  BY LenProperties, ElementOfSeq
<1>2. /\ a \in Seq(S) /\ Len(a) = i - 1
      /\ \A k \in 1..(i - 1) : a[k] = s[k]
  <2>1. /\ a \in Seq(S) /\ Len(a) = IF 1 <= i - 1 THEN i - 1 - 1 + 1 ELSE 0
        /\ \A k \in 1..(i - 1 - 1 + 1) : a[k] = s[1 + k - 1]
    BY <1>1, SubSeqProperties
  <2> HIDE DEF a
  <2> QED
    BY <1>1, <2>1
<1>3. /\ b \in Seq(S) /\ Len(b) = Len(s) - i
      /\ \A k \in 1..(Len(s) - i) : b[k] = s[k + i]
  <2>1. /\ b \in Seq(S) /\ Len(b) = IF i + 1 <= Len(s) THEN Len(s) - (i + 1) + 1 ELSE 0
        /\ \A k \in 1..(Len(s) - (i + 1) + 1) : b[k] = s[i + 1 + k - 1]
    BY <1>1, SubSeqProperties
  <2> HIDE DEF b
  <2> QED
    BY <1>1, <2>1
<1>4. RemoveAt(s, i) = a \o b
  BY DEF RemoveAt
<1> HIDE DEF a, b
<1>5. /\ a \o b \in Seq(S) /\ Len(a \o b) = Len(a) + Len(b)
      /\ \A k \in 1..(Len(a) + Len(b)) :
           (a \o b)[k] = IF k <= Len(a) THEN a[k] ELSE b[k - Len(a)]
  BY <1>2, <1>3, ConcatProperties
<1> QED
  BY <1>1, <1>2, <1>3, <1>4, <1>5
-----------------------------------------------------------------------------
(* The initial state and the setup.                                        *)

\* Nobody has a line.
LEMMA UsbInvInit == IrqInit => UsbInv
<1> SUFFICES ASSUME IrqInit PROVE UsbInv
  OBVIOUS
<1> USE DEF IrqInit
<1>0. \A u \in UsbUsers : usbPc[u] = "idle" /\ usbLine[u] = NoLine
  OBVIOUS
<1>1. NoLine \notin UsbLines
  BY IrqAssumption DEF NoLine
<1>2. UsbType
  BY EmptySeq DEF UsbType
<1>3. CallInv
  BY <1>0 DEF CallInv, Settled
<1>4. ChainInv
  BY <1>0, <1>1 DEF ChainInv
<1>5. UsageInv
  <2>1. \A i \in UsbLines : Counted(i) = {}
    BY <1>0, <1>1 DEF Counted
  <2> QED
    BY <2>1, FS_EmptySet DEF UsageInv
<1>6. MaskInv
  BY <1>0 DEF MaskInv
<1> QED
  BY <1>2, <1>3, <1>4, <1>5, <1>6 DEF UsbInv

\* The part of the state that belongs to the users.
usbVars == <<irqMask, irqChain, usbUsage, usbPc, usbLine>>

\* While the pointers are being collected nobody uses a line.
LEMMA SetupStep ==
  ASSUME UsbInv, ApicIntrIntHelper
  PROVE  UsbInv'
<1>0. /\ irqPos <= Len(irqDevs) /\ irqPos' = irqPos + 1
      /\ UNCHANGED <<irqDevs, irqMask, irqChain, usbUsage, usbPc, usbLine>>
      /\ irqPtr'.enable = irqPtr'.disable /\ irqPtr'.enable \in {0, irqPos}
  BY DEF ApicIntrIntHelper, ResetPtr
<1>1. irqPos \in Nat \ {0} /\ Len(irqDevs) \in Nat /\ DOMAIN irqDevs = 1..Len(irqDevs)
  BY IrqAssumption, LenProperties DEF UsbInv, UsbType
<1>2. ~(irqPos > Len(irqDevs))
  BY <1>0, <1>1
<1>3. (\A u \in UsbUsers : usbPc[u] = "idle") /\ irqMask = {}
  BY <1>2 DEF UsbInv, CallInv, MaskInv
<1>4. UsbType' /\ ChainInv' /\ UsageInv'
  <2>1. UsbType'
    BY <1>0, <1>1 DEF UsbInv, UsbType
  <2>2. ChainInv' /\ UsageInv'
    BY <1>0 DEF UsbInv, ChainInv, UsageInv, Counted
  <2> QED
    BY <2>1, <2>2
<1>5. CallInv'
  BY <1>0, <1>3 DEF UsbInv, CallInv, Settled
<1>6. MaskInv'
  <2>1. irqPtr'.enable = 0 \/ irqPtr'.enable \in DOMAIN irqDevs'
    BY <1>0, <1>1
  <2> QED
    BY <1>0, <1>3, <2>1 DEF MaskInv
<1> QED
  BY <1>4, <1>5, <1>6 DEF UsbInv

-----------------------------------------------------------------------------
(* The users' steps.                                                       *)

\* No interrupt is connected while another call is under way.
LEMMA OneCall ==
  ASSUME UsbDiscipline, UsbInv, NEW u \in UsbUsers, MayStart(u)
  PROVE  irqPos > Len(irqDevs) /\ \A v \in UsbUsers : usbPc[v] \in Settled
BY DEF MayStart, UsbDiscipline, Settled

\* usbPciIntConnect puts the user's handler on the chain of its line.
LEMMA ConnectStep ==
  ASSUME UsbDiscipline, UsbInv, NEW u \in UsbUsers, NEW i \in UsbLines, UsbIntConnect(u, i)
  PROVE  UsbInv'
<1>0. /\ usbPc[u] = "idle" /\ usbLine[u] = NoLine
      /\ irqPos > Len(irqDevs) /\ \A v \in UsbUsers : usbPc[v] \in Settled
  BY OneCall DEF UsbIntConnect, UsbInv, CallInv
<1>1. /\ irqChain' = [irqChain EXCEPT ![i] = Append(@, Entry(u))]
      /\ usbLine' = [usbLine EXCEPT ![u] = i] /\ usbPc' = [usbPc EXCEPT ![u] = "enable"]
      /\ UNCHANGED <<irqPos, irqDevs, irqPtr, irqMask, usbUsage>>
  BY DEF UsbIntConnect, UsbGoto, irqSetup, Entry
<1>2. UsbType /\ NoLine \notin UsbLines /\ Entry(u) \in STRING \X UsbUsers
  BY IrqAssumption DEF UsbInv, NoLine, Entry
<1>3. /\ \A v \in UsbUsers : usbLine'[v] = IF v = u THEN i ELSE usbLine[v]
      /\ \A v \in UsbUsers : usbPc'[v] = IF v = u THEN "enable" ELSE usbPc[v]
      /\ \A j \in UsbLines : irqChain'[j] = IF j = i THEN Append(irqChain[i], Entry(u))
                                                     ELSE irqChain[j]
  BY <1>1, <1>2 DEF UsbType
<1> DEFINE s == irqChain[i]
           t == Append(s, Entry(u))
<1>4. /\ s \in Seq(STRING \X UsbUsers) /\ Len(s) \in Nat /\ DOMAIN s = 1..Len(s)
  BY <1>2, LenProperties DEF UsbType
<1>5. /\ t \in Seq(STRING \X UsbUsers) /\ Len(t) = Len(s) + 1
      /\ \A k \in 1..Len(s) : t[k] = s[k]
      /\ t[Len(s) + 1] = Entry(u)
  BY <1>2, <1>4, AppendProperties
<1>6. DOMAIN t = 1..(Len(s) + 1)
  BY <1>4, <1>5, LenProperties
<1>7. UsbType'
  <2>1. irqChain' \in [UsbLines -> Seq(STRING \X UsbUsers)]
    BY <1>1, <1>2, <1>5 DEF UsbType
  <2> QED
    BY <1>1, <1>2, <2>1 DEF UsbType
<1> HIDE DEF s, t
<1>8. CallInv'
  BY <1>0, <1>1, <1>2, <1>3 DEF UsbInv, CallInv, Settled, UsbType
<1>9. ChainInv'
  <2>1. ASSUME NEW k \in DOMAIN s PROVE s[k] # Entry(u)
    <3>1. PICK v \in UsbUsers : usbLine[v] = i /\ s[k] = Entry(v)
      BY DEF UsbInv, ChainInv, s
    <3> QED
      BY <1>0, <1>2, <3>1 DEF Entry
  <2>2. \A k \in DOMAIN t : \E v \in UsbUsers : usbLine'[v] = i /\ t[k] = Entry(v)
    <3> SUFFICES ASSUME NEW k \in DOMAIN t
                 PROVE  \E v \in UsbUsers : usbLine'[v] = i /\ t[k] = Entry(v)
      OBVIOUS
    <3>1. CASE k = Len(s) + 1
      BY <1>3, <1>5, <3>1
    <3>2. CASE k # Len(s) + 1
      <4>1. k \in DOMAIN s /\ t[k] = s[k]
        BY <1>4, <1>5, <1>6, <3>2
      <4>2. PICK v \in UsbUsers : usbLine[v] = i /\ s[k] = Entry(v)
        BY <4>1 DEF UsbInv, ChainInv, s
      <4> QED
        BY <1>0, <1>2, <1>3, <4>1, <4>2
    <3> QED
      BY <3>1, <3>2
  <2>3. \A j, k \in DOMAIN t : t[j] = t[k] => j = k
    <3>1. \A j, k \in DOMAIN s : s[j] = s[k] => j = k
      BY DEF UsbInv, ChainInv, s
    <3> QED
      BY <1>4, <1>5, <1>6, <2>1, <3>1
  <2>4. \A v \in UsbUsers : usbLine'[v] = i => \E k \in DOMAIN t : t[k] = Entry(v)
    <3> SUFFICES ASSUME NEW v \in UsbUsers, usbLine'[v] = i
                 PROVE  \E k \in DOMAIN t : t[k] = Entry(v)
      OBVIOUS
    <3>1. CASE v = u
      BY <1>4, <1>5, <1>6, <3>1
    <3>2. CASE v # u
      <4>1. PICK k \in DOMAIN s : s[k] = Entry(v)
        BY <1>3, <3>2 DEF UsbInv, ChainInv, s
      <4> QED
        BY <1>4, <1>5, <1>6, <4>1
    <3> QED
      BY <3>1, <3>2
  <2>5. irqChain'[i] = t
    BY <1>3 DEF s, t
  <2>6. ASSUME NEW j \in UsbLines, j # i
        PROVE  /\ irqChain'[j] = irqChain[j]
               /\ \A v \in UsbUsers : usbLine'[v] = j <=> usbLine[v] = j
    BY <1>0, <1>2, <1>3, <2>6
  <2> QED
    BY <2>2, <2>3, <2>4, <2>5, <2>6 DEF UsbInv, ChainInv
<1>10. UsageInv'
  <2>1. \A j \in UsbLines : Counted(j)' = Counted(j)
    BY <1>0, <1>3 DEF Counted
  <2> QED
    BY <1>1, <2>1 DEF UsbInv, UsageInv
<1>11. MaskInv'
  BY <1>0, <1>1, <1>2, <1>3 DEF UsbInv, MaskInv, Reached, Settled
<1> QED
  BY <1>7, <1>8, <1>9, <1>10, <1>11 DEF UsbInv

\* intEnable turns the line on, if an IO APIC has it.
LEMMA EnableStep ==
  ASSUME UsbInv, NEW u \in UsbUsers, UsbIntEnable(u)
  PROVE  UsbInv'
<1> DEFINE i == usbLine[u]
           l == IF i \in Reached(irqPtr.enable) THEN "count" ELSE "undo"
<1>0. /\ usbPc[u] = "enable" /\ usbPc' = [usbPc EXCEPT ![u] = l]
      /\ irqMask' = irqMask \cup ({i} \cap Reached(irqPtr.enable))
      /\ UNCHANGED <<irqPos, irqDevs, irqPtr, irqChain, usbUsage, usbLine>>
  BY DEF UsbIntEnable, IntEnablePIC, UsbGoto, irqSetup
<1>1. UsbType /\ CallInv /\ MaskInv
  BY DEF UsbInv
<1>2. i \in UsbLines /\ irqPos > Len(irqDevs) /\ i # NoLine
  BY <1>0, <1>1 DEF UsbType, CallInv
<1>3. \A v \in UsbUsers : usbPc'[v] = IF v = u THEN l ELSE usbPc[v]
  BY <1>0, <1>1 DEF UsbType
<1>4. UsbType'
  BY <1>0, <1>1 DEF UsbType
<1>5. CallInv'
  BY <1>0, <1>1, <1>3 DEF CallInv, Settled
<1>6. ChainInv'
  BY <1>0 DEF UsbInv, ChainInv
<1>7. UsageInv'
  <2>1. \A j \in UsbLines : Counted(j)' = Counted(j)
    BY <1>0, <1>3 DEF Counted
  <2> QED
    BY <1>0, <2>1 DEF UsbInv, UsageInv
<1>8. MaskInv'
  <2>1. Reached(irqPtr.enable)' = Reached(irqPtr.enable)
    BY <1>0 DEF Reached
  <2>2. /\ irqPtr'.enable = irqPtr'.disable
        /\ irqPtr'.enable = 0 \/ irqPtr'.enable \in DOMAIN irqDevs'
        /\ irqMask' \subseteq Reached(irqPtr.enable)'
        /\ irqPos' > Len(irqDevs')
    BY <1>0, <1>1, <1>2, <2>1 DEF MaskInv
  <2>3. \A v \in UsbUsers : usbPc'[v] \in {"count", "on"} => usbLine'[v] \in irqMask'
    BY <1>0, <1>1, <1>3 DEF MaskInv
  <2>4. ASSUME NEW j \in irqMask'
        PROVE  \E v \in UsbUsers : usbLine'[v] = j /\ usbPc'[v] \in {"count", "on", "disable"}
    <3>1. CASE j \in irqMask
      <4>1. PICK v \in UsbUsers : usbLine[v] = j /\ usbPc[v] \in {"count", "on", "disable"}
        BY <1>1, <3>1 DEF MaskInv
      <4>2. v # u
        BY <1>0, <4>1
      <4> QED
        BY <1>0, <1>3, <4>1, <4>2
    <3>2. CASE j \notin irqMask
      <4>1. j = i /\ i \in Reached(irqPtr.enable)
        BY <1>0, <3>2
      <4> QED
        BY <1>0, <1>3, <4>1
    <3> QED
      BY <3>1, <3>2
  <2>5. \A v, w \in UsbUsers : usbPc'[v] = "disable" /\ usbLine'[w] = usbLine'[v] => v = w
    BY <1>0, <1>1, <1>3 DEF MaskInv
  <2> QED
    BY <2>2, <2>3, <2>4, <2>5 DEF MaskInv
<1> QED
  BY <1>4, <1>5, <1>6, <1>7, <1>8 DEF UsbInv

\* A line that is on is one that usbPciStub.c counts.
LEMMA OnIsCounted ==
  ASSUME UsbDiscipline, UsbInv, NEW i \in irqMask
  PROVE  i < MAX_INT_NO
<1>1. i \in Reached(irqPtr.enable)
  BY DEF UsbInv, MaskInv
<1>2. PICK k \in DOMAIN irqDevs : i \in irqDevs[k].io
  <2>1. irqPtr.enable = 0 \/ irqPtr.enable \in DOMAIN irqDevs
    BY DEF UsbInv, MaskInv
  <2> QED
    BY <1>1, <2>1 DEF Reached
<1> QED
  BY <1>2 DEF UsbInv, UsbType, UsbDiscipline

\* The users that are counted of a line are a finite set, no larger than all users.
LEMMA CountedFinite ==
  ASSUME UsbDiscipline, NEW i
  PROVE  /\ IsFiniteSet(Counted(i)) /\ Cardinality(Counted(i)) \in Nat
         /\ Cardinality(Counted(i)) < 65536
         /\ \A u \in UsbUsers : u \notin Counted(i) => Cardinality(Counted(i)) + 1 < 65536
<1>1. Counted(i) \in SUBSET UsbUsers
  BY DEF Counted
<1>2. /\ IsFiniteSet(UsbUsers) /\ Cardinality(UsbUsers) < 65536
      /\ Cardinality(UsbUsers) \in Nat
  BY FS_CardinalityType DEF UsbDiscipline
<1>3. /\ IsFiniteSet(Counted(i)) /\ Cardinality(Counted(i)) <= Cardinality(UsbUsers)
      /\ Cardinality(Counted(i)) \in Nat
  BY <1>1, <1>2, FS_Subset, FS_CardinalityType
<1>4. ASSUME NEW u \in UsbUsers, u \notin Counted(i)
      PROVE  Cardinality(Counted(i)) + 1 < 65536
  <2> DEFINE more == Counted(i) \cup {u}
  <2>1. more \in SUBSET UsbUsers
    BY <1>1
  <2>2. Cardinality(more) = Cardinality(Counted(i)) + 1
    BY <1>3, <1>4, FS_AddElement
  <2> HIDE DEF more
  <2>3. Cardinality(more) <= Cardinality(UsbUsers)
    BY <1>2, <2>1, FS_Subset
  <2> QED
    BY <1>2, <1>3, <2>2, <2>3
<1> QED
  BY <1>2, <1>3, <1>4

\* The user is counted.
LEMMA CountStep ==
  ASSUME UsbDiscipline, UsbInv, NEW u \in UsbUsers, UsbCount(u)
  PROVE  UsbInv'
<1> DEFINE i == usbLine[u]
<1>1. UsbType /\ CallInv /\ MaskInv /\ UsageInv
  BY DEF UsbInv
<1>2. i \in UsbLines /\ i < MAX_INT_NO /\ usbPc[u] = "count"
  <2>1. usbPc[u] = "count" /\ i \in irqMask
    BY <1>1 DEF UsbCount, MaskInv
  <2>2. i \in UsbLines
    BY <1>1, <2>1 DEF UsbType, CallInv
  <2> QED
    BY <2>1, <2>2, OnIsCounted
<1>0. /\ usbPc' = [usbPc EXCEPT ![u] = "on"]
      /\ usbUsage' = [usbUsage EXCEPT ![i] = (@ + 1) % 65536]
      /\ UNCHANGED <<irqPos, irqDevs, irqPtr, irqMask, irqChain, usbLine>>
  BY <1>2 DEF UsbCount, UsbGoto, irqSetup
<1>3. \A v \in UsbUsers : usbPc'[v] = IF v = u THEN "on" ELSE usbPc[v]
  BY <1>0, <1>1 DEF UsbType
<1>4. usbUsage[i] = Cardinality(Counted(i)) /\ u \notin Counted(i)
  BY <1>1, <1>2 DEF UsageInv, Counted
<1>5. usbUsage[i] \in Nat /\ usbUsage[i] + 1 < 65536
  BY <1>4, CountedFinite
<1>6. (usbUsage[i] + 1) % 65536 = usbUsage[i] + 1
  BY <1>5
<1>7. \A j \in UsbLines : usbUsage'[j] = IF j = i THEN usbUsage[i] + 1 ELSE usbUsage[j]
  BY <1>0, <1>1, <1>2, <1>6 DEF UsbType
<1>8. UsbType'
  <2>1. usbUsage' \in [UsbLines -> Nat]
    BY <1>0, <1>1, <1>2, <1>5, <1>6 DEF UsbType
  <2> QED
    BY <1>0, <1>1, <2>1 DEF UsbType
<1> HIDE DEF i
<1>9. CallInv'
  BY <1>0, <1>1, <1>2, <1>3 DEF CallInv, Settled
<1>10. ChainInv'
  BY <1>0 DEF UsbInv, ChainInv
<1>11. UsageInv'
  <2> SUFFICES ASSUME NEW j \in UsbLines PROVE usbUsage'[j] = Cardinality(Counted(j)')
    BY DEF UsageInv
  <2>1. CASE j = i
    <3>1. Counted(j)' = Counted(j) \cup {u}
      BY <1>0, <1>3, <2>1 DEF Counted, i
    <3>2. Cardinality(Counted(j)') = Cardinality(Counted(j)) + 1
      BY <1>4, <2>1, <3>1, CountedFinite, FS_AddElement
    <3> QED
      BY <1>4, <1>7, <2>1, <3>2
  <2>2. CASE j # i
    <3>1. Counted(j)' = Counted(j)
      BY <1>0, <1>3, <2>2 DEF Counted, i
    <3> QED
      BY <1>1, <1>7, <2>2, <3>1 DEF UsageInv
  <2> QED
    BY <2>1, <2>2
<1>12. MaskInv'
  <2>1. Reached(irqPtr.enable)' = Reached(irqPtr.enable)
    BY <1>0 DEF Reached
  <2>2. \A j \in irqMask : \A v \in UsbUsers :
          usbLine[v] = j /\ usbPc[v] \in {"count", "on", "disable"}
            => usbLine'[v] = j /\ usbPc'[v] \in {"count", "on", "disable"}
    BY <1>0, <1>3
  <2> QED
    BY <1>0, <1>1, <1>2, <1>3, <2>1, <2>2 DEF MaskInv
<1> QED
  BY <1>8, <1>9, <1>10, <1>11, <1>12 DEF UsbInv

\* usbPciIntRestore counts the user down; the line is turned off only if no other
\* user of it is counted, which with one call at a time are all users it has.
LEMMA RestoreStep ==
  ASSUME UsbDiscipline, UsbInv, NEW u \in UsbUsers, UsbIntRestore(u)
  PROVE  UsbInv'
<1> DEFINE i == usbLine[u]
           l == IF LastUser(i) THEN "disable" ELSE "undo"
<1>1. UsbType /\ CallInv /\ MaskInv /\ UsageInv
  BY DEF UsbInv
<1>2. usbPc[u] = "on" /\ irqPos > Len(irqDevs) /\ \A v \in UsbUsers : usbPc[v] \in Settled
  BY OneCall DEF UsbIntRestore
<1>3. i \in UsbLines /\ i < MAX_INT_NO
  <2>1. i \in UsbLines
    BY <1>1, <1>2 DEF UsbType, CallInv
  <2>2. i \in irqMask
    BY <1>1, <1>2 DEF MaskInv
  <2> QED
    BY <2>1, <2>2, OnIsCounted
<1>0. /\ usbPc' = [usbPc EXCEPT ![u] = l]
      /\ usbUsage' = [usbUsage EXCEPT ![i] = IF @ = 0 THEN 0 ELSE @ - 1]
      /\ UNCHANGED <<irqPos, irqDevs, irqPtr, irqMask, irqChain, usbLine>>
  BY DEF UsbIntRestore, UsbGoto, irqSetup
<1>4. \A v \in UsbUsers : usbPc'[v] = IF v = u THEN l ELSE usbPc[v]
  BY <1>0, <1>1 DEF UsbType
<1>5. usbUsage[i] = Cardinality(Counted(i)) /\ u \in Counted(i)
  BY <1>1, <1>2, <1>3 DEF UsageInv, Counted
<1>6. IsFiniteSet(Counted(i)) /\ usbUsage[i] \in Nat /\ usbUsage[i] # 0
  BY <1>5, CountedFinite, FS_EmptySet
<1>7. \A j \in UsbLines : usbUsage'[j] = IF j = i THEN usbUsage[i] - 1 ELSE usbUsage[j]
  BY <1>0, <1>1, <1>3, <1>6 DEF UsbType
<1>8. UsbType'
  <2>1. usbUsage' \in [UsbLines -> Nat]
    BY <1>0, <1>1, <1>3, <1>6 DEF UsbType
  <2> QED
    BY <1>0, <1>1, <2>1 DEF UsbType
<1>13. /\ l = "disable" => Counted(i) = {u}
       /\ l = "undo" => \E v \in UsbUsers : v # u /\ v \in Counted(i)
       /\ l \in {"disable", "undo"}
  <2>1. LastUser(i) <=> Cardinality(Counted(i)) = 1
    <3>0. i \in Nat
      BY <1>3, IrqAssumption
    <3>1. ~(i >= MAX_INT_NO)
      <4> HIDE DEF i
      <4> QED
        BY <1>3, <3>0 DEF MAX_INT_NO
    <3> QED
      BY <1>5, <3>1 DEF LastUser
  <2>2. Cardinality(Counted(i)) = 1 <=> \E x : Counted(i) = {x}
    BY <1>6, FS_Singleton
  <2>3. LastUser(i) => Counted(i) = {u}
    BY <1>5, <2>1, <2>2
  <2>4. ~LastUser(i) => \E v \in UsbUsers : v # u /\ v \in Counted(i)
    <3>1. ~LastUser(i) => Counted(i) # {u}
      BY <2>1, <2>2
    <3> QED
      BY <1>5, <3>1 DEF Counted
  <2> QED
    BY <2>3, <2>4
<1> HIDE DEF i, l
<1>9. CallInv'
  BY <1>0, <1>1, <1>2, <1>4, <1>13 DEF CallInv, Settled
<1>10. ChainInv'
  BY <1>0 DEF UsbInv, ChainInv
<1>11. UsageInv'
  <2> SUFFICES ASSUME NEW j \in UsbLines PROVE usbUsage'[j] = Cardinality(Counted(j)')
    BY DEF UsageInv
  <2>1. CASE j = i
    <3>1. Counted(j)' = Counted(j) \ {u}
      BY <1>0, <1>4, <1>13, <2>1 DEF Counted, i
    <3>2. Cardinality(Counted(j)') = Cardinality(Counted(j)) - 1
      BY <1>5, <1>6, <2>1, <3>1, FS_RemoveElement
    <3> QED
      BY <1>5, <1>7, <2>1, <3>2
  <2>2. CASE j # i
    <3>1. Counted(j)' = Counted(j)
      BY <1>0, <1>4, <2>2 DEF Counted, i
    <3> QED
      BY <1>1, <1>7, <2>2, <3>1 DEF UsageInv
  <2> QED
    BY <2>1, <2>2
<1>12. MaskInv'
  <2>1. Reached(irqPtr.enable)' = Reached(irqPtr.enable)
    BY <1>0 DEF Reached
  <2>2. /\ irqPtr'.enable = irqPtr'.disable
        /\ irqPtr'.enable = 0 \/ irqPtr'.enable \in DOMAIN irqDevs'
        /\ irqMask' \subseteq Reached(irqPtr.enable)'
        /\ irqPos' > Len(irqDevs')
        /\ \A v \in UsbUsers : usbPc'[v] \in {"count", "on"} => usbLine'[v] \in irqMask'
    BY <1>0, <1>1, <1>2, <1>4, <1>13, <2>1 DEF MaskInv
  <2>3. ASSUME NEW j \in irqMask'
        PROVE  \E v \in UsbUsers : usbLine'[v] = j /\ usbPc'[v] \in {"count", "on", "disable"}
    <3>1. PICK v \in UsbUsers : usbLine[v] = j /\ usbPc[v] \in {"count", "on", "disable"}
      BY <1>0, <1>1, <2>3 DEF MaskInv
    <3>2. CASE v # u
      BY <1>0, <1>4, <3>1, <3>2
    <3>3. CASE v = u /\ l = "disable"
      BY <1>0, <1>4, <3>1, <3>3
    <3>4. CASE v = u /\ l = "undo"
      <4>1. PICK w \in UsbUsers : w # u /\ w \in Counted(i)
        BY <1>13, <3>4
      <4>2. usbLine[w] = j /\ usbPc[w] = "on"
        BY <3>1, <3>4, <4>1 DEF Counted, i
      <4> QED
        BY <1>0, <1>4, <4>1, <4>2
    <3> QED
      BY <1>13, <3>2, <3>3, <3>4
  <2>4. ASSUME NEW v \in UsbUsers, NEW w \in UsbUsers,
               usbPc'[v] = "disable", usbLine'[w] = usbLine'[v]
        PROVE  v = w
    <3>1. v = u /\ l = "disable"
      BY <1>2, <1>4, <2>4 DEF Settled
    <3>2. usbLine[w] = i /\ i # NoLine
      BY <1>0, <1>1, <1>2, <2>4, <3>1 DEF i, CallInv
    <3>3. usbPc[w] = "on"
      BY <1>1, <1>2, <3>2 DEF CallInv, Settled
    <3>4. w \in Counted(i)
      BY <3>2, <3>3 DEF Counted
    <3> QED
      BY <1>13, <3>1, <3>4
  <2> QED
    BY <2>2, <2>3, <2>4 DEF MaskInv
<1> QED
  BY <1>8, <1>9, <1>10, <1>11, <1>12 DEF UsbInv

\* intDisable turns the line off, when nobody else has it.
LEMMA DisableStep ==
  ASSUME UsbInv, NEW u \in UsbUsers, UsbIntDisable(u)
  PROVE  UsbInv'
<1> DEFINE i == usbLine[u]
<1>1. UsbType /\ CallInv /\ MaskInv
  BY DEF UsbInv
<1>0. /\ usbPc[u] = "disable" /\ usbPc' = [usbPc EXCEPT ![u] = "undo"]
      /\ irqMask' = irqMask \ ({i} \cap Reached(irqPtr.disable))
      /\ UNCHANGED <<irqPos, irqDevs, irqPtr, irqChain, usbUsage, usbLine>>
  BY DEF UsbIntDisable, IntDisablePIC, UsbGoto, irqSetup
<1>2. irqMask' = irqMask \ {i}
  <2>1. irqMask \subseteq Reached(irqPtr.disable)
    BY <1>1 DEF MaskInv
  <2> QED
    BY <1>0, <2>1
<1>3. \A v \in UsbUsers : usbPc'[v] = IF v = u THEN "undo" ELSE usbPc[v]
  BY <1>0, <1>1 DEF UsbType
<1>4. UsbType'
  BY <1>0, <1>1 DEF UsbType
<1>5. CallInv'
  BY <1>0, <1>1, <1>3 DEF CallInv, Settled
<1>6. ChainInv'
  BY <1>0 DEF UsbInv, ChainInv
<1>7. UsageInv'
  <2>1. \A j \in UsbLines : Counted(j)' = Counted(j)
    BY <1>0, <1>3 DEF Counted
  <2> QED
    BY <1>0, <2>1 DEF UsbInv, UsageInv
<1>8. MaskInv'
  <2>1. Reached(irqPtr.enable)' = Reached(irqPtr.enable)
    BY <1>0 DEF Reached
  <2>2. /\ irqPtr'.enable = irqPtr'.disable
        /\ irqPtr'.enable = 0 \/ irqPtr'.enable \in DOMAIN irqDevs'
        /\ irqMask' \subseteq Reached(irqPtr.enable)'
        /\ irqMask' # {} => irqPos' > Len(irqDevs')
    BY <1>0, <1>1, <1>2, <2>1 DEF MaskInv
  <2>3. ASSUME NEW v \in UsbUsers, usbPc'[v] \in {"count", "on"}
        PROVE  usbLine'[v] \in irqMask'
    <3>1. v # u /\ usbPc[v] \in {"count", "on"}
      BY <1>3, <2>3
    <3>2. usbLine[v] \in irqMask /\ usbLine[v] # i
      BY <1>0, <1>1, <3>1 DEF MaskInv
    <3> QED
      BY <1>0, <1>2, <3>2
  <2>4. ASSUME NEW j \in irqMask'
        PROVE  \E v \in UsbUsers : usbLine'[v] = j /\ usbPc'[v] \in {"count", "on", "disable"}
    <3>1. j \in irqMask /\ j # i
      BY <1>2
    <3>2. PICK v \in UsbUsers : usbLine[v] = j /\ usbPc[v] \in {"count", "on", "disable"}
      BY <1>1, <3>1 DEF MaskInv
    <3> QED
      BY <1>0, <1>3, <3>1, <3>2
  <2>5. \A v, w \in UsbUsers : usbPc'[v] = "disable" /\ usbLine'[w] = usbLine'[v] => v = w
    BY <1>0, <1>1, <1>3 DEF MaskInv
  <2> QED
    BY <2>2, <2>3, <2>4, <2>5 DEF MaskInv
<1> QED
  BY <1>4, <1>5, <1>6, <1>7, <1>8 DEF UsbInv

\* With handlers of their own, the first entry with the user's handler is the user's.
LEMMA FirstIsMine ==
  ASSUME UsbDiscipline, UsbType, ChainInv, NEW u \in UsbUsers, usbLine[u] \in UsbLines
  PROVE  LET s == irqChain[usbLine[u]]
             k == FirstWith(s, UsbFunc[u])
         IN  k \in DOMAIN s /\ s[k] = Entry(u)
<1> DEFINE i == usbLine[u]
           s == irqChain[i]
<1>1. PICK m \in DOMAIN s : s[m] = Entry(u)
  BY DEF ChainInv
<1>2. ASSUME NEW j \in DOMAIN s, s[j][1] = UsbFunc[u]
      PROVE  s[j] = Entry(u) /\ j = m
  <2>1. PICK v \in UsbUsers : s[j] = Entry(v)
    BY DEF ChainInv
  <2>2. v = u
    BY <1>2, <2>1 DEF UsbDiscipline, Entry
  <2>3. s[j] = s[m]
    BY <1>1, <2>1, <2>2
  <2> QED
    BY <1>1, <2>3 DEF ChainInv
<1>3. s[m][1] = UsbFunc[u]
  BY <1>1 DEF Entry
<1>4. DOMAIN s = 1..Len(s) /\ Len(s) \in Nat
  BY LenProperties DEF UsbType
<1> DEFINE Fits(k) == s[k][1] = UsbFunc[u] /\ \A j \in 1..(k - 1) : s[j][1] # UsbFunc[u]
<1>5. Fits(m)
  <2> SUFFICES ASSUME NEW j \in 1..(m - 1), s[j][1] = UsbFunc[u] PROVE FALSE
    BY <1>3
  <2>1. j \in DOMAIN s /\ j # m
    BY <1>4
  <2> QED
    BY <1>2, <2>1
<1>6. FirstWith(s, UsbFunc[u]) = CHOOSE k \in DOMAIN s : Fits(k)
  BY DEF FirstWith
<1>7. (CHOOSE k \in DOMAIN s : Fits(k)) \in DOMAIN s /\ Fits(CHOOSE k \in DOMAIN s : Fits(k))
  <2> HIDE DEF Fits, s
  <2> QED
    BY <1>5
<1> HIDE DEF s
<1> DEFINE k == CHOOSE k \in DOMAIN s : Fits(k)
<1>8. k \in DOMAIN s /\ s[k][1] = UsbFunc[u]
  BY <1>7
<1> HIDE DEF k
<1>9. s[k] = Entry(u)
  BY <1>2, <1>8
<1> QED
  BY <1>6, <1>8, <1>9 DEF k, s

\* INT_DISCONNECT takes the user's own entry off the chain.
LEMMA DisconnectStep ==
  ASSUME UsbDiscipline, UsbInv, NEW u \in UsbUsers, UsbDisconnect(u)
  PROVE  UsbInv'
<1> DEFINE i == usbLine[u]
           s == irqChain[i]
           m == FirstWith(s, UsbFunc[u])
           t == RemoveAt(s, m)
<1>1. UsbType /\ CallInv /\ MaskInv /\ ChainInv
  BY DEF UsbInv
<1>0. /\ usbPc[u] = "undo" /\ usbPc' = [usbPc EXCEPT ![u] = "idle"]
      /\ usbLine' = [usbLine EXCEPT ![u] = NoLine]
      /\ irqChain' = [irqChain EXCEPT ![i] = t]
      /\ UNCHANGED <<irqPos, irqDevs, irqPtr, irqMask, usbUsage>>
  BY DEF UsbDisconnect, UsbGoto, irqSetup
<1>2. i \in UsbLines /\ i # NoLine /\ NoLine \notin UsbLines
  BY <1>0, <1>1, IrqAssumption DEF UsbType, CallInv, NoLine
<1>3. /\ \A v \in UsbUsers : usbPc'[v] = IF v = u THEN "idle" ELSE usbPc[v]
      /\ \A v \in UsbUsers : usbLine'[v] = IF v = u THEN NoLine ELSE usbLine[v]
      /\ \A j \in UsbLines : irqChain'[j] = IF j = i THEN t ELSE irqChain[j]
  BY <1>0, <1>1 DEF UsbType
<1>4. m \in DOMAIN s /\ s[m] = Entry(u)
  BY <1>1, <1>2, FirstIsMine
<1>5. /\ s \in Seq(STRING \X UsbUsers) /\ Len(s) \in Nat /\ DOMAIN s = 1..Len(s)
  BY <1>1, <1>2, LenProperties DEF UsbType
<1> HIDE DEF s, m
<1>6. /\ t \in Seq(STRING \X UsbUsers) /\ Len(t) = Len(s) - 1
      /\ \A j \in 1..(Len(s) - 1) : t[j] = IF j < m THEN s[j] ELSE s[j + 1]
  BY <1>4, <1>5, RemoveAtProperties
<1>7. DOMAIN t = 1..(Len(s) - 1)
  BY <1>6, LenProperties
<1>8. UsbType'
  <2>1. irqChain' \in [UsbLines -> Seq(STRING \X UsbUsers)]
    BY <1>0, <1>1, <1>6 DEF UsbType
  <2> QED
    BY <1>0, <1>1, <2>1 DEF UsbType
<1> HIDE DEF t
<1>9. CallInv'
  BY <1>0, <1>1, <1>2, <1>3 DEF CallInv, Settled
<1>10. ChainInv'
  <2>0. /\ \A k \in DOMAIN s : \E v \in UsbUsers : usbLine[v] = i /\ s[k] = Entry(v)
        /\ \A j, k \in DOMAIN s : s[j] = s[k] => j = k
        /\ \A v \in UsbUsers : usbLine[v] = i => \E k \in DOMAIN s : s[k] = Entry(v)
    BY <1>1, <1>2 DEF ChainInv, s
  <2>1. ASSUME NEW k \in DOMAIN t
        PROVE  \E j \in DOMAIN s : j # m /\ t[k] = s[j] /\ j = (IF k < m THEN k ELSE k + 1)
    BY <1>4, <1>5, <1>6, <1>7
  <2>2. ASSUME NEW k \in DOMAIN t
        PROVE  \E v \in UsbUsers : usbLine'[v] = i /\ t[k] = Entry(v)
    <3>1. PICK j \in DOMAIN s : j # m /\ t[k] = s[j]
      BY <2>1
    <3>2. PICK v \in UsbUsers : usbLine[v] = i /\ s[j] = Entry(v)
      BY <2>0
    <3>3. v # u
      BY <1>4, <2>0, <3>1, <3>2
    <3> QED
      BY <1>3, <3>1, <3>2, <3>3
  <2>3. ASSUME NEW j \in DOMAIN t, NEW k \in DOMAIN t, t[j] = t[k]
        PROVE  j = k
    <3>1. /\ t[j] = s[IF j < m THEN j ELSE j + 1]
          /\ t[k] = s[IF k < m THEN k ELSE k + 1]
          /\ (IF j < m THEN j ELSE j + 1) \in DOMAIN s
          /\ (IF k < m THEN k ELSE k + 1) \in DOMAIN s
      BY <2>1
    <3>2. (IF j < m THEN j ELSE j + 1) = (IF k < m THEN k ELSE k + 1)
      BY <2>0, <2>3, <3>1
    <3>3. j \in Nat /\ k \in Nat /\ m \in Nat
      BY <1>4, <1>5, <1>7
    <3> QED
      BY <3>2, <3>3
  <2>4. ASSUME NEW v \in UsbUsers, usbLine'[v] = i
        PROVE  \E k \in DOMAIN t : t[k] = Entry(v)
    <3>1. v # u /\ usbLine[v] = i
      BY <1>2, <1>3, <2>4
    <3>2. PICK j \in DOMAIN s : s[j] = Entry(v)
      BY <2>0, <3>1
    <3>3. j # m
      BY <1>4, <3>1, <3>2 DEF Entry
    <3>4. CASE j < m
      <4>1. j \in DOMAIN t /\ t[j] = s[j]
        BY <1>4, <1>5, <1>6, <1>7, <3>4
      <4> QED
        BY <3>2, <4>1
    <3>5. CASE ~(j < m)
      <4>1. j - 1 \in DOMAIN t /\ t[j - 1] = s[j]
        BY <1>4, <1>5, <1>6, <1>7, <3>3, <3>5
      <4> QED
        BY <3>2, <4>1
    <3> QED
      BY <3>4, <3>5
  <2>5. irqChain'[i] = t
    BY <1>2, <1>3
  <2>6. ASSUME NEW j \in UsbLines, j # i
        PROVE  /\ irqChain'[j] = irqChain[j]
               /\ \A v \in UsbUsers : usbLine'[v] = j <=> usbLine[v] = j
    BY <1>2, <1>3, <2>6
  <2> HIDE DEF i
  <2> QED
    BY <1>1, <2>2, <2>3, <2>4, <2>5, <2>6 DEF ChainInv
<1>11. UsageInv'
  <2>1. \A j \in UsbLines : Counted(j)' = Counted(j)
    BY <1>0, <1>3 DEF Counted
  <2> QED
    BY <1>0, <2>1 DEF UsbInv, UsageInv
<1>12. MaskInv'
  <2>1. Reached(irqPtr.enable)' = Reached(irqPtr.enable)
    BY <1>0 DEF Reached
  <2>2. /\ irqPtr'.enable = irqPtr'.disable
        /\ irqPtr'.enable = 0 \/ irqPtr'.enable \in DOMAIN irqDevs'
        /\ irqMask' \subseteq Reached(irqPtr.enable)'
        /\ irqMask' # {} => irqPos' > Len(irqDevs')
        /\ \A v \in UsbUsers : usbPc'[v] \in {"count", "on"} => usbLine'[v] \in irqMask'
    BY <1>0, <1>1, <1>3, <2>1 DEF MaskInv
  <2>3. ASSUME NEW j \in irqMask'
        PROVE  \E v \in UsbUsers : usbLine'[v] = j /\ usbPc'[v] \in {"count", "on", "disable"}
    <3>1. PICK v \in UsbUsers : usbLine[v] = j /\ usbPc[v] \in {"count", "on", "disable"}
      BY <1>0, <1>1 DEF MaskInv
    <3>2. v # u
      BY <1>0, <3>1
    <3> QED
      BY <1>3, <3>1, <3>2
  <2>4. \A v, w \in UsbUsers : usbPc'[v] = "disable" /\ usbLine'[w] = usbLine'[v] => v = w
    <3> SUFFICES ASSUME NEW v \in UsbUsers, NEW w \in UsbUsers,
                        usbPc'[v] = "disable", usbLine'[w] = usbLine'[v]
                 PROVE  v = w
      OBVIOUS
    <3>1. v # u /\ usbPc[v] = "disable" /\ usbLine'[v] = usbLine[v] /\ usbLine[v] # NoLine
      BY <1>1, <1>3 DEF CallInv
    <3>2. w # u /\ usbLine[w] = usbLine[v]
      BY <1>3, <3>1
    <3> QED
      BY <1>1, <3>1, <3>2 DEF MaskInv
  <2> QED
    BY <2>2, <2>3, <2>4 DEF MaskInv
<1> QED
  BY <1>8, <1>9, <1>10, <1>11, <1>12 DEF UsbInv

\* Every step of a user keeps the invariant, and so does the setup.
LEMMA UsbInvKept ==
  ASSUME UsbDiscipline, UsbInv, [IrqNext]_irqVars
  PROVE  UsbInv'
<1>1. CASE UNCHANGED irqVars
  BY <1>1 DEF irqVars, irqSetup, UsbInv, UsbType, CallInv, ChainInv, UsageInv, MaskInv,
     Counted, Reached
<1> QED
  BY <1>1, SetupStep, ConnectStep, EnableStep, CountStep, RestoreStep, DisableStep,
     DisconnectStep DEF IrqNext

\* Users of a line that connect and restore one call at a time, with a handler each,
\* stay served whatever the others do, and leave the line off with nothing on it.
THEOREM LineServedKept ==
  ASSUME UsbDiscipline
  PROVE  IrqSpec => []UsbLineServed
<1>1. UsbInv /\ [IrqNext]_irqVars => UsbInv'
  BY UsbInvKept
<1>2. UsbInv => UsbLineServed
  <2> SUFFICES ASSUME UsbInv PROVE UsbLineServed
    OBVIOUS
  <2>1. ASSUME NEW u \in UsbUsers, usbPc[u] = "on"
        PROVE  /\ usbLine[u] \in irqMask
               /\ \E k \in DOMAIN irqChain[usbLine[u]] :
                    irqChain[usbLine[u]][k] = <<UsbFunc[u], u>>
    <3>1. usbLine[u] \in UsbLines
      BY <2>1 DEF UsbInv, UsbType, CallInv
    <3> QED
      BY <2>1, <3>1 DEF UsbInv, MaskInv, ChainInv, Entry
  <2>2. ASSUME NEW i \in UsbLines, \A u \in UsbUsers : usbLine[u] # i
        PROVE  i \notin irqMask /\ usbUsage[i] = 0 /\ irqChain[i] = <<>>
    <3>1. i \notin irqMask
      BY <2>2 DEF UsbInv, MaskInv
    <3>2. Counted(i) = {}
      BY <2>2 DEF Counted
    <3>3. usbUsage[i] = 0
      BY <3>2, FS_EmptySet DEF UsbInv, UsageInv
    <3>4. DOMAIN irqChain[i] = {}
      BY <2>2 DEF UsbInv, ChainInv
    <3>5. /\ irqChain[i] \in Seq(STRING \X UsbUsers)
          /\ DOMAIN irqChain[i] = 1..Len(irqChain[i]) /\ Len(irqChain[i]) \in Nat
      BY LenProperties DEF UsbInv, UsbType
    <3>6. Len(irqChain[i]) = 0
      <4>1. Len(irqChain[i]) >= 1 => 1 \in DOMAIN irqChain[i]
        BY <3>5
      <4> QED
        BY <3>4, <3>5, <4>1
    <3> QED
      BY <3>1, <3>3, <3>5, <3>6, EmptySeq
  <2> QED
    BY <2>1, <2>2 DEF UsbLineServed
<1> QED
  BY <1>1, <1>2, UsbInvInit, PTL DEF IrqSpec

-----------------------------------------------------------------------------
(* IntLines: the types, of overlapping calls and of shared handlers too.   *)

\* The users of a line, and a choice of an entry of its chain for each that has
\* the user's handler.  INT_DISCONNECT may take another user's entry: then that
\* user is given the one that is left.
UsersOf(i) == {u \in UsbUsers : usbLine[u] = i}

Held(c, us, own) ==
  /\ \A u \in us : own[u] \in DOMAIN c /\ c[own[u]][1] = UsbFunc[u]
  /\ \A u, v \in us : own[u] = own[v] => u = v

HeldInv ==
  \A i \in UsbLines : \E own \in [UsbUsers -> Nat] : Held(irqChain[i], UsersOf(i), own)

\* One more user of the line brings its own entry.
LEMMA HeldAppend ==
  ASSUME NEW c \in Seq(STRING \X UsbUsers), NEW us \in SUBSET UsbUsers,
         NEW u \in UsbUsers, u \notin us,
         NEW own \in [UsbUsers -> Nat], Held(c, us, own)
  PROVE  \E new \in [UsbUsers -> Nat] : Held(Append(c, Entry(u)), us \cup {u}, new)
<1> DEFINE d == Append(c, Entry(u))
           new == [own EXCEPT ![u] = Len(c) + 1]
<1>0. Entry(u) \in STRING \X UsbUsers /\ Entry(u)[1] = UsbFunc[u]
  BY IrqAssumption DEF Entry
<1>1. /\ d \in Seq(STRING \X UsbUsers) /\ Len(d) = Len(c) + 1
      /\ \A k \in 1..Len(c) : d[k] = c[k]
      /\ d[Len(c) + 1] = Entry(u)
  BY <1>0, AppendProperties
<1>2. Len(c) \in Nat /\ DOMAIN c = 1..Len(c) /\ DOMAIN d = 1..(Len(c) + 1)
  BY <1>1, LenProperties
<1>3. /\ new \in [UsbUsers -> Nat]
      /\ \A v \in UsbUsers : new[v] = IF v = u THEN Len(c) + 1 ELSE own[v]
  BY <1>2
<1> HIDE DEF d, new
<1>4. ASSUME NEW v \in us \cup {u}
      PROVE  new[v] \in DOMAIN d /\ d[new[v]][1] = UsbFunc[v]
  <2>1. CASE v = u
    BY <1>0, <1>1, <1>2, <1>3, <2>1
  <2>2. CASE v # u
    <3>1. own[v] \in 1..Len(c) /\ c[own[v]][1] = UsbFunc[v] /\ new[v] = own[v]
      BY <1>2, <1>3, <2>2 DEF Held
    <3> QED
      BY <1>1, <1>2, <3>1
  <2> QED
    BY <2>1, <2>2
<1>5. ASSUME NEW v \in us \cup {u}, NEW w \in us \cup {u}, new[v] = new[w]
      PROVE  v = w
  <2>1. \A x \in us : own[x] \in 1..Len(c) /\ new[x] = own[x]
    BY <1>2, <1>3 DEF Held
  <2>2. \A x \in us : new[x] # new[u]
    BY <1>2, <1>3, <2>1
  <2> QED
    BY <1>5, <2>1, <2>2 DEF Held
<1> QED
  BY <1>3, <1>4, <1>5 DEF Held, d

\* A set of numbers has a least one.
LEMMA LeastOf ==
  ASSUME NEW T, T \subseteq Nat, T # {}
  PROVE  \E m \in T : \A n \in T : m <= n
<1> DEFINE R == StrictSubsetOrdering(Nat)
           S == FiniteSubsetsOf(Nat)
           I == {1..n : n \in T}
<1>1. IsWellFoundedOn(R, S)
  BY FS_StrictSubsetOrderingWellFounded
<1>2. I \subseteq S
  <2>1. \A n \in Nat : IsFiniteSet(1..n)
    BY FS_Interval
  <2> QED
    BY <2>1 DEF FiniteSubsetsOf
<1>3. I # {}
  OBVIOUS
<1>4. PICK x \in I : \A y \in I : <<y, x>> \notin R
  <2> HIDE DEF R, S, I
  <2> QED
    BY <1>1, <1>2, <1>3, WFMin
<1>5. PICK m \in T : x = 1..m
  BY <1>4
<1>6. ASSUME NEW n \in T, n < m PROVE FALSE
  <2>1. n \in Nat /\ m \in Nat
    OBVIOUS
  <2>2. 1..n \in I
    OBVIOUS
  <2>3. 1..n \subseteq 1..m /\ m \in 1..m /\ m \notin 1..n
    BY <1>6, <2>1
  <2>4. <<1..n, 1..m>> \notin R
    <3> HIDE DEF R, I
    <3> QED
      BY <1>4, <1>5, <2>2
  <2>5. 1..n \in SUBSET Nat /\ 1..m \in SUBSET Nat
    BY <2>1
  <2>6. <<1..n, 1..m>> \in R
    <3> DEFINE a == 1..n
               b == 1..m
    <3>1. a \in SUBSET Nat /\ b \in SUBSET Nat /\ a \subseteq b /\ a # b
      BY <2>3, <2>5
    <3> HIDE DEF a, b
    <3>2. <<a, b>> \in StrictSubsetOrdering(Nat)
      BY <3>1 DEF StrictSubsetOrdering
    <3> QED
      BY <3>2 DEF a, b
  <2> QED
    BY <2>4, <2>6
<1> QED
  BY <1>6

\* The entry that INT_DISCONNECT finds for a user of the line.
LEMMA FoundEntry ==
  ASSUME NEW s \in Seq(STRING \X UsbUsers), NEW f, NEW m \in DOMAIN s, s[m][1] = f
  PROVE  FirstWith(s, f) \in DOMAIN s /\ s[FirstWith(s, f)][1] = f
<1> DEFINE T == {k \in DOMAIN s : s[k][1] = f}
           Fits(k) == s[k][1] = f /\ \A j \in 1..(k - 1) : s[j][1] # f
<1>1. DOMAIN s = 1..Len(s) /\ Len(s) \in Nat
  BY LenProperties
<1>2. \E k \in T : \A j \in T : k <= j
  <2>1. T \subseteq Nat /\ T # {}
    BY <1>1
  <2> HIDE DEF T
  <2> QED
    BY <2>1, LeastOf
<1>3. PICK k \in T : \A j \in T : k <= j
  BY <1>2
<1>4. k \in DOMAIN s /\ Fits(k)
  <2> SUFFICES ASSUME NEW j \in 1..(k - 1), s[j][1] = f PROVE FALSE
    OBVIOUS
  <2>1. j \in T /\ j < k
    BY <1>1
  <2> QED
    BY <1>1, <1>3, <2>1
<1>5. FirstWith(s, f) = CHOOSE n \in DOMAIN s : Fits(n)
  BY DEF FirstWith
<1> HIDE DEF Fits, T
<1>6. Fits(CHOOSE n \in DOMAIN s : Fits(n)) /\ (CHOOSE n \in DOMAIN s : Fits(n)) \in DOMAIN s
  BY <1>4
<1>7. FirstWith(s, f) \in DOMAIN s /\ Fits(FirstWith(s, f))
  BY <1>5, <1>6
<1> QED
  BY <1>7 DEF Fits

\* A user leaves with an entry of its handler; the user it was chosen for takes
\* the leaving one's.
LEMMA HeldRemove ==
  ASSUME NEW c \in Seq(STRING \X UsbUsers), NEW us \in SUBSET UsbUsers,
         NEW u \in us, NEW k \in DOMAIN c, c[k][1] = UsbFunc[u],
         NEW own \in [UsbUsers -> Nat], Held(c, us, own)
  PROVE  \E new \in [UsbUsers -> Nat] : Held(RemoveAt(c, k), us \ {u}, new)
<1> DEFINE d == RemoveAt(c, k)
           Mid(v) == IF own[v] = k THEN own[u] ELSE own[v]
           new == [v \in UsbUsers |-> IF Mid(v) > k THEN Mid(v) - 1 ELSE Mid(v)]
<1>1. DOMAIN c = 1..Len(c) /\ Len(c) \in Nat /\ k \in 1..Len(c)
  BY LenProperties
<1>2. /\ d \in Seq(STRING \X UsbUsers) /\ Len(d) = Len(c) - 1
      /\ \A j \in 1..(Len(c) - 1) : d[j] = IF j < k THEN c[j] ELSE c[j + 1]
  BY <1>1, RemoveAtProperties
<1>3. DOMAIN d = 1..(Len(c) - 1)
  BY <1>2, LenProperties
<1>4. /\ \A v \in us : own[v] \in 1..Len(c) /\ c[own[v]][1] = UsbFunc[v]
      /\ \A v, w \in us : own[v] = own[w] => v = w
  BY <1>1 DEF Held
<1>5. /\ \A v \in us \ {u} : Mid(v) \in 1..Len(c) /\ Mid(v) # k /\ c[Mid(v)][1] = UsbFunc[v]
      /\ \A v, w \in us \ {u} : Mid(v) = Mid(w) => v = w
  <2>1. \A v \in us \ {u} : own[v] = k => UsbFunc[v] = UsbFunc[u]
    BY <1>4
  <2> QED
    BY <1>4, <2>1
<1>6. \A v \in UsbUsers : Mid(v) \in Nat
  OBVIOUS
<1>7. /\ new \in [UsbUsers -> Nat]
      /\ \A v \in UsbUsers : new[v] = IF Mid(v) > k THEN Mid(v) - 1 ELSE Mid(v)
  <2> HIDE DEF Mid
  <2> QED
    BY <1>1, <1>6
<1> HIDE DEF d, Mid, new
<1>8. ASSUME NEW v \in us \ {u}
      PROVE  new[v] \in DOMAIN d /\ d[new[v]][1] = UsbFunc[v]
  <2>1. Mid(v) \in 1..Len(c) /\ Mid(v) # k /\ c[Mid(v)][1] = UsbFunc[v]
    BY <1>5
  <2>2. CASE Mid(v) > k
    <3>0. new[v] = Mid(v) - 1
      BY <1>7, <2>2
    <3>1. /\ Mid(v) - 1 \in 1..(Len(c) - 1) /\ ~(Mid(v) - 1 < k)
          /\ (Mid(v) - 1) + 1 = Mid(v)
      BY <1>1, <2>1, <2>2
    <3> QED
      BY <1>2, <1>3, <2>1, <3>0, <3>1
  <2>3. CASE ~(Mid(v) > k)
    <3>0. new[v] = Mid(v)
      BY <1>7, <2>3
    <3>1. Mid(v) \in 1..(Len(c) - 1) /\ Mid(v) < k
      BY <1>1, <2>1, <2>3
    <3> QED
      BY <1>2, <1>3, <2>1, <3>0, <3>1
  <2> QED
    BY <2>2, <2>3
<1>9. ASSUME NEW v \in us \ {u}, NEW w \in us \ {u}, new[v] = new[w]
      PROVE  v = w
  <2>1. Mid(v) \in Nat /\ Mid(w) \in Nat /\ Mid(v) # k /\ Mid(w) # k
    BY <1>5
  <2>2. /\ new[v] = IF Mid(v) > k THEN Mid(v) - 1 ELSE Mid(v)
        /\ new[w] = IF Mid(w) > k THEN Mid(w) - 1 ELSE Mid(w)
    BY <1>7
  <2>3. Mid(v) = Mid(w)
    <3> DEFINE a == Mid(v)
               b == Mid(w)
    <3> HIDE DEF a, b
    <3>1. a \in Nat /\ b \in Nat /\ a # k /\ b # k /\ k \in Nat
      BY <1>1, <2>1 DEF a, b
    <3>2. (IF a > k THEN a - 1 ELSE a) = (IF b > k THEN b - 1 ELSE b)
      BY <1>9, <2>2 DEF a, b
    <3>3. a = b
      BY <3>1, <3>2
    <3> QED
      BY <3>3 DEF a, b
  <2> QED
    BY <1>5, <2>3
<1> QED
  BY <1>7, <1>8, <1>9 DEF Held, d

Words == 0..UINT16_MAX

\* A user that is in a call or has its line on has a line, whoever else calls.
UsersType ==
  /\ usbPc \in [UsbUsers -> {"idle", "enable", "count", "on", "disable", "undo"}]
  /\ usbLine \in [UsbUsers -> UsbLines \cup {NoLine}]
  /\ \A u \in UsbUsers : usbPc[u] = "idle" <=> usbLine[u] = NoLine
  /\ usbUsage \in [UsbLines -> Words]
  /\ irqChain \in [UsbLines -> Seq(STRING \X UsbUsers)]
  /\ irqPos \in Nat /\ irqDevs \in IrqMachines

\* The pointers, the lines that are on, and the end of their interrupts.
LinesType ==
  /\ irqPtr \in [{"mp", "lo", "io", "enable", "disable"} -> Nat]
  /\ irqMask \subseteq UsbLines
  /\ irqEoi \in [UsbLines -> {"none", "NULL", "sysLoApicIntEoi"}]

LEMMA LinesTypeStep == UsersType /\ LinesType /\ [IrqNext]_irqVars => LinesType'
<1> SUFFICES ASSUME UsersType, LinesType, [IrqNext]_irqVars PROVE LinesType'
  OBVIOUS
<1>1. CASE UNCHANGED irqVars
  BY <1>1 DEF irqVars, irqSetup, LinesType
<1>2. CASE ApicIntrIntHelper
  <2>1. irqPos \in Nat
    BY DEF UsersType
  <2>2. irqPtr' \in [{"mp", "lo", "io", "enable", "disable"} -> Nat]
    <3> DEFINE d == irqDevs[irqPos]
               io == d.io # {}
    <3>1. /\ KeepPtr(d.mp, irqPtr.mp) \in Nat /\ KeepPtr(d.lo, irqPtr.lo) \in Nat
          /\ KeepPtr(io, irqPtr.io) \in Nat
          /\ ResetPtr(io, irqPtr.enable) \in Nat /\ ResetPtr(io, irqPtr.disable) \in Nat
      BY <2>1 DEF KeepPtr, ResetPtr, LinesType
    <3>2. irqPtr' = [mp |-> KeepPtr(d.mp, irqPtr.mp), lo |-> KeepPtr(d.lo, irqPtr.lo),
                     io |-> KeepPtr(io, irqPtr.io),
                     enable  |-> ResetPtr(io, irqPtr.enable),
                     disable |-> ResetPtr(io, irqPtr.disable)]
      BY <1>2 DEF ApicIntrIntHelper
    <3> HIDE DEF d, io
    <3> QED
      BY <3>1, <3>2
  <2> QED
    BY <1>2, <2>2 DEF ApicIntrIntHelper, LinesType
<1>3. ASSUME NEW u \in UsbUsers, NEW i \in UsbLines, UsbIntConnect(u, i)
      PROVE  LinesType'
  BY <1>3 DEF UsbIntConnect, IntEoiGet, LinesType, irqSetup
<1>4. ASSUME NEW u \in UsbUsers, UsbIntEnable(u)
      PROVE  LinesType'
  <2>1. usbLine[u] \in UsbLines
    BY <1>4 DEF UsbIntEnable, UsersType
  <2>2. irqMask' \subseteq UsbLines
    BY <1>4, <2>1 DEF UsbIntEnable, IntEnablePIC, LinesType
  <2> QED
    BY <1>4, <2>2 DEF UsbIntEnable, LinesType, irqSetup
<1>5. ASSUME NEW u \in UsbUsers,
             UsbCount(u) \/ UsbIntRestore(u) \/ UsbDisconnect(u) \/ UsbIntDisable(u)
      PROVE  LinesType'
  BY <1>5 DEF UsbCount, UsbIntRestore, UsbDisconnect, UsbIntDisable, IntDisablePIC, LinesType,
     irqSetup
<1> QED
  BY <1>1, <1>2, <1>3, <1>4, <1>5 DEF IrqNext

\* The two ways a UINT16 count changes.
LEMMA WordSteps ==
  ASSUME NEW n \in Words
  PROVE  (n + 1) % 65536 \in Words /\ (IF n = 0 THEN 0 ELSE n - 1) \in Words
<1>1. n \in Nat /\ n <= UINT16_MAX /\ UINT16_MAX \in Nat
  BY DEF Words, UINT16_MAX
<1>2. (IF n = 0 THEN 0 ELSE n - 1) \in Words
  BY <1>1 DEF Words
<1>3. \A m \in Nat \ {0}, x \in Nat : x % m \in 0..(m - 1)
  OBVIOUS
<1>4. UINT16_MAX + 1 = 65536
  BY DEF UINT16_MAX
<1>5. (n + 1) % (UINT16_MAX + 1) \in 0..(UINT16_MAX + 1 - 1)
  BY <1>1, <1>3
<1>6. (n + 1) % 65536 \in Words
  BY <1>1, <1>4, <1>5 DEF Words
<1> QED
  BY <1>2, <1>6

\* A step that keeps the chains and every user's line keeps the choice of entries.
LEMMA HeldSame == HeldInv /\ UNCHANGED <<irqChain, usbLine>> => HeldInv'
BY DEF HeldInv, Held, UsersOf

LEMMA ConnectUsers ==
  ASSUME UsersType, HeldInv, NEW u \in UsbUsers, NEW i \in UsbLines, UsbIntConnect(u, i)
  PROVE  UsersType' /\ HeldInv'
<1>0. /\ usbPc[u] = "idle" /\ usbPc' = [usbPc EXCEPT ![u] = "enable"]
      /\ usbLine' = [usbLine EXCEPT ![u] = i]
      /\ irqChain' = [irqChain EXCEPT ![i] = Append(@, Entry(u))]
      /\ UNCHANGED <<irqDevs, irqPos, usbUsage>>
  BY DEF UsbIntConnect, UsbGoto, irqSetup, Entry
<1>1. NoLine \notin UsbLines /\ Entry(u) \in STRING \X UsbUsers
  BY IrqAssumption DEF NoLine, Entry
<1>2. irqChain[i] \in Seq(STRING \X UsbUsers)
  BY DEF UsersType
<1>3. Append(irqChain[i], Entry(u)) \in Seq(STRING \X UsbUsers)
  BY <1>1, <1>2, AppendProperties
<1>4. UsersType'
  <2>1. irqChain' \in [UsbLines -> Seq(STRING \X UsbUsers)]
    BY <1>0, <1>3 DEF UsersType
  <2> QED
    BY <1>0, <1>1, <2>1 DEF UsersType
<1>5. /\ usbLine[u] = NoLine /\ \A v \in UsbUsers : usbLine'[v] = IF v = u THEN i ELSE usbLine[v]
      /\ \A j \in UsbLines :
           irqChain'[j] = IF j = i THEN Append(irqChain[i], Entry(u)) ELSE irqChain[j]
  BY <1>0 DEF UsersType
<1>6. ASSUME NEW j \in UsbLines
      PROVE  \E own \in [UsbUsers -> Nat] : Held(irqChain'[j], UsersOf(j)', own)
  <2>1. PICK own \in [UsbUsers -> Nat] : Held(irqChain[j], UsersOf(j), own)
    BY DEF HeldInv
  <2>2. CASE j = i
    <3>1. UsersOf(j)' = UsersOf(j) \cup {u} /\ u \notin UsersOf(j) /\ UsersOf(j) \in SUBSET UsbUsers
      BY <1>1, <1>5, <2>2 DEF UsersOf
    <3>2. irqChain'[j] = Append(irqChain[j], Entry(u))
      BY <1>5, <2>2
    <3>3. irqChain[j] \in Seq(STRING \X UsbUsers)
      BY <1>2, <2>2
    <3>4. PICK new \in [UsbUsers -> Nat] :
            Held(Append(irqChain[j], Entry(u)), UsersOf(j) \cup {u}, new)
      <4> DEFINE c == irqChain[j]
                 us == UsersOf(j)
      <4>1. /\ c \in Seq(STRING \X UsbUsers) /\ us \in SUBSET UsbUsers /\ u \notin us
            /\ Held(c, us, own)
        BY <2>1, <3>1, <3>3
      <4> HIDE DEF c, us
      <4>2. \E new \in [UsbUsers -> Nat] : Held(Append(c, Entry(u)), us \cup {u}, new)
        BY <4>1, HeldAppend
      <4> QED
        BY <4>2 DEF c, us
    <3> QED
      BY <3>1, <3>2, <3>4
  <2>3. CASE j # i
    <3>1. UsersOf(j)' = UsersOf(j) /\ irqChain'[j] = irqChain[j]
      BY <1>1, <1>5, <2>3 DEF UsersOf
    <3> QED
      BY <2>1, <3>1
  <2> QED
    BY <2>2, <2>3
<1>7. HeldInv'
  BY <1>6 DEF HeldInv, Held
<1> QED
  BY <1>4, <1>7

LEMMA DisconnectUsers ==
  ASSUME UsersType, HeldInv, NEW u \in UsbUsers, UsbDisconnect(u)
  PROVE  UsersType' /\ HeldInv'
<1> DEFINE i == usbLine[u]
           k == FirstWith(irqChain[i], UsbFunc[u])
           t == RemoveAt(irqChain[i], k)
<1>0. /\ usbPc[u] = "undo" /\ usbPc' = [usbPc EXCEPT ![u] = "idle"]
      /\ usbLine' = [usbLine EXCEPT ![u] = NoLine]
      /\ irqChain' = [irqChain EXCEPT ![i] = t]
      /\ UNCHANGED <<irqDevs, irqPos, usbUsage>>
  BY DEF UsbDisconnect, UsbGoto, irqSetup
<1>1. i \in UsbLines /\ NoLine \notin UsbLines
  BY <1>0, IrqAssumption DEF UsersType, NoLine
<1>2. irqChain[i] \in Seq(STRING \X UsbUsers)
  BY <1>1 DEF UsersType
<1>3. PICK own \in [UsbUsers -> Nat] : Held(irqChain[i], UsersOf(i), own)
  BY <1>1 DEF HeldInv
<1>4. u \in UsersOf(i) /\ UsersOf(i) \in SUBSET UsbUsers
  BY DEF UsersOf
<1>5. own[u] \in DOMAIN irqChain[i] /\ irqChain[i][own[u]][1] = UsbFunc[u]
  BY <1>3, <1>4 DEF Held
<1>6. k \in DOMAIN irqChain[i] /\ irqChain[i][k][1] = UsbFunc[u]
  BY <1>2, <1>5, FoundEntry
<1>7. t \in Seq(STRING \X UsbUsers)
  <2>1. k \in 1..Len(irqChain[i])
    BY <1>2, <1>6, LenProperties
  <2> HIDE DEF k
  <2> QED
    BY <1>2, <2>1, RemoveAtProperties
<1>8. PICK new \in [UsbUsers -> Nat] : Held(t, UsersOf(i) \ {u}, new)
  <2> HIDE DEF k, i
  <2> QED
    BY <1>2, <1>3, <1>4, <1>6, HeldRemove
<1> HIDE DEF t
<1>9. UsersType'
  <2>1. irqChain' \in [UsbLines -> Seq(STRING \X UsbUsers)]
    BY <1>0, <1>7 DEF UsersType
  <2> QED
    BY <1>0, <1>1, <2>1 DEF UsersType
<1>10. /\ \A v \in UsbUsers : usbLine'[v] = IF v = u THEN NoLine ELSE usbLine[v]
       /\ \A j \in UsbLines : irqChain'[j] = IF j = i THEN t ELSE irqChain[j]
  BY <1>0 DEF UsersType
<1> HIDE DEF i
<1>11. ASSUME NEW j \in UsbLines
       PROVE  \E o \in [UsbUsers -> Nat] : Held(irqChain'[j], UsersOf(j)', o)
  <2>1. CASE j = i
    <3>1. UsersOf(j)' = UsersOf(j) \ {u}
      BY <1>1, <1>10, <2>1 DEF UsersOf
    <3>2. irqChain'[j] = t
      BY <1>10, <2>1
    <3> QED
      BY <1>8, <2>1, <3>1, <3>2
  <2>2. CASE j # i
    <3>1. UsersOf(j)' = UsersOf(j) /\ irqChain'[j] = irqChain[j]
      BY <1>1, <1>10, <2>2 DEF UsersOf, i
    <3> QED
      BY <3>1 DEF HeldInv
  <2> QED
    BY <2>1, <2>2
<1>12. HeldInv'
  BY <1>11 DEF HeldInv, Held
<1> QED
  BY <1>9, <1>12

LEMMA UsersStep == UsersType /\ HeldInv /\ [IrqNext]_irqVars => UsersType' /\ HeldInv'
<1> SUFFICES ASSUME UsersType, HeldInv, [IrqNext]_irqVars PROVE UsersType' /\ HeldInv'
  OBVIOUS
<1>1. CASE UNCHANGED irqVars
  BY <1>1, HeldSame DEF irqVars, irqSetup, UsersType
<1>2. CASE ApicIntrIntHelper
  BY <1>2, HeldSame DEF ApicIntrIntHelper, UsersType
<1>3. ASSUME NEW u \in UsbUsers, NEW i \in UsbLines, UsbIntConnect(u, i)
      PROVE  UsersType' /\ HeldInv'
  BY <1>3, ConnectUsers
<1>4. ASSUME NEW u \in UsbUsers, UsbDisconnect(u)
      PROVE  UsersType' /\ HeldInv'
  BY <1>4, DisconnectUsers
<1>5. ASSUME NEW u \in UsbUsers, UsbIntEnable(u) \/ UsbIntDisable(u)
      PROVE  UsersType' /\ HeldInv'
  <2>1. /\ usbPc[u] # "idle" /\ usbPc' \in {[usbPc EXCEPT ![u] = l] : l \in {"count", "undo"}}
        /\ UNCHANGED <<irqDevs, irqPos, irqChain, usbUsage, usbLine>>
    BY <1>5 DEF UsbIntEnable, UsbIntDisable, UsbGoto, irqSetup
  <2> QED
    BY <2>1, HeldSame DEF UsersType
<1>6. ASSUME NEW u \in UsbUsers, UsbCount(u) \/ UsbIntRestore(u)
      PROVE  UsersType' /\ HeldInv'
  <2>1. /\ usbPc[u] # "idle"
        /\ usbPc' \in {[usbPc EXCEPT ![u] = l] : l \in {"on", "disable", "undo"}}
        /\ UNCHANGED <<irqDevs, irqPos, irqChain, usbLine>>
    BY <1>6 DEF UsbCount, UsbIntRestore, UsbGoto, irqSetup
  <2>2. usbLine[u] \in UsbLines
    BY <2>1 DEF UsersType
  <2>3. usbUsage[usbLine[u]] \in Words
    BY <2>2 DEF UsersType
  <2>4. \/ usbUsage' = usbUsage
        \/ usbUsage' = [usbUsage EXCEPT ![usbLine[u]] = (usbUsage[usbLine[u]] + 1) % 65536]
        \/ usbUsage' = [usbUsage EXCEPT ![usbLine[u]] =
                          IF usbUsage[usbLine[u]] = 0 THEN 0 ELSE usbUsage[usbLine[u]] - 1]
    BY <1>6 DEF UsbCount, UsbIntRestore
  <2>5. usbUsage' \in [UsbLines -> Words]
    <3> DEFINE n == usbUsage[usbLine[u]]
               a == (n + 1) % 65536
               b == IF n = 0 THEN 0 ELSE n - 1
    <3>1. a \in Words /\ b \in Words
      BY <2>3, WordSteps
    <3> HIDE DEF a, b
    <3>2. \/ usbUsage' = usbUsage \/ usbUsage' = [usbUsage EXCEPT ![usbLine[u]] = a]
          \/ usbUsage' = [usbUsage EXCEPT ![usbLine[u]] = b]
      BY <2>4 DEF a, b
    <3> QED
      BY <3>1, <3>2 DEF UsersType
  <2> QED
    BY <2>1, <2>5, HeldSame DEF UsersType
<1> QED
  BY <1>1, <1>2, <1>3, <1>4, <1>5, <1>6 DEF IrqNext

\* The variables of the lines and their users stay in their types, in calls that
\* overlap and with users that share a handler too.
THEOREM IrqTyped == IrqSpec => []IrqTypeOK
<1>1. IrqInit => LinesType /\ UsersType /\ HeldInv
  <2> SUFFICES ASSUME IrqInit PROVE LinesType /\ UsersType /\ HeldInv
    OBVIOUS
  <2>1. NoLine \notin UsbLines
    BY IrqAssumption DEF NoLine
  <2>2. LinesType
    BY DEF IrqInit, LinesType
  <2>3. UsersType
    BY EmptySeq DEF IrqInit, UsersType, Words, UINT16_MAX
  <2>4. \A i \in UsbLines : UsersOf(i) = {}
    BY <2>1 DEF IrqInit, UsersOf
  <2>5. [u \in UsbUsers |-> 0] \in [UsbUsers -> Nat]
    OBVIOUS
  <2> QED
    BY <2>2, <2>3, <2>4, <2>5 DEF HeldInv, Held
<1>2. LinesType /\ UsersType => IrqTypeOK
  BY DEF LinesType, UsersType, IrqTypeOK, Words
<1> QED
  BY <1>1, <1>2, UsersStep, LinesTypeStep, PTL DEF IrqSpec

-----------------------------------------------------------------------------
(* The lines of every IO APIC.                                             *)

\* The pointer that enables lines is the last visited device's, if it has any, and
\* interrupts are connected only after the visit.
PointerInv ==
  /\ irqDevs \in IrqMachines
  /\ irqPos \in 1..(Len(irqDevs) + 1)
  /\ irqPtr.enable # 0 => /\ irqPos > 1 /\ irqPtr.enable = irqPos - 1
                          /\ irqDevs[irqPos - 1].io # {}
  /\ usbPc \in [UsbUsers -> {"idle", "enable", "count", "on", "disable", "undo"}]
  /\ \A u \in UsbUsers : usbPc[u] # "idle" => irqPos > Len(irqDevs)

\* Where no IO APIC is visited last, connecting a line that an IO APIC has never
\* fails, on a machine with any number of them.
THEOREM LinesReached ==
  ASSUME NoApicLast
  PROVE  IrqSpec => []UsbFailsWithoutLine
<1>1. IrqInit => PointerInv
  <2> SUFFICES ASSUME IrqInit PROVE PointerInv
    OBVIOUS
  <2>1. Len(irqDevs) \in Nat
    BY IrqAssumption, LenProperties DEF IrqInit
  <2> QED
    BY <2>1 DEF IrqInit, PointerInv
<1>2. PointerInv /\ [IrqNext]_irqVars => PointerInv'
  <2> SUFFICES ASSUME PointerInv, [IrqNext]_irqVars PROVE PointerInv'
    OBVIOUS
  <2> USE DEF PointerInv
  <2>0. Len(irqDevs) \in Nat
    BY IrqAssumption, LenProperties
  <2>1. CASE ApicIntrIntHelper
    <3>1. /\ irqPos <= Len(irqDevs) /\ irqPos' = irqPos + 1
          /\ UNCHANGED <<irqDevs, usbPc>>
          /\ irqPtr'.enable = IF irqDevs[irqPos].io # {} THEN irqPos ELSE 0
      BY <2>1 DEF ApicIntrIntHelper, ResetPtr
    <3>2. \A u \in UsbUsers : usbPc[u] = "idle"
      BY <2>0, <3>1
    <3>3. irqPos' \in 1..(Len(irqDevs') + 1) /\ irqPos' > 1 /\ irqPos' - 1 = irqPos
      BY <2>0, <3>1
    <3> QED
      BY <3>1, <3>2, <3>3
  <2>2. ASSUME NEW u \in UsbUsers,
               \/ \E i \in UsbLines : UsbIntConnect(u, i)
               \/ UsbIntEnable(u) \/ UsbCount(u) \/ UsbIntRestore(u)
               \/ UsbIntDisable(u) \/ UsbDisconnect(u)
        PROVE  PointerInv'
    <3>1. UNCHANGED <<irqDevs, irqPos, irqPtr>>
      BY <2>2 DEF UsbIntConnect, UsbIntEnable, UsbCount, UsbIntRestore, UsbIntDisable,
         UsbDisconnect, irqSetup
    <3>2. irqPos > Len(irqDevs)
      BY <2>2 DEF UsbIntConnect, UsbIntEnable, UsbCount, UsbIntRestore, UsbIntDisable,
         UsbDisconnect, MayStart
    <3>3. usbPc' \in [UsbUsers -> {"idle", "enable", "count", "on", "disable", "undo"}]
      BY <2>2 DEF UsbIntConnect, UsbIntEnable, UsbCount, UsbIntRestore, UsbIntDisable,
         UsbDisconnect, UsbGoto
    <3> QED
      BY <3>1, <3>2, <3>3
  <2>3. CASE UNCHANGED irqVars
    BY <2>3 DEF irqVars, irqSetup
  <2> QED
    BY <2>1, <2>2, <2>3 DEF IrqNext
<1>3. PointerInv => UsbFailsWithoutLine
  <2> SUFFICES ASSUME PointerInv, NEW u \in UsbUsers, usbPc[u] = "undo"
               PROVE  irqPtr.enable = 0
    BY DEF UsbFailsWithoutLine
  <2> USE DEF PointerInv
  <2>1. Len(irqDevs) \in Nat
    BY IrqAssumption, LenProperties
  <2>2. irqPos = Len(irqDevs) + 1
    BY <2>1
  <2>3. irqPos - 1 = Len(irqDevs)
    BY <2>1, <2>2
  <2> QED
    BY <2>3, NoApicLast DEF NoApicLast
<1> QED
  BY <1>1, <1>2, <1>3, PTL DEF IrqSpec

-----------------------------------------------------------------------------
(* SdMonitor.                                                               *)

\* The monitor only walks on over a list that is not empty.
SdTypeInv == SdTypeOK /\ (sdMon = "remove" /\ sdNext => sdList # <<>>)

LEMMA SdTypeStep == SdTypeInv /\ [SdNext]_sdVars => SdTypeInv'
<1> SUFFICES ASSUME SdTypeInv, [SdNext]_sdVars PROVE SdTypeInv'
  OBVIOUS
<1> USE DEF SdTypeInv, SdTypeOK
<1>1. CASE UNCHANGED sdVars
  BY <1>1 DEF sdVars, sdSetup, sdMonitor, sdSlot
<1>2. CASE SdInstInit2
  BY <1>2 DEF SdInstInit2, sdMonitor, sdSlot
<1>3. CASE SdInstConnect
  BY <1>3 DEF SdInstConnect, sdSlot
<1>4. CASE SdIrqStatEn
  <2>1. sdStatEn' \subseteq {"DATA", "CMD", "AC12E", "DINT", "CINS", "BRR", "BWR"}
    BY <1>4 DEF SdIrqStatEn, IntMask
  <2> QED
    BY <1>4, <2>1 DEF SdIrqStatEn, sdMonitor, sdSlot
<1>5. CASE SdIntConnect
  <2>1. SignalsOn \in BOOLEAN
    BY SdAssumption DEF SignalsOn
  <2> QED
    BY <1>5, <2>1 DEF SdIntConnect, sdMonitor, sdSlot
<1>6. CASE SdPresent
  BY <1>6 DEF SdPresent, sdMonitor, sdSlot
<1>7. CASE SdErfReady \/ SdAttach \/ SdDetach \/ SdWake
  BY <1>7 DEF SdErfReady, SdAttach, SdDetach, SdWake, SdGoto, sdSetup, sdSlot
<1>8. CASE SdPollStatus
  <2>1. 0 \in 0..SdMaxTarget
    BY SdAssumption
  <2>2. sdMon' \in {"poll", "announce", "remove"}
    BY <1>8 DEF SdPollStatus, SdGoto, RemoveAlways
  <2> QED
    BY <1>8, <2>1, <2>2 DEF SdPollStatus, sdSetup, sdSlot
<1>9. CASE SdAnnounce
  <2>1. sdList' \in Seq(Nat)
    <3>1. CASE UNCHANGED sdList
      BY <3>1
    <3>2. CASE \E n \in 1..SdTargets : sdList' = sdList \o [k \in 1..n |-> sdCard]
      <4>1. PICK n \in 1..SdTargets : sdList' = sdList \o [k \in 1..n |-> sdCard]
        BY <3>2
      <4>2. [k \in 1..n |-> sdCard] \in Seq(Nat)
        BY SdAssumption
      <4> QED
        BY <4>1, <4>2
    <3> QED
      BY <1>9, <3>1, <3>2 DEF SdAnnounce
  <2> QED
    BY <1>9, <2>1 DEF SdAnnounce, SdGoto, sdSetup, sdSlot
<1>10. CASE SdRemove
  <2>1. sdList # <<>> /\ sdList \in Seq(Nat)
    BY <1>10 DEF SdRemove, More
  <2>2. Tail(sdList) \in Seq(Nat) /\ (Len(sdList) > 1 => Tail(sdList) # <<>>)
    BY <2>1
  <2>3. sdI' \in 0..SdMaxTarget
    BY <1>10, SdAssumption DEF SdRemove, More
  <2>4. sdNext' \in BOOLEAN /\ (sdNext' => Len(sdList) > 1)
    <3>1. sdNext' = (Len(sdList) > 1) \/ sdNext' = FALSE
      BY <1>10 DEF SdRemove
    <3> DEFINE more == Len(sdList) > 1
    <3>2. more \in BOOLEAN
      OBVIOUS
    <3>3. sdNext' = more \/ sdNext' = FALSE
      BY <3>1
    <3> HIDE DEF more, SdTypeInv, SdTypeOK
    <3>4. CASE sdNext' = more
      <4>1. sdNext' \in BOOLEAN
        BY <3>2, <3>4
      <4>2. sdNext' => more
        BY <3>4
      <4> QED
        BY <4>1, <4>2 DEF more
    <3>5. CASE sdNext' = FALSE
      BY <3>5
    <3> QED
      BY <3>3, <3>4, <3>5
  <2>5. /\ sdMon' = "remove" /\ sdList' = Tail(sdList)
        /\ UNCHANGED <<sdBoard, sdPc, sdStatEn, sdSigEn, sdGiven, sdErf, sdAttached,
                       sdCard, sdCards>>
    BY <1>10 DEF SdRemove, SdGoto, sdSetup, sdSlot
  <2> QED
    BY <2>2, <2>3, <2>4, <2>5
<1>11. CASE SdCardIn
  <2>1. sdCards + 1 \in Nat
    OBVIOUS
  <2> QED
    BY <1>11, <2>1 DEF SdCardIn, sdSetup, sdMonitor
<1>12. CASE SdCardOut
  <2>1. 0 \in Nat
    OBVIOUS
  <2> QED
    BY <1>12, <2>1 DEF SdCardOut, sdSetup, sdMonitor
<1>13. CASE SdErfInit
  BY <1>13 DEF SdErfInit, sdSetup, sdMonitor, sdSlot
<1> QED
  BY <1>1, <1>2, <1>3, <1>4, <1>5, <1>6, <1>7, <1>8, <1>9, <1>10, <1>11,
     <1>12, <1>13
     DEF SdNext, SdConnectStep, SdMonitorStep

\* The variables of the SD host controller stay in their types; in particular, the
\* removal loop never takes a device off an empty list.
THEOREM SdTyped == SdInit /\ [][SdNext]_sdVars => []SdTypeOK
<1>1. SdInit => SdTypeInv
  <2> SUFFICES ASSUME SdInit PROVE SdTypeInv
    OBVIOUS
  <2>1. sdList \in Seq(Nat) /\ sdI \in 0..SdMaxTarget /\ sdCard \in Nat /\ sdCards \in Nat
    BY SdAssumption DEF SdInit
  <2>2. /\ sdSigEn \in BOOLEAN /\ sdGiven \in BOOLEAN /\ sdErf \in BOOLEAN
        /\ sdAttached \in BOOLEAN /\ sdNext \in BOOLEAN
    BY DEF SdInit
  <2> QED
    BY <2>1, <2>2 DEF SdInit, SdTypeInv, SdTypeOK
<1>2. SdTypeInv => SdTypeOK
  BY DEF SdTypeInv
<1> QED
  BY <1>1, <1>2, SdTypeStep, PTL
=============================================================================
