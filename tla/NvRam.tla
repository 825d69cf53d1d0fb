-------------------------------- MODULE NvRam --------------------------------
(***************************************************************************)
(* Non-volatile RAM in a file (sysNvRam.c): sysNvRamGet waits once for the *)
(* file system to be mounted, sysNvRamSet creates the file and writes in   *)
(* place.  Files, which may fail and write short, and the reset, which     *)
(* only the file survives, are external.                                   *)
(***************************************************************************)
EXTENDS Integers, Sequences

CONSTANTS
  NvTasks,     \* callers
  NvSize,      \* NV_RAM_SIZE
  NvIntMax,    \* greatest int: a greater sum wraps
  NvStrings,   \* strings to be set
  NvOffsets,   \* offsets asked for
  NvMaxSets,   \* bound: calls of sysNvRamSet
  NvMaxFaults  \* bound: resets, and failures of lseek, read and write

NUMBER_OF_ATTEMPTS == 2
EOS == 0
NoFile == <<-1>>

ASSUME NvAssumption ==
  /\ NvSize \in Nat /\ NvIntMax \in Nat
  /\ \A s \in NvStrings : s \in Seq(Nat \ {EOS})
  /\ NvOffsets \subseteq Int
  /\ NvMaxSets \in Nat /\ NvMaxFaults \in Nat

VARIABLES
  nvFile,     \* the file's bytes, or NoFile
  nvMounted,  \* the file system is mounted
  nvPc,       \* of each task: "idle", "open", "delay" or "io"
  nvCall,     \* its call: [op, str, off]; strLen is Len(str)
  nvTries,    \* unsuccessfulAttempts
  nvGot,      \* the last Get that answered OK: [strLen, str]
  nvAcked,    \* the last Set that answered OK, if none has begun since
  nvSets,     \* calls of Set left
  nvFaults    \* faults left

nvTasks == <<nvPc, nvCall, nvTries>>
nvVars == <<nvFile, nvMounted, nvTasks, nvGot, nvAcked, nvSets, nvFaults>>

NoNvCall == [op |-> "none", str |-> <<>>, off |-> 0]

NvInit ==
  /\ nvFile = NoFile /\ nvMounted = FALSE
  /\ nvPc = [t \in NvTasks |-> "idle"]
  /\ nvCall = [t \in NvTasks |-> NoNvCall]
  /\ nvTries = [t \in NvTasks |-> 0]
  /\ nvGot = [strLen |-> 0, str |-> <<>>]
  /\ nvAcked = NoNvCall
  /\ nvSets = NvMaxSets /\ nvFaults = NvMaxFaults
-----------------------------------------------------------------------------
NvSum(a, b) == IF a + b > NvIntMax THEN a + b - 2 * (NvIntMax + 1) ELSE a + b
NvOutside(off, strLen) == off < 0 \/ strLen < 0 \/ NvSum(off, strLen) > NvSize

\* A task that is idle again has left its call.
NvGoto(t, l) == /\ nvPc' = [nvPc EXCEPT ![t] = l]
                /\ nvCall' = IF l = "idle" THEN [nvCall EXCEPT ![t] = NoNvCall] ELSE nvCall
NvFault == nvFaults > 0 /\ nvFaults' = nvFaults - 1

\* A call outside the range answers ERROR at once and is no step.
NvBegin(t, op, s, off) ==
  /\ nvPc[t] = "idle" /\ ~NvOutside(off, Len(s))
  /\ nvCall' = [nvCall EXCEPT ![t] = [op |-> op, str |-> s, off |-> off]]
  /\ nvTries' = [nvTries EXCEPT ![t] = 0]
  /\ nvPc' = [nvPc EXCEPT ![t] = "open"]
  /\ \/ op = "get" /\ UNCHANGED <<nvAcked, nvSets>>
     \/ op = "set" /\ nvSets > 0 /\ nvSets' = nvSets - 1 /\ nvAcked' = NoNvCall
  /\ UNCHANGED <<nvFile, nvMounted, nvGot, nvFaults>>

\* Get opens what is there, a second time after a delay.
NvOpenGet(t) ==
  /\ nvPc[t] = "open" /\ nvCall[t].op = "get"
  /\ \/ /\ nvMounted /\ nvFile # NoFile
        /\ NvGoto(t, "io") /\ UNCHANGED nvTries
     \/ /\ ~nvMounted \/ nvFile = NoFile
        /\ nvTries' = [nvTries EXCEPT ![t] = @ + 1]
        /\ NvGoto(t, IF nvTries'[t] < NUMBER_OF_ATTEMPTS THEN "delay" ELSE "idle")
  /\ UNCHANGED <<nvFile, nvMounted, nvGot, nvAcked, nvSets, nvFaults>>

NvDelayed(t) ==
  /\ nvPc[t] = "delay"
  /\ NvGoto(t, "open")
  /\ UNCHANGED <<nvFile, nvMounted, nvTries, nvGot, nvAcked, nvSets, nvFaults>>

\* Set opens with O_CREAT.
NvOpenSet(t) ==
  /\ nvPc[t] = "open" /\ nvCall[t].op = "set"
  /\ nvFile' = IF nvMounted /\ nvFile = NoFile THEN <<>> ELSE nvFile
  /\ NvGoto(t, IF nvMounted THEN "io" ELSE "idle")
  /\ UNCHANGED <<nvMounted, nvTries, nvGot, nvAcked, nvSets, nvFaults>>

\* lseek, read, EOS behind what was read, close.
NvBytes(off, n) ==
  SubSeq(nvFile, off + 1, IF off + n < Len(nvFile) THEN off + n ELSE Len(nvFile))
NvRead(t) ==
  /\ nvPc[t] = "io" /\ nvCall[t].op = "get"
  /\ nvGot' = [strLen |-> Len(nvCall[t].str),
               str |-> NvBytes(nvCall[t].off, Len(nvCall[t].str)) \o <<EOS>>]
  /\ NvGoto(t, "idle")
  /\ UNCHANGED <<nvFile, nvMounted, nvTries, nvAcked, nvSets, nvFaults>>

\* lseek, write of n bytes, close; a gap before them reads as zeros.
NvWritten(file, c, n) ==
  [k \in 1..(IF n > 0 /\ c.off + n > Len(file) THEN c.off + n ELSE Len(file)) |->
     IF k \in (c.off + 1)..(c.off + n) THEN c.str[k - c.off]
     ELSE IF k <= Len(file) THEN file[k] ELSE 0]
AnyWrite(n, strLen) == TRUE
FullWrite(n, strLen) == n = strLen
NvWrite(t) ==
  /\ nvPc[t] = "io" /\ nvCall[t].op = "set"
  /\ \E n \in 0..Len(nvCall[t].str) :
       /\ n < Len(nvCall[t].str) => nvFaults > 0
       /\ nvFaults' = IF n < Len(nvCall[t].str) THEN nvFaults - 1 ELSE nvFaults
       /\ nvFile' = NvWritten(nvFile, nvCall[t], n)
       /\ nvAcked' = IF FullWrite(n, Len(nvCall[t].str))
                          /\ \A u \in NvTasks \ {t} : nvPc[u] = "idle" \/ nvCall[u].op = "get"
                     THEN nvCall[t] ELSE NoNvCall
  /\ NvGoto(t, "idle")
  /\ UNCHANGED <<nvMounted, nvTries, nvGot, nvSets>>

\* lseek or read fails: ERROR, and nothing is stored.
NvIoError(t) ==
  /\ nvPc[t] = "io" /\ NvFault
  /\ NvGoto(t, "idle")
  /\ UNCHANGED <<nvFile, nvMounted, nvTries, nvGot, nvAcked, nvSets>>

NvMount ==
  /\ ~nvMounted
  /\ nvMounted' = TRUE
  /\ UNCHANGED <<nvFile, nvTasks, nvGot, nvAcked, nvSets, nvFaults>>

\* A reset ends every call; a write under way has put down some of its bytes.
NvReset ==
  /\ NvFault
  /\ \/ UNCHANGED nvFile
     \/ \E t \in NvTasks :
          /\ nvPc[t] = "io" /\ nvCall[t].op = "set"
          /\ \E n \in 0..Len(nvCall[t].str) : nvFile' = NvWritten(nvFile, nvCall[t], n)
  /\ nvMounted' = FALSE
  /\ nvPc' = [t \in NvTasks |-> "idle"]
  /\ nvCall' = [t \in NvTasks |-> NoNvCall]
  /\ UNCHANGED <<nvTries, nvGot, nvAcked, nvSets>>

NvNext ==
  \/ \E t \in NvTasks :
       \/ \E op \in {"get", "set"}, s \in NvStrings, off \in NvOffsets : NvBegin(t, op, s, off)
       \/ NvOpenGet(t) \/ NvDelayed(t) \/ NvOpenSet(t)
       \/ NvRead(t) \/ NvWrite(t) \/ NvIoError(t)
  \/ NvMount
  \/ NvReset

NvSpec == NvInit /\ [][NvNext]_nvVars
-----------------------------------------------------------------------------
(* Properties.                                                             *)

NvCalls == [op : {"none", "get", "set"}, str : NvStrings \cup {<<>>}, off : Int]

\* Every variable stays in its type.
NvTypeOK ==
  /\ nvFile = NoFile \/ nvFile \in Seq(Nat)
  /\ nvMounted \in BOOLEAN
  /\ nvPc \in [NvTasks -> {"idle", "open", "delay", "io"}]
  /\ nvCall \in [NvTasks -> NvCalls]
  /\ nvTries \in [NvTasks -> 0..NUMBER_OF_ATTEMPTS]
  /\ nvGot \in [strLen : Nat, str : Seq(Nat)]
  /\ nvAcked \in NvCalls
  /\ nvSets \in Nat /\ nvFaults \in Nat

\* What a Set that answered OK has written stays in the file, across resets and
\* failing calls, until another Set is begun (lines 139 to 161): a short write, of
\* a full disk, must not count as OK.
NvAcknowledged ==
  nvAcked # NoNvCall
    => nvFile # NoFile /\ NvBytes(nvAcked.off, Len(nvAcked.str)) = nvAcked.str

\* "maximum number of bytes to copy" (line 60): a Get stores no more than strLen.
NvGetFits == Len(nvGot.str) <= nvGot.strLen

\* "ERROR if access is outside the non-volatile RAM range" (lines 53 and 119).
NvInRange == \A t \in NvTasks : nvPc[t] # "idle" => nvCall[t].off + Len(nvCall[t].str) <= NvSize

\* A boot line is never half an old one and half a new one.
NvOldOrNew == Len(nvGot.str) = nvGot.strLen + 1 /\ nvGot.strLen > 0
                => SubSeq(nvGot.str, 1, nvGot.strLen) \in NvStrings
=============================================================================
