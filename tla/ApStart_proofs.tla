---------------------------- MODULE ApStart_proofs ----------------------------
(***************************************************************************)
(* Proofs about ApStart, for any number of processors, callers and calls.  *)
(***************************************************************************)
EXTENDS ApStart, SequenceTheorems, TLAPS

-----------------------------------------------------------------------------
(* Plans of a caller.                                                      *)

Routines == {"start", "stop", "reset"}
PlanType == Seq(Routines \X APs)

\* A routine at the head of a plan concerns a processor of the plan, and what
\* is left of a plan concerns no further one.
LEMMA HeadAndTail ==
  ASSUME NEW p \in PlanType, p # <<>>
  PROVE  /\ Head(p) \in Routines \X APs
         /\ Head(p)[1] \in Routines /\ Head(p)[2] \in APs
         /\ Tail(p) \in PlanType
         /\ Len(p) \in Nat \ {0} /\ (Len(p) = 1 <=> Tail(p) = <<>>)
         /\ Head(p)[2] \in Touched(p)
         /\ Head(p)[1] = "start" => Starts(p)
         /\ Touched(Tail(p)) \subseteq Touched(p)
         /\ Starts(Tail(p)) => Starts(p)
<1>1. Len(p) \in Nat \ {0} /\ Head(p) = p[1] /\ DOMAIN p = 1..Len(p)
  BY EmptySeq DEF PlanType
<1>2. Head(p) \in Routines \X APs
  BY <1>1 DEF PlanType
<1>3. Tail(p) \in PlanType /\ Len(Tail(p)) = Len(p) - 1
  BY <1>1 DEF PlanType
<1>4. \A k \in DOMAIN Tail(p) : k + 1 \in DOMAIN p /\ Tail(p)[k] = p[k + 1]
  BY <1>1, <1>3 DEF PlanType
<1>5. Len(p) = 1 <=> Tail(p) = <<>>
  <2>1. Tail(p) # <<>> => Len(Tail(p)) \in Nat \ {0}
    BY <1>3, EmptySeq DEF PlanType
  <2>2. Tail(p) = <<>> => Len(Tail(p)) = 0
    BY EmptySeq
  <2> QED
    BY <1>1, <1>3, <2>1, <2>2
<1>6. Head(p)[2] \in Touched(p) /\ (Head(p)[1] = "start" => Starts(p))
  BY <1>1 DEF Touched, Starts
<1>7. Touched(Tail(p)) \subseteq Touched(p)
  BY <1>4 DEF Touched
<1>8. Starts(Tail(p)) => Starts(p)
  BY <1>4 DEF Starts
<1> QED
  BY <1>1, <1>2, <1>3, <1>5, <1>6, <1>7, <1>8

\* An empty plan concerns nothing.
LEMMA EmptyPlan == Touched(<<>>) = {} /\ ~Starts(<<>>)
  BY DEF Touched, Starts

\* What a caller may be asked to do is a plan of one routine or more.
LEMMA PlansArePlans ==
  ASSUME NEW p \in Plans
  PROVE  p \in PlanType /\ p # <<>>
<1>1. ASSUME NEW x \in Routines \X APs, p = <<x>>
      PROVE  p \in PlanType /\ p # <<>>
  BY <1>1 DEF PlanType
<1>4. ASSUME NEW i \in APs, p = ReEnable(i)
      PROVE  p \in PlanType /\ p # <<>>
  <2>1. PICK x \in Routines \X APs, y \in Routines \X APs, z \in Routines \X APs :
          p = <<x, y, z>>
    BY <1>4 DEF ReEnable, Routines
  <2> QED
    BY <2>1 DEF PlanType
<1>2. ASSUME NEW r \in Routines, p = ToAll(r)
      PROVE  p \in PlanType /\ p # <<>>
  <2>1. NumCpus - 1 \in Nat \ {0}
    BY ApAssumption
  <2>2. p \in [1..(NumCpus - 1) -> Routines \X APs]
    BY <1>2 DEF ToAll, APs
  <2>3. p \in PlanType
    BY <2>1, <2>2, SeqDef DEF PlanType
  <2>4. 1 \in DOMAIN p
    <3>1. DOMAIN p = 1..(NumCpus - 1)
      BY <2>2
    <3>2. 1 \in 1..(NumCpus - 1)
      BY ApAssumption
    <3> QED
      BY <3>1, <3>2
  <2>5. p # <<>>
    BY <2>4
  <2> QED
    BY <2>3, <2>5
<1>3. \/ \E r \in Routines, i \in APs : p = <<<<r, i>>>>
      \/ \E i \in APs : p = ReEnable(i)
      \/ p = ToAll("stop")
      \/ p = ToAll("reset")
  BY DEF Plans, Routines
<1> QED
  BY <1>1, <1>2, <1>3, <1>4 DEF Routines

-----------------------------------------------------------------------------
(* Type correctness.                                                       *)

\* Going to a label of a call, or ending a routine, keeps plans and labels.
LEMMA GotoType ==
  ASSUME TypeOK, NEW c \in Callers, NEW l \in Labels \ Ended, at[c] \notin Ended,
         Goto(c, l)
  PROVE  /\ plan' \in [Callers -> PlanType] /\ at' \in [Callers -> Labels]
         /\ \A d \in Callers : at'[d] \in Ended <=> plan'[d] = <<>>
  BY DEF TypeOK, Goto, Set, PlanType, Routines, Ended

\* Returning from a routine takes it off the plan; the last one ends the call.
LEMMA ReturnType ==
  ASSUME TypeOK, NEW c \in Callers, at[c] \notin Ended, Return(c)
  PROVE  /\ plan' \in [Callers -> PlanType] /\ at' \in [Callers -> Labels]
         /\ \A d \in Callers : at'[d] \in Ended <=> plan'[d] = <<>>
<1>1. plan \in [Callers -> PlanType] /\ at \in [Callers -> Labels]
  BY DEF TypeOK, PlanType, Routines
<1>2. plan[c] # <<>> /\ plan[c] \in PlanType
  BY <1>1 DEF TypeOK
<1>3. Tail(plan[c]) \in PlanType /\ (Len(plan[c]) = 1 <=> Tail(plan[c]) = <<>>)
  BY <1>2, HeadAndTail
<1> QED
  BY <1>1, <1>3 DEF TypeOK, Return, Set, Labels, Ended

\* A task that faults drops its plan.
LEMMA FaultType ==
  ASSUME TypeOK, NEW c \in Callers, NEW l \in Ended, Fault(c, l)
  PROVE  /\ plan' \in [Callers -> PlanType] /\ at' \in [Callers -> Labels]
         /\ \A d \in Callers : at'[d] \in Ended <=> plan'[d] = <<>>
<1>1. <<>> \in PlanType /\ l \in Labels
  BY EmptySeq DEF PlanType, Ended, Labels
<1> QED
  BY <1>1 DEF TypeOK, Fault, Set, PlanType, Routines

\* The processor of a caller that is in a call.
LEMMA CpuType ==
  ASSUME TypeOK, NEW c \in Callers, at[c] \notin Ended
  PROVE  /\ Cpu(c) \in APs /\ Routine(c) \in Routines
         /\ Cpu(c) \in Touched(plan[c])
         /\ Routine(c) = "start" => Starts(plan[c])
<1>1. plan[c] \in PlanType /\ plan[c] # <<>>
  BY DEF TypeOK, PlanType, Routines
<1> QED
  BY <1>1, HeadAndTail DEF Cpu, Routine

\* The initial state has the types.
LEMMA InitType == Init => TypeOK
<1> SUFFICES ASSUME Init PROVE TypeOK
  OBVIOUS
<1>1. plan \in [Callers -> PlanType] /\ \A c \in Callers : plan[c] = <<>>
  BY EmptySeq DEF Init, PlanType
<1>2. ap \in [APs -> ApStates]
  BY DEF Init, ApStates
<1>3. at \in [Callers -> Labels] /\ \A c \in Callers : at[c] = "idle"
  BY DEF Init, Labels
<1>4. calls \in 0..MaxCalls
  BY ApAssumption DEF Init
<1> QED
  BY <1>1, <1>2, <1>3, <1>4 DEF Init, TypeOK, PlanType, Routines, Ended

\* What a step of a caller leaves in its plan and its place in it.
LEMMA CallerPlan ==
  ASSUME TypeOK, NEW c \in Callers, Step(c)
  PROVE  /\ at[c] \notin Ended /\ Cpu(c) \in APs
         /\ plan' \in [Callers -> Seq({"start", "stop", "reset"} \X APs)]
         /\ at' \in [Callers -> Labels]
         /\ \A d \in Callers : at'[d] \in Ended <=> plan'[d] = <<>>
<1>1. /\ at[c] \notin Ended
      /\ Labels \ Ended = {"next", "ipi", "copy", "fill", "map", "startup", "wait",
                          "restore", "unmap"}
      /\ {"nomap", "fault"} \subseteq Ended
  BY DEF Step, StopOrReset, StopIpi, ResetIpi, KernelRefuses, CpuEnable, StartCopy,
         StartFill, StartMap, StartIpi, StartWait, StartRestore, StartUnmap, Labels, Ended
<1>2. \/ \E l \in Labels \ Ended : Goto(c, l)
      \/ Return(c)
      \/ \E l \in Ended : Fault(c, l)
  BY <1>1 DEF Step, StopOrReset, StopIpi, ResetIpi, KernelRefuses, CpuEnable,
       StartCopy, StartFill, StartMap, StartIpi, StartWait, StartRestore, StartUnmap
<1> QED
  BY <1>1, <1>2, GotoType, ReturnType, FaultType, CpuType DEF PlanType, Routines

\* A step of a caller keeps the types.
LEMMA CallerType ==
  ASSUME TypeOK, NEW c \in Callers, Step(c)
  PROVE  TypeOK'
<1>0. /\ Cpu(c) \in APs
      /\ plan' \in [Callers -> Seq({"start", "stop", "reset"} \X APs)]
      /\ at' \in [Callers -> Labels]
      /\ \A d \in Callers : at'[d] \in Ended <=> plan'[d] = <<>>
  BY CallerPlan
<1>1. CASE StopOrReset(c)
  BY <1>0, <1>1 DEF TypeOK, StopOrReset, cpus, ClearBit
<1>2. CASE StopIpi(c)
  BY <1>0, <1>2 DEF TypeOK, StopIpi, shared
<1>3. CASE ResetIpi(c)
  BY <1>0, <1>3 DEF TypeOK, ResetIpi, shared, Set, ApStates
<1>4. CASE KernelRefuses(c)
  BY <1>0, <1>4 DEF TypeOK, KernelRefuses, shared, cpus
<1>5. CASE CpuEnable(c)
  <2>1. gdt' \subseteq APs /\ tss' \subseteq APs
    BY <1>0, <1>5 DEF CpuEnable, StateInit, StateInitFails, TypeOK
  <2>2. table' \subseteq APs /\ status' \in [Callers -> {"OK", "ERROR"}]
    BY <1>0, <1>5 DEF CpuEnable, Set, TypeOK
  <2>3. UNCHANGED <<enabled, scratch, vector, page0, cpus, saved, calls>>
    BY <1>5 DEF CpuEnable
  <2> QED
    BY <1>0, <2>1, <2>2, <2>3 DEF TypeOK, cpus
<1>6. CASE StartCopy(c)
  BY <1>0, <1>6 DEF TypeOK, StartCopy, cpus
<1>7. CASE StartFill(c)
  BY <1>0, <1>7 DEF TypeOK, StartFill, cpus
<1>8. CASE StartMap(c)
  BY <1>0, <1>8 DEF TypeOK, StartMap, cpus, Set
<1>9. CASE StartIpi(c)
  BY <1>0, <1>9 DEF TypeOK, StartIpi, shared, Set, ApStates
<1>10. CASE StartWait(c)
  BY <1>0, <1>10 DEF TypeOK, StartWait, shared, cpus
<1>11. CASE StartRestore(c)
  BY <1>0, <1>11 DEF TypeOK, StartRestore, cpus, Set, StatusAfter, VectorAfter
<1>12. CASE StartUnmap(c)
  BY <1>0, <1>12 DEF TypeOK, StartUnmap, cpus
<1> QED
  BY <1>1, <1>2, <1>3, <1>4, <1>5, <1>6, <1>7, <1>8, <1>9, <1>10, <1>11, <1>12 DEF Step

\* So do a call and a step of a processor.
LEMMA OtherType ==
  ASSUME TypeOK,
         \/ \E c \in Callers, p \in Plans : Call(c, p)
         \/ \E i \in APs : Processor(i)
         \/ UNCHANGED vars
  PROVE  TypeOK'
<1>1. ASSUME NEW c \in Callers, NEW p \in Plans, Call(c, p)
      PROVE  TypeOK'
  <2>1. p \in PlanType /\ p # <<>>
    BY PlansArePlans
  <2> QED
    BY <1>1, <2>1, ApAssumption
       DEF Call, TypeOK, shared, cpus, Set, Labels, Ended, PlanType, Routines
<1>2. ASSUME NEW i \in APs, Processor(i)
      PROVE  TypeOK'
  <2>1. CASE ApTrampoline(i)
    BY <2>1 DEF ApTrampoline, TypeOK, shared, locals, Set, ApStates
  <2>2. CASE ApCpuInit(i)
    BY <2>2 DEF ApCpuInit, TypeOK, shared, locals, Set, ApStates
  <2>3. CASE ApEnter(i)
    BY <2>3 DEF ApEnter, TypeOK, locals, Set, ApStates
  <2>4. CASE ApHalt(i)
    BY <2>4 DEF ApHalt, TypeOK, shared, locals, Set, ApStates
  <2> QED
    BY <1>2, <2>1, <2>2, <2>3, <2>4 DEF Processor
<1>3. CASE UNCHANGED vars
  BY <1>3 DEF vars, shared, cpus, locals, TypeOK
<1> QED
  BY <1>1, <1>2, <1>3

\* The variables of ApStart stay in their ranges, whatever plans the callers
\* follow through sysCpuEnable, sysCpuStop and sysCpuReset.
THEOREM TypeCorrect == Spec => []TypeOK
<1>1. TypeOK /\ [Next]_vars => TypeOK'
  BY CallerType, OtherType DEF Next
<1> QED
  BY <1>1, InitType, PTL DEF Spec

-----------------------------------------------------------------------------
(* One start at a time.                                                    *)

\* Processors answer within the time a start waits, and the kernel makes one
\* start after the other and has two tasks work on different processors.
Orderly == Faults \cap {"late", "overlap", "share"} = {}

\* No two callers work on one processor, and only one of them starts any.
Disjoint ==
  \A c, d \in Callers : c # d =>
    /\ Touched(plan[c]) \cap Touched(plan[d]) = {}
    /\ ~(Starts(plan[c]) /\ Starts(plan[d]))

Placed ==
  \A c \in Callers : /\ at[c] # "fault"
                     /\ at[c] \in Starting => Routine(c) = "start"
                     /\ at[c] = "ipi" => Routine(c) \in {"stop", "reset"}

\* What a start has done to the shared resources, by the place it is at.
StartAt(c) ==
  /\ at[c] \in Starting => Cpu(c) \in gdt \cap tss
  /\ at[c] \in {"map", "startup", "wait", "restore", "unmap"} => scratch = Cpu(c)
  /\ at[c] \in {"copy", "fill", "map", "startup"} => Cpu(c) \notin enabled
  /\ at[c] \in {"copy", "fill", "map"} => vector = "boot" /\ ~page0
  /\ at[c] \in {"startup", "wait", "restore"} =>
       vector = "trampoline" /\ page0 /\ saved[c] = "boot"
  /\ at[c] = "unmap" => vector = "boot" /\ (status[c] = "OK" => Cpu(c) \in enabled)

StartInv == \A c \in Callers : StartAt(c)

\* A processor that is coming is waited for, and can not be told to stop.
Awaited ==
  \A i \in APs : ap[i] \in Coming =>
    i \notin halting /\ \E c \in Callers : at[c] = "wait" /\ Cpu(c) = i

Descriptors ==
  \A i \in APs : ap[i] \in {"tramp", "init", "entry", "run"} => i \in gdt \cap tss
OwnStack == \A i \in APs : ap[i] \in {"init", "entry", "run"} => stack[i] = i
HaltingRuns == \A i \in halting : ap[i] = "run"

ApInv == /\ TypeOK /\ Disjoint /\ Placed /\ StartInv /\ Awaited
         /\ Descriptors /\ OwnStack /\ HaltingRuns /\ EnabledRuns /\ VectorRestored
-----------------------------------------------------------------------------
(* How a step of a caller moves it along its plan.                         *)

\* Callers in a call are at different processors, and one of them starts.
LEMMA Exclusive ==
  ASSUME TypeOK, Disjoint, Placed, NEW c \in Callers, NEW d \in Callers, c # d
  PROVE  /\ at[c] \notin Ended /\ at[d] \notin Ended => Cpu(c) # Cpu(d)
         /\ at[c] \in Starting => at[d] \notin Starting
         /\ at[c] \notin Ended /\ Routine(c) = "start" => at[d] \notin Starting
<1>1. ASSUME at[c] \notin Ended, at[d] \notin Ended
      PROVE  Cpu(c) # Cpu(d)
  BY <1>1, CpuType DEF Disjoint
<1>2. ASSUME at[c] \notin Ended, Routine(c) = "start"
      PROVE  at[d] \notin Starting
  <2> SUFFICES ASSUME at[d] \in Starting PROVE FALSE
    OBVIOUS
  <2>1. at[d] \notin Ended /\ Routine(d) = "start"
    BY DEF Placed, Starting, Ended
  <2> QED
    BY <1>2, <2>1, CpuType DEF Disjoint
<1>3. at[c] \in Starting => at[c] \notin Ended /\ Routine(c) = "start"
  BY DEF Placed, Starting, Ended
<1> QED
  BY <1>1, <1>2, <1>3

\* A task that faults leaves the others to go on, with less in their way.
LEMMA FaultFrame ==
  ASSUME TypeOK, NEW c \in Callers, NEW l \in Ended, Fault(c, l)
  PROVE  /\ at'[c] = l
         /\ \A d \in Callers \ {c} : /\ at'[d] = at[d]
                                     /\ Cpu(d)' = Cpu(d) /\ Routine(d)' = Routine(d)
         /\ Disjoint => Disjoint'
<1>1. plan'[c] = <<>> /\ \A d \in Callers \ {c} : plan'[d] = plan[d]
  BY DEF TypeOK, Fault, Set
<1>2. Disjoint => Disjoint'
  BY <1>1, EmptyPlan DEF Disjoint
<1> QED
  BY <1>1, <1>2 DEF TypeOK, Fault, Set, Cpu, Routine

\* Going to a label moves nobody else and changes no plan.
LEMMA GotoFrame ==
  ASSUME TypeOK, NEW c \in Callers, NEW l \in Labels, Goto(c, l)
  PROVE  /\ at'[c] = l
         /\ \A d \in Callers : Cpu(d)' = Cpu(d) /\ Routine(d)' = Routine(d)
         /\ \A d \in Callers \ {c} : at'[d] = at[d]
         /\ Disjoint => Disjoint'
  BY DEF TypeOK, Goto, Set, Cpu, Routine, Disjoint

\* Returning moves nobody else and leaves plans as far apart as they were.
LEMMA ReturnFrame ==
  ASSUME TypeOK, NEW c \in Callers, at[c] \notin Ended, Return(c)
  PROVE  /\ at'[c] \in {"idle", "next"}
         /\ \A d \in Callers \ {c} : /\ at'[d] = at[d]
                                     /\ Cpu(d)' = Cpu(d) /\ Routine(d)' = Routine(d)
         /\ Disjoint => Disjoint'
<1>1. plan \in [Callers -> PlanType] /\ at \in [Callers -> Labels]
  BY DEF TypeOK, PlanType, Routines
<1>2. plan[c] # <<>> /\ plan[c] \in PlanType
  BY <1>1 DEF TypeOK
<1>3. plan' = [plan EXCEPT ![c] = Tail(plan[c])]
  BY DEF Return, Set
<1>4. /\ at'[c] \in {"idle", "next"}
      /\ \A d \in Callers \ {c} : at'[d] = at[d]
  BY <1>1 DEF Return, Set
<1>5. \A d \in Callers \ {c} : plan'[d] = plan[d]
  BY <1>1, <1>3
<1>6. /\ Touched(plan'[c]) \subseteq Touched(plan[c])
      /\ Starts(plan'[c]) => Starts(plan[c])
  BY <1>1, <1>2, <1>3, HeadAndTail
<1>7. Disjoint => Disjoint'
  BY <1>5, <1>6 DEF Disjoint
<1> QED
  BY <1>4, <1>5, <1>7 DEF Cpu, Routine

\* A step moves one caller only, to a label or to the end of its routine, and
\* leaves plans apart.
LEMMA CallerFrame ==
  ASSUME TypeOK, Disjoint, Placed, StartInv, NEW c \in Callers, Step(c)
  PROVE  /\ Disjoint' /\ Placed'
         /\ \A d \in Callers \ {c} : at'[d] = at[d] /\ Cpu(d)' = Cpu(d)
<1>1. at[c] \notin Ended
  BY CallerPlan
<1>2. ASSUME Return(c)
      PROVE  /\ Disjoint' /\ Placed'
             /\ \A d \in Callers \ {c} : at'[d] = at[d] /\ Cpu(d)' = Cpu(d)
  BY <1>1, <1>2, ReturnFrame DEF Placed, Starting
<1>5. ASSUME Fault(c, "nomap")
      PROVE  /\ Disjoint' /\ Placed'
             /\ \A d \in Callers \ {c} : at'[d] = at[d] /\ Cpu(d)' = Cpu(d)
  BY <1>5, FaultFrame DEF Placed, Starting, Ended
<1>3. ASSUME NEW l \in Labels \ Ended, Goto(c, l),
             l \in Starting => Routine(c) = "start",
             l = "ipi" => Routine(c) \in {"stop", "reset"}
      PROVE  /\ Disjoint' /\ Placed'
             /\ \A d \in Callers \ {c} : at'[d] = at[d] /\ Cpu(d)' = Cpu(d)
  BY <1>3, GotoFrame DEF Placed, Ended
<1>4. \/ Return(c)
      \/ Fault(c, "nomap")
      \/ \E l \in Labels \ Ended :
           /\ Goto(c, l)
           /\ l \in Starting => Routine(c) = "start"
           /\ l = "ipi" => Routine(c) \in {"stop", "reset"}
  <2>1. /\ at[c] \in Starting => Routine(c) = "start"
        /\ at[c] = "restore" => page0
    BY DEF Placed, StartInv, StartAt
  <2>2. CASE StopOrReset(c)
    BY <2>2 DEF StopOrReset, Labels, Starting, Ended
  <2>3. CASE StopIpi(c) \/ ResetIpi(c) \/ KernelRefuses(c) \/ StartUnmap(c)
    BY <2>3 DEF StopIpi, ResetIpi, KernelRefuses, StartUnmap
  <2>4. CASE CpuEnable(c)
    BY <2>4 DEF CpuEnable, Labels, Ended
  <2>5. CASE StartCopy(c) \/ StartFill(c) \/ StartMap(c)
    BY <2>1, <2>5 DEF StartCopy, StartFill, StartMap, Labels, Starting, Ended
  <2>6. CASE StartIpi(c) \/ StartWait(c) \/ StartRestore(c)
    BY <2>1, <2>6 DEF StartIpi, StartWait, StartRestore, Labels, Starting, Ended
  <2> QED
    BY <2>2, <2>3, <2>4, <2>5, <2>6 DEF Step
<1> QED
  BY <1>2, <1>3, <1>4, <1>5

-----------------------------------------------------------------------------
(* The invariants, action by action.                                       *)

Processors == Awaited /\ Descriptors /\ OwnStack /\ HaltingRuns /\ EnabledRuns
Resources  == StartInv /\ VectorRestored

\* Steps of a caller that touch no processor.
LEMMA QuietStep ==
  ASSUME ApInv, NEW c \in Callers, at[c] \notin {"idle", "ipi"}, at'[c] # "ipi",
         \A d \in Callers \ {c} : at'[d] = at[d] /\ Cpu(d)' = Cpu(d),
         at[c] = "wait" => ap[Cpu(c)] \notin Coming,
         gdt \subseteq gdt', tss \subseteq tss', UNCHANGED <<enabled, ap, stack, halting>>
  PROVE  Processors'
<1>1. Descriptors' /\ OwnStack' /\ HaltingRuns'
  BY DEF ApInv, Descriptors, OwnStack, HaltingRuns
<1>2. Awaited'
  <2> SUFFICES ASSUME NEW i \in APs, ap[i] \in Coming
               PROVE  i \notin halting /\ \E d \in Callers : at'[d] = "wait" /\ Cpu(d)' = i
    BY DEF Awaited
  <2>1. PICK d \in Callers : at[d] = "wait" /\ Cpu(d) = i /\ i \notin halting
    BY DEF ApInv, Awaited
  <2>2. d # c
    BY <2>1
  <2> QED
    BY <2>1, <2>2
<1>3. EnabledRuns'
  <2>1. \A i \in APs : (\E d \in Callers : at'[d] = "ipi" /\ Cpu(d)' = i)
                        <=> \E d \in Callers : at[d] = "ipi" /\ Cpu(d) = i
    OBVIOUS
  <2> QED
    BY <2>1 DEF ApInv, EnabledRuns
<1> QED
  BY <1>1, <1>2, <1>3 DEF Processors

\* Steps of a caller that is not starting a processor.
LEMMA NoStartStep ==
  ASSUME ApInv, NEW c \in Callers, at[c] \notin Starting \cup Ended,
         at'[c] \notin Starting,
         \A d \in Callers \ {c} : at'[d] = at[d] /\ Cpu(d)' = Cpu(d),
         gdt \subseteq gdt', tss \subseteq tss',
         UNCHANGED <<scratch, vector, page0, saved, status>>,
         enabled' \subseteq enabled, enabled \ {Cpu(c)} \subseteq enabled'
  PROVE  Resources'
<1>1. \A d \in Callers \ {c} : at[d] \notin Ended => Cpu(d) # Cpu(c)
  BY Exclusive DEF ApInv, Ended
<1>2. StartInv'
  BY <1>1 DEF ApInv, StartInv, StartAt, Starting, Ended
<1>3. VectorRestored'
  BY DEF ApInv, VectorRestored
<1> QED
  BY <1>2, <1>3 DEF Resources

\* Steps of the one caller that is starting a processor.
LEMMA StartStep ==
  ASSUME ApInv, NEW c \in Callers,
         at[c] \in Starting \/ (at[c] = "next" /\ Routine(c) = "start"),
         \A d \in Callers \ {c} : at'[d] = at[d],
         StartAt(c)', at'[c] \in Starting \/ (vector' = "boot" /\ ~page0')
  PROVE  Resources'
<1>1. at[c] \notin Ended /\ Routine(c) = "start"
  BY DEF Starting, ApInv, Placed, Ended
<1>2. \A d \in Callers \ {c} : at[d] \notin Starting
  BY <1>1, Exclusive DEF ApInv
<1>3. \A d \in Callers \ {c} : StartAt(d)'
  BY <1>2 DEF StartAt, Starting
<1>4. StartInv'
  BY <1>3 DEF StartInv
<1>5. VectorRestored'
  BY <1>2 DEF VectorRestored
<1> QED
  BY <1>4, <1>5 DEF Resources

\* sysCpuStop and sysCpuReset, from clearing the bit to the IPI.
LEMMA StopResetInv ==
  ASSUME ApInv, NEW c \in Callers, Step(c),
         StopOrReset(c) \/ StopIpi(c) \/ ResetIpi(c)
  PROVE  ApInv'
<1>0. /\ TypeOK' /\ Disjoint' /\ Placed'
      /\ \A d \in Callers \ {c} : at'[d] = at[d] /\ Cpu(d)' = Cpu(d)
  BY CallerType, CallerFrame DEF ApInv
<1>1. PICK i \in APs : i = Cpu(c)
  BY CallerPlan DEF ApInv
<1>2. at[c] \in {"next", "ipi"}
  BY DEF StopOrReset, StopIpi, ResetIpi
<1>3. \A d \in Callers \ {c} : at[d] \notin Ended => Cpu(d) # i
  BY <1>1, <1>2, Exclusive DEF ApInv, Ended
<1>4. ap[i] \notin Coming
  BY <1>1, <1>2, <1>3 DEF ApInv, Awaited, Ended
<1>5. CASE StopOrReset(c)
  <2>1. at'[c] = "ipi" /\ Cpu(c)' = i
    BY <1>1, <1>5, GotoFrame DEF StopOrReset, ApInv, Labels
  <2>2. enabled' = enabled \ {i} /\ UNCHANGED <<ap, stack, halting, gdt, tss>>
    BY <1>1, <1>5 DEF StopOrReset, ClearBit, cpus
  <2>3. Resources'
    BY <1>0, <1>1, <1>5, <2>1, <2>2, NoStartStep DEF StopOrReset, Starting, Ended
  <2>4. Descriptors' /\ OwnStack' /\ HaltingRuns'
    BY <2>2 DEF ApInv, Descriptors, OwnStack, HaltingRuns
  <2>5. Awaited'
    BY <1>0, <1>2, <2>2 DEF ApInv, Awaited
  <2>6. EnabledRuns'
    BY <1>0, <1>1, <1>2, <2>1, <2>2, <1>5 DEF ApInv, EnabledRuns, StopOrReset
  <2> QED
    BY <1>0, <2>3, <2>4, <2>5, <2>6 DEF ApInv, Resources
<1>6. CASE StopIpi(c) \/ ResetIpi(c)
  <2>1. at[c] = "ipi" /\ at'[c] \in {"idle", "next"}
    BY <1>6, ReturnFrame DEF StopIpi, ResetIpi, ApInv, Ended
  <2>2. UNCHANGED <<shared, stack, saved, status, calls>>
    BY <1>6 DEF StopIpi, ResetIpi
  <2>3. Resources'
    BY <1>0, <2>1, <2>2, NoStartStep DEF shared, Starting, Ended
  <2>4. i \notin enabled
    BY <1>1, <2>1 DEF ApInv, EnabledRuns
  <2>5. /\ ap' \in [APs -> ApStates] /\ \A j \in APs \ {i} : ap'[j] = ap[j]
        /\ \A j \in APs \ {i} : j \in halting' <=> j \in halting
        /\ \/ ap'[i] = ap[i] /\ (i \in halting' <=> i \in halting \/ ap[i] = "run")
           \/ ap'[i] \in {"dead", "reset"} /\ i \notin halting'
    <3>1. ap[i] # "entry"
      BY <1>4 DEF Coming
    <3>2. CASE StopIpi(c)
      BY <1>1, <3>1, <3>2 DEF StopIpi, ApInv, TypeOK
    <3>3. CASE ResetIpi(c)
      BY <1>1, <3>3, <1>0 DEF ResetIpi, ApInv, TypeOK, Set
    <3> QED
      BY <1>6, <3>2, <3>3
  <2>6. Descriptors' /\ OwnStack' /\ HaltingRuns'
    BY <1>0, <2>2, <2>5 DEF ApInv, Descriptors, OwnStack, HaltingRuns, shared, TypeOK
  <2>7. Awaited'
    <3> SUFFICES ASSUME NEW j \in APs, ap'[j] \in Coming
                 PROVE  j \notin halting' /\ \E d \in Callers : at'[d] = "wait" /\ Cpu(d)' = j
      BY DEF Awaited
    <3>1. j # i
      BY <1>4, <2>5 DEF Coming
    <3>2. PICK d \in Callers : at[d] = "wait" /\ Cpu(d) = j /\ j \notin halting
      BY <2>5, <3>1 DEF ApInv, Awaited
    <3> QED
      BY <1>0, <2>1, <2>5, <3>1, <3>2
  <2>8. EnabledRuns'
    <3>1. \A j \in APs \ {i} :
            (\E d \in Callers : at'[d] = "ipi" /\ Cpu(d)' = j)
              <=> \E d \in Callers : at[d] = "ipi" /\ Cpu(d) = j
      BY <1>0, <1>1, <2>1
    <3>2. enabled' = enabled
      BY <2>2 DEF shared
    <3>3. ~(ap'[i] = "run" /\ i \notin halting')
      BY <2>5
    <3> QED
      BY <2>4, <2>5, <3>1, <3>2, <3>3 DEF ApInv, EnabledRuns
  <2> QED
    BY <1>0, <2>3, <2>6, <2>7, <2>8 DEF ApInv, Resources
<1> QED
  BY <1>5, <1>6

\* The kernel's check and vxCpuStateInit, before a start touches the shared
\* resources.
LEMMA EnableInv ==
  ASSUME ApInv, NEW c \in Callers, Step(c), KernelRefuses(c) \/ CpuEnable(c)
  PROVE  ApInv'
<1>0. /\ TypeOK' /\ Disjoint' /\ Placed'
      /\ \A d \in Callers \ {c} : at'[d] = at[d] /\ Cpu(d)' = Cpu(d)
  BY CallerType, CallerFrame DEF ApInv
<1>1. /\ at[c] = "next" /\ Routine(c) = "start"
      /\ UNCHANGED <<enabled, scratch, vector, page0, cpus, saved>>
  BY DEF KernelRefuses, CpuEnable, shared
<1>2. \A d \in Callers : at[d] \notin Starting
  BY <1>1, Exclusive DEF ApInv, Starting, Ended
<1>3. vector = "boot" /\ ~page0
  BY <1>2 DEF ApInv, VectorRestored
<1>4. gdt \subseteq gdt' /\ tss \subseteq tss'
  BY DEF KernelRefuses, CpuEnable, StateInit, StateInitFails, shared
<1>5. \/ at'[c] \in {"idle", "next"}
      \/ /\ at'[c] = "copy" /\ Cpu(c)' = Cpu(c)
         /\ Cpu(c) \notin enabled /\ Cpu(c) \in gdt' \cap tss'
  <2>1. CASE Return(c)
    BY <1>1, <2>1, ReturnFrame DEF ApInv, Ended
  <2>2. CASE Goto(c, "copy") /\ StateInit(Cpu(c)) /\ Cpu(c) \notin enabled
    BY <2>2, GotoFrame DEF ApInv, StateInit, Labels
  <2> QED
    BY <2>1, <2>2 DEF KernelRefuses, CpuEnable
<1>6. Processors'
  BY <1>0, <1>1, <1>4, <1>5, QuietStep DEF cpus
<1>7. StartAt(c)'
  BY <1>1, <1>3, <1>5 DEF StartAt, Starting
<1>8. Resources'
  BY <1>0, <1>1, <1>3, <1>7, StartStep
<1> QED
  BY <1>0, <1>6, <1>8 DEF ApInv, Processors, Resources

\* The trampoline, its scratch area and the reset vector.
LEMMA PrepareInv ==
  ASSUME ApInv, NEW c \in Callers, Step(c),
         StartCopy(c) \/ StartFill(c) \/ StartMap(c)
  PROVE  ApInv'
<1>0. /\ TypeOK' /\ Disjoint' /\ Placed'
      /\ \A d \in Callers \ {c} : at'[d] = at[d] /\ Cpu(d)' = Cpu(d)
  BY CallerType, CallerFrame DEF ApInv
<1>1. /\ at[c] \in {"copy", "fill", "map"} /\ at[c] \in Starting
      /\ UNCHANGED <<enabled, gdt, tss, cpus>>
  BY DEF StartCopy, StartFill, StartMap, Starting
<1>2. \/ at'[c] \in {"fill", "map", "startup"} /\ Cpu(c)' = Cpu(c)
      \/ at[c] = "map" /\ at'[c] = "nomap" /\ UNCHANGED <<vector, page0>>
  BY GotoFrame, FaultFrame DEF StartCopy, StartFill, StartMap, ApInv, Labels, Ended
<1>3. Processors'
  BY <1>0, <1>1, <1>2, QuietStep DEF cpus
<1>4. StartAt(c)'
  <2>1. StartAt(c)
    BY DEF ApInv, StartInv
  <2>2. CASE StartCopy(c)
    BY <1>1, <1>2, <2>1, <2>2, GotoFrame DEF StartAt, StartCopy, Starting, ApInv, Labels
  <2>3. CASE StartFill(c)
    BY <1>1, <1>2, <2>1, <2>3, GotoFrame DEF StartAt, StartFill, Starting, ApInv, Labels
  <2>4. CASE StartMap(c)
    <3>1. CASE page0'
      <4>1. at'[c] = "startup" /\ saved'[c] = "boot" /\ vector' = "trampoline"
        BY <1>1, <2>1, <2>4, <3>1, GotoFrame
           DEF StartAt, StartMap, ApInv, Labels, TypeOK, Set
      <4> QED
        BY <1>1, <1>2, <2>1, <2>4, <3>1, <4>1 DEF StartAt, StartMap, Starting
    <3>2. CASE ~page0'
      BY <2>4, <3>2, FaultFrame DEF StartMap, StartAt, Starting, ApInv, Ended
    <3> QED
      BY <3>1, <3>2
  <2> QED
    BY <2>2, <2>3, <2>4
<1>5. Resources'
  <2>1. at[c] = "map" => vector = "boot" /\ ~page0
    BY DEF ApInv, StartInv, StartAt
  <2> QED
    BY <1>0, <1>1, <1>2, <1>4, <2>1, StartStep DEF Starting
<1> QED
  BY <1>0, <1>3, <1>5 DEF ApInv, Processors, Resources

\* The startup IPI sends the processor to the trampoline.
LEMMA StartIpiInv ==
  ASSUME ApInv, NEW c \in Callers, Step(c), StartIpi(c)
  PROVE  ApInv'
<1>0. /\ TypeOK' /\ Disjoint' /\ Placed'
      /\ \A d \in Callers \ {c} : at'[d] = at[d] /\ Cpu(d)' = Cpu(d)
  BY CallerType, CallerFrame DEF ApInv
<1>1. at[c] = "startup" /\ UNCHANGED <<shared, stack, saved>>
  BY DEF StartIpi
<1>2. at'[c] = "wait" /\ Cpu(c)' = Cpu(c)
  BY GotoFrame DEF StartIpi, ApInv, Labels
<1>3. PICK i \in APs : i = Cpu(c)
  BY CallerPlan DEF ApInv
<1>4. /\ StartAt(c) /\ i \in gdt \cap tss /\ i \notin enabled
  BY <1>1, <1>3 DEF ApInv, StartInv, StartAt, Starting
<1>5. /\ halting' = halting \ {i}
      /\ \A j \in APs \ {i} : ap'[j] = ap[j]
      /\ ap'[i] \in {"dead", "tramp"}
  BY <1>3 DEF StartIpi, Set, ApInv, TypeOK
<1>6. Descriptors' /\ OwnStack' /\ HaltingRuns'
  BY <1>0, <1>1, <1>4, <1>5
     DEF ApInv, Descriptors, OwnStack, HaltingRuns, shared, TypeOK
<1>7. Awaited'
  <2> SUFFICES ASSUME NEW j \in APs, ap'[j] \in Coming
               PROVE  j \notin halting' /\ \E d \in Callers : at'[d] = "wait" /\ Cpu(d)' = j
    BY DEF Awaited
  <2>1. CASE j = i
    BY <1>2, <1>3, <1>5, <2>1
  <2>2. CASE j # i
    <3>1. PICK d \in Callers : at[d] = "wait" /\ Cpu(d) = j /\ j \notin halting
      BY <1>5, <2>2 DEF ApInv, Awaited
    <3> QED
      BY <1>0, <1>1, <1>5, <3>1
  <2> QED
    BY <2>1, <2>2
<1>8. EnabledRuns'
  <2>1. \A j \in APs :
          (\E d \in Callers : at'[d] = "ipi" /\ Cpu(d)' = j)
            <=> \E d \in Callers : at[d] = "ipi" /\ Cpu(d) = j
    BY <1>0, <1>1, <1>2
  <2>2. enabled' = enabled
    BY <1>1 DEF shared
  <2> QED
    BY <1>4, <1>5, <2>1, <2>2 DEF ApInv, EnabledRuns
<1>9. StartAt(c)'
  BY <1>1, <1>2, <1>3, <1>4 DEF StartAt, shared, Starting
<1>10. Resources'
  BY <1>0, <1>1, <1>2, <1>9, StartStep DEF Starting
<1> QED
  BY <1>0, <1>6, <1>7, <1>8, <1>10 DEF ApInv, Resources

\* The end of a start: without late processors the one waited for is up or
\* will not come.
LEMMA FinishInv ==
  ASSUME Orderly, ApInv, NEW c \in Callers, Step(c),
         StartWait(c) \/ StartRestore(c) \/ StartUnmap(c)
  PROVE  ApInv'
<1>0. /\ TypeOK' /\ Disjoint' /\ Placed'
      /\ \A d \in Callers \ {c} : at'[d] = at[d] /\ Cpu(d)' = Cpu(d)
  BY CallerType, CallerFrame DEF ApInv
<1>1. /\ at[c] \in {"wait", "restore", "unmap"} /\ at[c] \in Starting
      /\ UNCHANGED <<enabled, gdt, tss, scratch, cpus>>
  BY DEF StartWait, StartRestore, StartUnmap, Starting, shared
<1>2. Cpu(c) \in APs /\ StartAt(c)
  BY CallerPlan DEF ApInv, StartInv
<1>3. at[c] = "wait" => ap[Cpu(c)] \notin Coming
  BY <1>1, <1>2 DEF StartWait, StartRestore, StartUnmap, LoopGivesUp, Orderly, ApInv, EnabledRuns,
                    Coming
<1>4. CASE StartWait(c)
  <2>1. at'[c] = "restore" /\ Cpu(c)' = Cpu(c) /\ UNCHANGED <<vector, page0, saved>>
    BY <1>4, GotoFrame DEF StartWait, ApInv, Labels, shared
  <2>2. Processors'
    BY <1>0, <1>1, <1>3, <2>1, QuietStep DEF cpus
  <2>3. StartAt(c)'
    BY <1>1, <1>2, <1>4, <2>1 DEF StartAt, StartWait, Starting
  <2>4. Resources'
    BY <1>0, <1>1, <2>1, <2>3, StartStep DEF Starting
  <2> QED
    BY <1>0, <2>2, <2>4 DEF ApInv, Processors, Resources
<1>5. CASE StartRestore(c)
  <2>1. at[c] = "restore" /\ page0 /\ saved[c] = "boot"
    BY <1>2, <1>5 DEF StartRestore, StartAt
  <2>2. at'[c] = "unmap" /\ Cpu(c)' = Cpu(c) /\ vector' = "boot"
    BY <1>5, <2>1, GotoFrame DEF StartRestore, ApInv, Labels, VectorAfter
  <2>3. status'[c] = "OK" => Cpu(c) \in enabled
    BY <1>5 DEF StartRestore, StatusAfter, ApInv, TypeOK, Set
  <2>4. Processors'
    BY <1>0, <1>1, <1>3, <2>2, QuietStep DEF cpus
  <2>5. StartAt(c)'
    BY <1>1, <1>2, <2>1, <2>2, <2>3 DEF StartAt, Starting
  <2>6. Resources'
    BY <1>0, <1>1, <2>2, <2>5, StartStep DEF Starting
  <2> QED
    BY <1>0, <2>4, <2>6 DEF ApInv, Processors, Resources
<1>6. CASE StartUnmap(c)
  <2>1. at'[c] \in {"idle", "next"} /\ vector' = "boot" /\ ~page0'
    BY <1>1, <1>2, <1>6, ReturnFrame DEF StartUnmap, StartAt, ApInv, Ended
  <2>2. Processors'
    BY <1>0, <1>1, <1>3, <2>1, QuietStep DEF cpus
  <2>3. StartAt(c)'
    BY <2>1 DEF StartAt, Starting
  <2>4. Resources'
    BY <1>0, <1>1, <2>1, <2>3, StartStep
  <2> QED
    BY <1>0, <2>2, <2>4 DEF ApInv, Processors, Resources
<1> QED
  BY <1>4, <1>5, <1>6

\* A processor in the trampoline takes the stack of the start that waits for it.
LEMMA ApTrampolineInv ==
  ASSUME ApInv, NEW i \in APs, ApTrampoline(i)
  PROVE  ApInv'
<1>1. TypeOK'
  BY OtherType DEF ApInv, Processor
<1>2. /\ ap[i] = "tramp" /\ ap'[i] = "init" /\ stack'[i] = scratch
      /\ \A j \in APs \ {i} : ap'[j] = ap[j] /\ stack'[j] = stack[j]
      /\ UNCHANGED <<shared, halting, locals>>
  BY DEF ApTrampoline, ApInv, TypeOK, Set
<1>3. PICK c \in Callers : at[c] = "wait" /\ Cpu(c) = i
  BY <1>2 DEF ApInv, Awaited, Coming
<1>4. scratch = i
  BY <1>3 DEF ApInv, StartInv, StartAt
<1>5. Disjoint' /\ Placed' /\ StartInv' /\ VectorRestored'
  BY <1>2 DEF ApInv, shared, locals, Disjoint, Placed, StartInv, StartAt, Cpu, Routine,
              VectorRestored
<1>6. Awaited'
  BY <1>2 DEF ApInv, Awaited, Coming, locals, Cpu
<1>7. Descriptors' /\ OwnStack'
  BY <1>2, <1>4 DEF ApInv, Descriptors, OwnStack, shared
<1>8. HaltingRuns'
  BY <1>2 DEF ApInv, TypeOK, HaltingRuns
<1>9. EnabledRuns'
  BY <1>2 DEF ApInv, EnabledRuns, shared, locals, Cpu
<1> QED
  BY <1>1, <1>5, <1>6, <1>7, <1>8, <1>9 DEF ApInv

\* In sysCpuInit it goes on to its entry point, or loops.
LEMMA ApCpuInitInv ==
  ASSUME ApInv, NEW i \in APs, ApCpuInit(i)
  PROVE  ApInv'
<1>1. TypeOK'
  BY OtherType DEF ApInv, Processor
<1>2. /\ ap[i] = "init" /\ ap'[i] \in {"entry", "spin"}
      /\ \A j \in APs \ {i} : ap'[j] = ap[j]
      /\ UNCHANGED <<shared, stack, halting, locals>>
  BY DEF ApCpuInit, ApInv, TypeOK, Set
<1>5. Disjoint' /\ Placed' /\ StartInv' /\ VectorRestored'
  BY <1>2 DEF ApInv, shared, locals, Disjoint, Placed, StartInv, StartAt, Cpu, Routine,
              VectorRestored
<1>6. Awaited'
  BY <1>2 DEF ApInv, Awaited, Coming, locals, Cpu
<1>7. Descriptors' /\ OwnStack'
  BY <1>2 DEF ApInv, Descriptors, OwnStack, shared
<1>8. HaltingRuns'
  BY <1>2 DEF ApInv, TypeOK, HaltingRuns
<1>9. EnabledRuns'
  BY <1>2 DEF ApInv, EnabledRuns, shared, locals, Cpu
<1> QED
  BY <1>1, <1>5, <1>6, <1>7, <1>8, <1>9 DEF ApInv

\* The kernel sets its bit while the start waits for it, and nobody stops it.
LEMMA ApEnterInv ==
  ASSUME ApInv, NEW i \in APs, ApEnter(i)
  PROVE  ApInv'
<1>1. TypeOK'
  BY OtherType DEF ApInv, Processor
<1>2. /\ ap[i] = "entry" /\ ap'[i] = "run" /\ enabled' = enabled \cup {i}
      /\ \A j \in APs \ {i} : ap'[j] = ap[j]
      /\ UNCHANGED <<table, gdt, tss, scratch, vector, page0, stack, halting, locals>>
  BY DEF ApEnter, ApInv, TypeOK, Set
<1>3. PICK c \in Callers : at[c] = "wait" /\ Cpu(c) = i /\ i \notin halting
  BY <1>2 DEF ApInv, Awaited, Coming
<1>4. \A d \in Callers \ {c} : at[d] \notin Ended => Cpu(d) # i
  BY <1>3, Exclusive DEF ApInv, Ended
<1>5. Disjoint' /\ Placed' /\ VectorRestored'
  BY <1>2 DEF ApInv, locals, Disjoint, Placed, Cpu, Routine, VectorRestored
<1>6. StartInv'
  BY <1>2, <1>3, <1>4 DEF ApInv, StartInv, StartAt, locals, Cpu, Starting, Ended
<1>7. Awaited'
  BY <1>2 DEF ApInv, Awaited, Coming, locals, Cpu
<1>8. Descriptors' /\ OwnStack'
  BY <1>2 DEF ApInv, Descriptors, OwnStack
<1>9. HaltingRuns'
  BY <1>2 DEF ApInv, TypeOK, HaltingRuns
<1>10. EnabledRuns'
  <2>1. \A d \in Callers : ~(at[d] = "ipi" /\ Cpu(d) = i)
    BY <1>3, <1>4 DEF Ended
  <2> QED
    BY <1>2, <1>3, <2>1 DEF ApInv, EnabledRuns, locals, Cpu
<1> QED
  BY <1>1, <1>5, <1>6, <1>7, <1>8, <1>9, <1>10 DEF ApInv

\* A processor that takes the shutdown IPI had lost its bit before.
LEMMA ApHaltInv ==
  ASSUME ApInv, NEW i \in APs, ApHalt(i)
  PROVE  ApInv'
<1>1. TypeOK'
  BY OtherType DEF ApInv, Processor
<1>2. /\ ap[i] = "run" /\ ap'[i] = "halt" /\ i \in halting /\ halting' = halting \ {i}
      /\ \A j \in APs \ {i} : ap'[j] = ap[j]
      /\ UNCHANGED <<shared, stack, locals>>
  BY DEF ApHalt, ApInv, TypeOK, Set
<1>5. Disjoint' /\ Placed' /\ StartInv' /\ VectorRestored'
  BY <1>2 DEF ApInv, shared, locals, Disjoint, Placed, StartInv, StartAt, Cpu, Routine,
              VectorRestored
<1>6. Awaited'
  BY <1>2 DEF ApInv, Awaited, Coming, locals, Cpu
<1>7. Descriptors' /\ OwnStack'
  BY <1>2 DEF ApInv, Descriptors, OwnStack, shared
<1>8. HaltingRuns'
  BY <1>2 DEF ApInv, TypeOK, HaltingRuns
<1>9. EnabledRuns'
  BY <1>2 DEF ApInv, EnabledRuns, shared, locals, Cpu
<1> QED
  BY <1>1, <1>5, <1>6, <1>7, <1>8, <1>9 DEF ApInv

\* A call begins on processors of its own.
LEMMA CallInv ==
  ASSUME Orderly, ApInv, NEW c \in Callers, NEW p \in Plans, Call(c, p)
  PROVE  ApInv'
<1>1. TypeOK'
  BY OtherType DEF ApInv
<1>2. /\ at[c] = "idle" /\ at'[c] = "next" /\ plan'[c] = p
      /\ \A d \in Callers \ {c} : at'[d] = at[d] /\ plan'[d] = plan[d]
      /\ UNCHANGED <<shared, cpus, saved, status>>
  BY DEF Call, ApInv, TypeOK, Set
<1>3. Disjoint'
  BY <1>2 DEF Call, MayBegin, Orderly, ApInv, Disjoint
<1>4. Placed' /\ StartInv' /\ VectorRestored'
  BY <1>2 DEF ApInv, shared, Placed, StartInv, StartAt, Starting, Cpu, Routine,
              VectorRestored
<1>5. Descriptors' /\ OwnStack' /\ HaltingRuns'
  BY <1>2 DEF ApInv, Descriptors, OwnStack, HaltingRuns, shared, cpus
<1>6. \A d \in Callers : at[d] \notin Ended => at'[d] = at[d] /\ Cpu(d)' = Cpu(d)
  BY <1>2 DEF Cpu, Ended
<1>7. Awaited'
  <2> SUFFICES ASSUME NEW i \in APs, ap[i] \in Coming
               PROVE  i \notin halting /\ \E d \in Callers : at'[d] = "wait" /\ Cpu(d)' = i
    BY <1>2 DEF Awaited, cpus
  <2>1. PICK d \in Callers : at[d] = "wait" /\ Cpu(d) = i /\ i \notin halting
    BY DEF ApInv, Awaited
  <2> QED
    BY <1>6, <2>1 DEF Ended
<1>8. EnabledRuns'
  <2>1. \A i \in APs : (\E d \in Callers : at'[d] = "ipi" /\ Cpu(d)' = i)
                        <=> \E d \in Callers : at[d] = "ipi" /\ Cpu(d) = i
    BY <1>2, <1>6 DEF Ended
  <2> QED
    BY <1>2, <2>1 DEF ApInv, EnabledRuns, shared, cpus
<1> QED
  BY <1>1, <1>3, <1>4, <1>5, <1>7, <1>8 DEF ApInv

\* At power-on nothing has been started and nobody calls.
LEMMA InitApInv == Init => ApInv
<1> SUFFICES ASSUME Init PROVE ApInv
  OBVIOUS
<1>1. TypeOK
  BY InitType
<1>2. \A i \in APs : ap[i] \in {"reset", "dead"}
  BY DEF Init
<1>3. \A c \in Callers : at[c] = "idle" /\ plan[c] = <<>>
  BY DEF Init
<1>4. Disjoint
  BY <1>3, EmptyPlan DEF Disjoint
<1>5. Placed /\ StartInv
  BY <1>3 DEF Placed, StartInv, StartAt, Starting
<1>6. Awaited /\ Descriptors /\ OwnStack
  BY <1>2 DEF Awaited, Descriptors, OwnStack, Coming
<1>7. HaltingRuns /\ EnabledRuns /\ VectorRestored
  BY <1>2 DEF Init, HaltingRuns, EnabledRuns, VectorRestored
<1> QED
  BY <1>1, <1>4, <1>5, <1>6, <1>7 DEF ApInv

-----------------------------------------------------------------------------
(* The theorems.                                                           *)

\* Every step keeps the invariant.
LEMMA NextApInv == Orderly /\ ApInv /\ [Next]_vars => ApInv'
<1> SUFFICES ASSUME Orderly, ApInv, [Next]_vars PROVE ApInv'
  OBVIOUS
<1>1. ASSUME NEW c \in Callers, Step(c) PROVE ApInv'
  BY <1>1, StopResetInv, EnableInv, PrepareInv, StartIpiInv, FinishInv DEF Step
<1>2. ASSUME NEW c \in Callers, NEW p \in Plans, Call(c, p) PROVE ApInv'
  BY <1>2, CallInv
<1>3. ASSUME NEW i \in APs, Processor(i) PROVE ApInv'
  BY <1>3, ApTrampolineInv, ApCpuInitInv, ApEnterInv, ApHaltInv DEF Processor
<1>4. CASE UNCHANGED vars
  <2>1. TypeOK'
    BY <1>4, OtherType DEF ApInv
  <2>2. (Disjoint /\ Placed /\ StartInv /\ VectorRestored)'
    BY <1>4 DEF vars, shared, locals, ApInv, Disjoint, Placed, StartInv, StartAt, Cpu,
                Routine, VectorRestored
  <2>3. (Awaited /\ Descriptors /\ OwnStack /\ HaltingRuns /\ EnabledRuns)'
    BY <1>4 DEF vars, shared, cpus, locals, ApInv, Awaited, Descriptors, OwnStack,
                HaltingRuns, EnabledRuns, Cpu
  <2> QED
    BY <2>1, <2>2, <2>3 DEF ApInv
<1> QED
  BY <1>1, <1>2, <1>3, <1>4 DEF Next

\* With one start at a time, and no processor outlasting the wait of its
\* start, everything above holds for ever.
THEOREM StartsAreSafe == ASSUME Orderly PROVE Spec => []ApInv
<1>1. Init => ApInv
  BY InitApInv
<1>2. ApInv /\ [Next]_vars => ApInv'
  BY NextApInv
<1> QED
  BY <1>1, <1>2, PTL DEF Spec

\* "Unique memory space": the one stack slot that sysCpuStart fills for all
\* processors still gives each its own stack.
THEOREM StacksAreOwn == ASSUME Orderly PROVE Spec => []OwnState
<1>1. ApInv => OwnState
  BY DEF ApInv, OwnState, OwnStack, Descriptors
<1> QED
  BY <1>1, StartsAreSafe, PTL

\* vxCpuEnabled names the processors that run, through starts, stops and
\* resets of other processors.
THEOREM BitsAreRight == ASSUME Orderly PROVE Spec => []EnabledRuns
<1>1. ApInv => EnabledRuns
  BY DEF ApInv
<1> QED
  BY <1>1, StartsAreSafe, PTL

\* Every start of sysCpuStart, failed or not, gives the firmware its reset
\* vector back and unmaps page zero; one whose task faults because vmMap has
\* failed has not touched them yet.
THEOREM FirmwareRestored == ASSUME Orderly PROVE Spec => []VectorRestored
<1>1. ApInv => VectorRestored
  BY DEF ApInv
<1> QED
  BY <1>1, StartsAreSafe, PTL

\* sysCpuStart returns OK only for a processor that runs the kernel.
THEOREM StartedRuns == ASSUME Orderly PROVE Spec => []OkMeansUp
<1>1. ApInv => OkMeansUp
  <2> SUFFICES ASSUME ApInv, NEW c \in Callers, at[c] = "unmap", status[c] = "OK"
               PROVE  ap[Cpu(c)] = "run"
    BY DEF OkMeansUp
  <2>1. Cpu(c) \in enabled
    BY DEF ApInv, StartInv, StartAt
  <2>2. Cpu(c) \in APs
    BY CpuType DEF ApInv, Ended
  <2> QED
    BY <2>1, <2>2 DEF ApInv, EnabledRuns
<1> QED
  BY <1>1, StartsAreSafe, PTL
=============================================================================
