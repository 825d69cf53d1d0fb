------------------------------- MODULE ApStart -------------------------------
(***************************************************************************)
(* Starting, stopping and resetting the application processors (sysLib.c,  *)
(* vxCpuStateInit to sysCpuReset_ABM, and the trampoline sysInitCpuStartup *)
(* of sysALib.s).  Callers are tasks of the boot processor; every          *)
(* application processor moves on its own once it has got its startup IPI. *)
(*                                                                         *)
(* All starts share one trampoline, one scratch area with one slot for the *)
(* initial stack, the warm reset vector with its BIOS shutdown code, and   *)
(* page zero, which is mapped for the time of a start.  No lock covers a   *)
(* start: interrupts are locked only while the vector is written.          *)
(***************************************************************************)
EXTENDS Integers, Sequences, FiniteSets

CONSTANTS
  Callers,   \* tasks that call the routines
  NumCpus,   \* vxCpuConfiguredGet, the boot processor 0 included
  Faults,    \* what the environment may do wrong, a subset of FaultKinds
  MaxCalls   \* bound: calls made

\* "dead": a processor ignores its startup IPI; "late": it may outlast the
\* time a start waits; "init": syscallArchInit or excOsmInit fails on it;
\* "memory": malloc fails; "map": vmMap fails to map page zero; "overlap": two
\* tasks may start processors at once; "share": two tasks may work on the same
\* processor.
FaultKinds == {"dead", "late", "init", "memory", "map", "overlap", "share"}

ASSUME ApAssumption ==
  /\ NumCpus \in Nat \ {0, 1}      \* an SMP system
  /\ Faults \subseteq FaultKinds
  /\ MaxCalls \in Nat

VARIABLES
  enabled,   \* vxCpuEnabled
  table,     \* processors whose sysCpuInitTable entry is set
  gdt, tss,  \* processors whose pSysGdt and sysTssCurrent are set
  scratch,   \* the stack slot of the scratch area: a processor's stack or Wild
  vector,    \* warm reset vector and shutdown code: "boot" or "trampoline"
  page0,     \* page zero is mapped
  ap,        \* what each processor does
  stack,     \* whose stack each processor runs on
  halting,   \* processors with a shutdown IPI pending
  plan,      \* what each caller has yet to do, a sequence of <<routine, cpu>>
  at,        \* where it is in the first of them
  saved,     \* oldResetVector and oldShutdownCode of its start
  status,    \* and its status
  calls      \* calls left

shared == <<enabled, table, gdt, tss, scratch, vector, page0>>
cpus   == <<ap, stack, halting>>
locals == <<plan, at, saved, status, calls>>
vars   == <<shared, cpus, locals>>

APs  == 1..(NumCpus - 1)
Wild == 0                     \* not a stack: trampoline text, or never written

ApStates == {"reset",    \* waits for a startup IPI, as after power-on
             "dead",     \* the same, and will not answer
             "tramp",    \* in the trampoline
             "init",     \* in sysCpuInit, stack loaded
             "entry",    \* on its way to windCpuEntry
             "run",      \* in the kernel
             "halt",     \* taken out by a shutdown IPI
             "spin"}     \* in the endless loop of sysCpuInit
Coming == {"tramp", "init", "entry"}

Labels == {"idle", "next", "ipi", "copy", "fill", "map", "startup", "wait",
           "restore", "unmap",
           "nomap",     \* faulted at the vector: vmMap failed
           "fault"}     \* faulted at the vector: page zero unmapped since
Ended    == {"idle", "nomap", "fault"}       \* not in a call, or never to go on
Starting == {"copy", "fill", "map", "startup", "wait", "restore", "unmap"}

Routine(c) == Head(plan[c])[1]
Cpu(c)     == Head(plan[c])[2]
Set(f, x, v) == [f EXCEPT ![x] = v]
Goto(c, l) == at' = Set(at, c, l) /\ UNCHANGED plan
\* The first routine is done; with the last one the call returns.
Return(c) == /\ plan' = Set(plan, c, Tail(plan[c]))
             /\ at' = Set(at, c, IF Len(plan[c]) = 1 THEN "idle" ELSE "next")
\* An access to page zero while it is not mapped: the kernel suspends the task,
\* what it had yet to do is never done.
Fault(c, l) == at' = Set(at, c, l) /\ plan' = Set(plan, c, <<>>)

Init ==
  /\ enabled = {} /\ table = {} /\ gdt = {} /\ tss = {}
  /\ scratch = Wild
  /\ vector = "boot" /\ page0 = FALSE
  /\ ap \in [APs -> IF "dead" \in Faults THEN {"reset", "dead"} ELSE {"reset"}]
  /\ stack = [i \in APs |-> Wild]
  /\ halting = {}
  /\ plan = [c \in Callers |-> <<>>]
  /\ at = [c \in Callers |-> "idle"]
  /\ saved = [c \in Callers |-> "boot"]
  /\ status = [c \in Callers |-> "OK"]
  /\ calls = MaxCalls
-----------------------------------------------------------------------------
(* The calls.                                                              *)

\* All of 1 .. numCpus - 1, from a task of the boot processor.
ToAllFromZero(routine) == [k \in 1..NumCpus |-> <<routine, k - 1>>]
ToAll(routine) == [i \in APs |-> <<routine, i>>]

\* sysCpuRe_Enable ignores the status of sysCpuStop and sysCpuReset.
ReEnable(i) == <<<<"stop", i>>, <<"reset", i>>, <<"start", i>>>>

\* sysCpuEnable by way of kernelCpuEnable, sysCpuRe_Enable, sysCpuDisable (no
\* more than sysCpuStop), sysCpuReset, and the routines that go through all
\* processors.
Plans ==
  {<<<<r, i>>>> : r \in {"start", "stop", "reset"}, i \in APs}
    \cup {ReEnable(i) : i \in APs} \cup {ToAll("stop"), ToAll("reset")}

Touched(p) == {p[k][2] : k \in DOMAIN p}
Starts(p)  == \E k \in DOMAIN p : p[k][1] = "start"

\* The routines keep nobody out: that callers work on different processors, and
\* that one of them at most starts any, is what the kernel sees to ("share" and
\* "overlap": it does not).
MayBegin(c, p) ==
  \A d \in Callers \ {c} :
    /\ "share" \in Faults \/ Touched(p) \cap Touched(plan[d]) = {}
    /\ Starts(p) /\ Starts(plan[d]) => "overlap" \in Faults

Call(c, p) ==
  /\ at[c] = "idle" /\ calls > 0
  /\ MayBegin(c, p)
  /\ calls' = calls - 1
  /\ plan' = Set(plan, c, p) /\ at' = Set(at, c, "next")
  /\ UNCHANGED <<shared, cpus, saved, status>>
-----------------------------------------------------------------------------
(* sysCpuStop and sysCpuReset, and one turn of the loops of their _APs and *)
(* _ABM forms: the bit is cleared, then the IPI sent.                      *)

AllBitsOff(i) == {}
ClearBit(i) == enabled \ {i}

StopOrReset(c) ==
  /\ at[c] = "next" /\ Routine(c) \in {"stop", "reset"}
  /\ enabled' = ClearBit(Cpu(c))
  /\ Goto(c, "ipi")
  /\ UNCHANGED <<table, gdt, tss, scratch, vector, page0, cpus, saved, status,
                 calls>>

\* A processor takes the shutdown IPI once its local APIC is on, that is from
\* "entry" on; before, it is lost.
StopIpi(c) ==
  /\ at[c] = "ipi" /\ Routine(c) = "stop"
  /\ halting' = IF ap[Cpu(c)] \in {"entry", "run"}
                THEN halting \cup {Cpu(c)} ELSE halting
  /\ Return(c)
  /\ UNCHANGED <<shared, ap, stack, saved, status, calls>>

\* The INIT IPI works whatever the processor is doing.
ResetIpi(c) ==
  /\ at[c] = "ipi" /\ Routine(c) = "reset"
  /\ ap' = Set(ap, Cpu(c), IF ap[Cpu(c)] = "dead" THEN "dead" ELSE "reset")
  /\ halting' = halting \ {Cpu(c)}
  /\ Return(c)
  /\ UNCHANGED <<shared, stack, saved, status, calls>>
-----------------------------------------------------------------------------
(* kernelCpuEnable, vxCpuStateInit, sysCpuEnable and sysCpuStart.          *)

\* The kernel does nothing for a processor that is enabled already.
KernelRefuses(c) ==
  /\ at[c] = "next" /\ Routine(c) = "start"
  /\ Cpu(c) \in enabled
  /\ Return(c)
  /\ UNCHANGED <<shared, cpus, saved, status, calls>>

\* vxCpuStateInit gives the processor a GDT and a TSS; without memory for one of
\* them it returns ERROR, and the new GDT stays installed if the TSS was missing.
StateInit(i) == gdt' = gdt \cup {i} /\ tss' = tss \cup {i}
StateInitFails(i) ==
  "memory" \in Faults /\ gdt' \in {gdt, gdt \cup {i}} /\ UNCHANGED tss

\* sysCpuEnable notes the entry point of the state vxCpuStateInit has filled.
CpuEnable(c) ==
  /\ at[c] = "next" /\ Routine(c) = "start"
  /\ Cpu(c) \notin enabled
  /\ \/ /\ StateInit(Cpu(c))
        /\ table' = table \cup {Cpu(c)}
        /\ status' = Set(status, c, "OK")
        /\ Goto(c, "copy")
     \/ /\ StateInitFails(Cpu(c))
        /\ Return(c)
        /\ UNCHANGED <<table, status>>
  /\ UNCHANGED <<enabled, scratch, vector, page0, cpus, saved, calls>>

\* The CPU_AP_AREA bytes copied to CPU_ENTRY_POINT reach over the scratch
\* area at CPU_SCRATCH_POINT...
StartCopy(c) ==
  /\ at[c] = "copy"
  /\ scratch' = Wild
  /\ Goto(c, "fill")
  /\ UNCHANGED <<enabled, table, gdt, tss, vector, page0, cpus, saved, status,
                 calls>>

\* ... which is filled then, last with the stack of this processor.
StartFill(c) ==
  /\ at[c] = "fill"
  /\ scratch' = Cpu(c)
  /\ Goto(c, "map")
  /\ UNCHANGED <<enabled, table, gdt, tss, vector, page0, cpus, saved, status,
                 calls>>

\* Under intCpuLock: page zero is mapped, vector and shutdown code are saved
\* and set.  The vector is read whether or not vmMap has mapped its page.
StartMap(c) ==
  /\ at[c] = "map"
  /\ \/ page0' = TRUE /\ UNCHANGED status
     \/ "map" \in Faults /\ UNCHANGED page0 /\ status' = Set(status, c, "ERROR")
  /\ IF page0'
     THEN /\ saved' = Set(saved, c, vector)
          /\ vector' = "trampoline"
          /\ Goto(c, "startup")
     ELSE Fault(c, "nomap") /\ UNCHANGED <<saved, vector>>
  /\ UNCHANGED <<enabled, table, gdt, tss, scratch, cpus, calls>>

\* ipiStartup: an INIT and two startup IPIs; only a dead one may fail it.
StartIpi(c) ==
  /\ at[c] = "startup"
  /\ halting' = halting \ {Cpu(c)}
  /\ \/ /\ ap[Cpu(c)] # "dead"
        /\ ap' = Set(ap, Cpu(c), "tramp")
        /\ UNCHANGED status
     \/ /\ ap[Cpu(c)] = "dead"
        /\ status' \in {status, Set(status, c, "ERROR")}
        /\ UNCHANGED ap
  /\ Goto(c, "wait")
  /\ UNCHANGED <<shared, stack, saved, calls>>

\* The loop of SYS_AP_LOOP_COUNT delays ends with the bit or without it; it
\* runs out on a processor that is coming only if that one may be late.
LoopNeverGivesUp(c) == FALSE
LoopGivesUpEarly(c) == Cpu(c) \notin enabled
LoopGivesUp(c) ==
  Cpu(c) \notin enabled /\ (ap[Cpu(c)] \notin Coming \/ "late" \in Faults)

StartWait(c) ==
  /\ at[c] = "wait"
  /\ Cpu(c) \in enabled \/ LoopGivesUp(c)
  /\ Goto(c, "restore")
  /\ UNCHANGED <<shared, cpus, saved, status, calls>>

\* The bit is read again for the status, then vector and code are restored:
\* an access to page zero.
VectorAfterGood(c) == IF Cpu(c) \in enabled THEN saved[c] ELSE vector
VectorAfter(c) == saved[c]
StatusAfterIpi(c) == status[c]
StatusAfter(c) == IF Cpu(c) \in enabled THEN status[c] ELSE "ERROR"

StartRestore(c) ==
  /\ at[c] = "restore"
  /\ status' = Set(status, c, StatusAfter(c))
  /\ IF page0
     THEN vector' = VectorAfter(c) /\ Goto(c, "unmap")
     ELSE Fault(c, "fault") /\ UNCHANGED vector
  /\ UNCHANGED <<enabled, table, gdt, tss, scratch, page0, cpus, saved, calls>>

StartUnmap(c) ==
  /\ at[c] = "unmap"
  /\ page0' = FALSE
  /\ Return(c)
  /\ UNCHANGED <<enabled, table, gdt, tss, scratch, vector, cpus, saved, status,
                 calls>>
-----------------------------------------------------------------------------
(* The application processors.                                             *)

\* sysInitCpuStartup loads the descriptors, turns the MMU on and takes its
\* stack from the scratch area.
ApTrampoline(i) ==
  /\ ap[i] = "tramp"
  /\ stack' = Set(stack, i, scratch)
  /\ ap' = Set(ap, i, "init")
  /\ UNCHANGED <<shared, halting, locals>>

\* sysCpuInit reads its entry of the table and calls it, or loops for ever.
ApCpuInit(i) ==
  /\ ap[i] = "init"
  /\ \/ i \in table /\ ap' = Set(ap, i, "entry")
     \/ /\ i \notin table \/ "init" \in Faults
        /\ ap' = Set(ap, i, "spin")
  /\ UNCHANGED <<shared, stack, halting, locals>>

\* windCpuEntry: the kernel sets the bit and unlocks interrupts.
ApEnter(i) ==
  /\ ap[i] = "entry"
  /\ ap' = Set(ap, i, "run")
  /\ enabled' = enabled \cup {i}
  /\ UNCHANGED <<table, gdt, tss, scratch, vector, page0, stack, halting, locals>>

ApHalt(i) ==
  /\ ap[i] = "run" /\ i \in halting
  /\ ap' = Set(ap, i, "halt")
  /\ halting' = halting \ {i}
  /\ UNCHANGED <<shared, stack, locals>>
-----------------------------------------------------------------------------
Step(c) == \/ StopOrReset(c) \/ StopIpi(c) \/ ResetIpi(c)
           \/ KernelRefuses(c) \/ CpuEnable(c)
           \/ StartCopy(c) \/ StartFill(c) \/ StartMap(c) \/ StartIpi(c)
           \/ StartWait(c) \/ StartRestore(c) \/ StartUnmap(c)

Processor(i) == ApTrampoline(i) \/ ApCpuInit(i) \/ ApEnter(i) \/ ApHalt(i)

Next == \/ \E c \in Callers : Step(c) \/ \E p \in Plans : Call(c, p)
        \/ \E i \in APs : Processor(i)

Spec == Init /\ [][Next]_vars

\* A caller goes on, a processor that has been started goes on.
Fairness == /\ \A c \in Callers : WF_vars(Step(c))
            /\ \A i \in APs : WF_vars(Processor(i))

FairSpec == Spec /\ Fairness
-----------------------------------------------------------------------------
(* Properties.                                                             *)

\* The variables stay in their ranges.
TypeOK ==
  /\ enabled \subseteq APs /\ table \subseteq APs
  /\ gdt \subseteq APs /\ tss \subseteq APs
  /\ scratch \in APs \cup {Wild}
  /\ vector \in {"boot", "trampoline"} /\ page0 \in BOOLEAN
  /\ ap \in [APs -> ApStates]
  /\ stack \in [APs -> APs \cup {Wild}]
  /\ halting \subseteq APs
  /\ plan \in [Callers -> Seq({"start", "stop", "reset"} \X APs)]
  /\ at \in [Callers -> Labels]
  /\ \A c \in Callers : at[c] \in Ended <=> plan[c] = <<>>
  /\ saved \in [Callers -> {"boot", "trampoline"}]
  /\ status \in [Callers -> {"OK", "ERROR"}]
  /\ calls \in 0..MaxCalls

\* "Unique memory space" for every AP (sysLib.c 2929): a processor past
\* the trampoline runs on its own stack, with its own GDT and TSS, although
\* all of them read the same slot.
OwnState ==
  \A i \in APs : ap[i] \in {"init", "entry", "run"} =>
    stack[i] = i /\ i \in gdt \cap tss

\* vxCpuEnabled, which starts wait for and the kernel schedules by, names
\* exactly the processors that run the kernel and have not been told to stop.
EnabledRuns ==
  \A i \in APs :
    i \in enabled <=>
      /\ ap[i] = "run" /\ i \notin halting
      /\ ~\E c \in Callers : at[c] = "ipi" /\ Cpu(c) = i

\* Between starts the reset vector and the shutdown code are the firmware's
\* and page zero is not mapped ("for NULL pointer detection", line 3059),
\* after a start that failed too.
VectorRestored ==
  (\A c \in Callers : at[c] \notin Starting) => vector = "boot" /\ ~page0

\* A start that is about to return OK leaves a processor that runs.
OkMeansUp ==
  \A c \in Callers : at[c] = "unmap" /\ status[c] = "OK" => ap[Cpu(c)] = "run"

\* Every call returns, whatever processors do not answer and whatever fails on
\* the way, unless vmMap has failed: the ERROR that sysCpuStart notes then (line
\* 2986) reaches nobody, the next access takes its task out.
CallsReturn == \A c \in Callers : at[c] # "idle" ~> at[c] \in {"idle", "nomap"}

\* What the routines say of themselves, OK or ERROR, holds of every call; this
\* does not, once vmMap may fail.
EveryCallReturns == \A c \in Callers : at[c] # "idle" ~> at[c] = "idle"
=============================================================================
