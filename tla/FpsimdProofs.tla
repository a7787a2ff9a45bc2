---------------------------- MODULE FpsimdProofs ----------------------------
(***************************************************************************)
(* Every task has registers of its own, for any number of tasks and CPUs.  *)
(*                                                                         *)
(* The inductive invariant FpInv says when the registers of a CPU and the  *)
(* record of whose they are may be trusted.  A task of which both          *)
(* last_state of a CPU and its own fpsimd_cpu say that its registers are   *)
(* on that CPU finds there what it has in memory, with the trap and the    *)
(* vector length set for it; a task whose registers are live on a CPU is   *)
(* the one that last_state of the CPU names.                               *)
(*                                                                         *)
(* FpInv implies the invariants that TLC checks on small instances, and    *)
(* lets every step of Fpsimd be a step, or no step, of UserRegs.           *)
(*                                                                         *)
(* The second needs that tracers stop tasks at signals only (~ TraceCalls).*)
(* A tracer that stops a task at a system call may leave it with SVE state *)
(* in the call; if that is a fork, the new task gets the V registers that  *)
(* were last saved on their own, not those in the SVE state.               *)
(***************************************************************************)
EXTENDS Fpsimd, TLAPS

USE ZenonT(10)

(* A task runs on one CPU, and has not been freed.                         *)
Placed ==
  \A c \in CPU : cur[c] \in Task =>
    pc[cur[c]] # "free" /\ \A d \in CPU : cur[d] = cur[c] => d = c

(* What the place of a task says of its memory and flags.                  *)
TaskInv(t) ==
  /\ sve_buf[t] \in {0, sve_vl[t]} /\ (tif_sve[t] => sve_buf[t] = sve_vl[t])
  /\ pc[t] = "user" => ~ foreign[t]
  /\ pc[t] = "set_vl" => ~ tif_sve[t]
  /\ pc[t] \in {"syscall", "stop_call"} /\ tif_sve[t] => fpsimd_cpu[t] = None
  /\ pc[t] \in {"sigret_flush", "sigret_foreign", "sigret_copy", "sigret_copied"} =>
       fpsimd_cpu[t] = None
  /\ pc[t] = "sigret_fpsimd" /\ tif_sve[t] => fpsimd_cpu[t] = None
  /\ pc[t] \in {"sigret_copy", "sigret_copied"} => sve_buf[t] = sve_vl[t]
  /\ pc[t] = "sve_acc" =>
       ~ tif_sve[t] /\ sve_buf[t] = sve_vl[t] /\ sve_state[t] = Zeroes
  /\ pc[t] = "frame" /\ tif_sve[t] => fpsimd_state[t] = sve_state[t][1]

Live(c, t) == cur[c] = t /\ ~ foreign[t]

(* What c and t record of each other.                                      *)
PairInv(c, t) ==
  /\ Live(c, t) => last_state[c] = t /\ (fpsimd_cpu[t] = c \/ pc[t] = "sigret_flush")
  /\ last_state[c] = t /\ (fpsimd_cpu[t] = c \/ Live(c, t)) =>
       /\ cpacr[c] = tif_sve[t] /\ (tif_sve[t] => zcr[c] = sve_vl[t])
       /\ ~ Live(c, t) \/ pc[t] \in {"frame_sync", "frame"} => Seen(t, regs[c]) = Stored(t)

FpInv ==
  /\ TypeOK /\ Placed
  /\ \A t \in Task : TaskInv(t)
  /\ \A c \in CPU : neon_busy[c] => last_state[c] = None
  /\ \A c \in CPU, t \in Task : PairInv(c, t)

-----------------------------------------------------------------------------
(* A step changes what belongs to one task and one CPU.                    *)
OnlyTask(t) ==
  /\ pc' = [pc EXCEPT ![t] = pc'[t]]
  /\ foreign' = [foreign EXCEPT ![t] = foreign'[t]]
  /\ tif_sve' = [tif_sve EXCEPT ![t] = tif_sve'[t]]
  /\ fpsimd_state' = [fpsimd_state EXCEPT ![t] = fpsimd_state'[t]]
  /\ sve_state' = [sve_state EXCEPT ![t] = sve_state'[t]]
  /\ sve_buf' = [sve_buf EXCEPT ![t] = sve_buf'[t]]
  /\ sve_vl' = [sve_vl EXCEPT ![t] = sve_vl'[t]]
  /\ fpsimd_cpu' = [fpsimd_cpu EXCEPT ![t] = fpsimd_cpu'[t]]

OnlyCpu(c) ==
  /\ cur' = [cur EXCEPT ![c] = cur'[c]]
  /\ last_state' = [last_state EXCEPT ![c] = last_state'[c]]
  /\ regs' = [regs EXCEPT ![c] = regs'[c]]
  /\ zcr' = [zcr EXCEPT ![c] = zcr'[c]]
  /\ cpacr' = [cpacr EXCEPT ![c] = cpacr'[c]]
  /\ neon_busy' = [neon_busy EXCEPT ![c] = neon_busy'[c]]

TaskTyped(t) ==
  /\ pc[t] \in Label /\ foreign[t] \in BOOLEAN /\ tif_sve[t] \in BOOLEAN
  /\ fpsimd_state[t] \in Val /\ sve_state[t] \in Regs /\ sve_buf[t] \in Vl \cup {0}
  /\ sve_vl[t] \in Vl /\ fpsimd_cpu[t] \in CPU \cup {None}

CpuTyped(c) ==
  /\ cur[c] \in Task \cup {None} /\ last_state[c] \in Task \cup {None}
  /\ regs[c] \in Regs /\ zcr[c] \in Vl /\ cpacr[c] \in BOOLEAN /\ neon_busy[c] \in BOOLEAN

SameTask(t) ==
  /\ pc'[t] = pc[t] /\ foreign'[t] = foreign[t] /\ tif_sve'[t] = tif_sve[t]
  /\ fpsimd_state'[t] = fpsimd_state[t] /\ sve_state'[t] = sve_state[t]
  /\ sve_buf'[t] = sve_buf[t] /\ sve_vl'[t] = sve_vl[t] /\ fpsimd_cpu'[t] = fpsimd_cpu[t]

SameCpu(c) ==
  /\ cur'[c] = cur[c] /\ last_state'[c] = last_state[c] /\ regs'[c] = regs[c]
  /\ zcr'[c] = zcr[c] /\ cpacr'[c] = cpacr[c] /\ neon_busy'[c] = neon_busy[c]

LEMMA Typed ==
  ASSUME TypeOK
  PROVE  (\A t \in Task : TaskTyped(t)) /\ (\A c \in CPU : CpuTyped(c))
  BY DEF TypeOK, TaskTyped, CpuTyped

LEMMA TaskFrame ==
  ASSUME TypeOK, NEW t \in Task, OnlyTask(t)
  PROVE  \A x \in Task \ {t} : SameTask(x)
<1>1. SUFFICES ASSUME NEW x \in Task, x # t PROVE SameTask(x)
  OBVIOUS
<1>2. pc'[x] = pc[x] /\ foreign'[x] = foreign[x] /\ tif_sve'[x] = tif_sve[x]
  BY <1>1 DEF OnlyTask, TypeOK
<1>3. fpsimd_state'[x] = fpsimd_state[x] /\ sve_state'[x] = sve_state[x]
  BY <1>1 DEF OnlyTask, TypeOK
<1>4. sve_buf'[x] = sve_buf[x] /\ sve_vl'[x] = sve_vl[x] /\ fpsimd_cpu'[x] = fpsimd_cpu[x]
  BY <1>1 DEF OnlyTask, TypeOK
<1>5. QED
  BY <1>2, <1>3, <1>4 DEF SameTask

LEMMA CpuFrame ==
  ASSUME TypeOK, NEW c \in CPU, OnlyCpu(c)
  PROVE  \A d \in CPU \ {c} : SameCpu(d)
<1>1. SUFFICES ASSUME NEW d \in CPU, d # c PROVE SameCpu(d)
  OBVIOUS
<1>2. cur'[d] = cur[d] /\ last_state'[d] = last_state[d] /\ regs'[d] = regs[d]
  BY <1>1 DEF OnlyCpu, TypeOK
<1>3. zcr'[d] = zcr[d] /\ cpacr'[d] = cpacr[d] /\ neon_busy'[d] = neon_busy[d]
  BY <1>1 DEF OnlyCpu, TypeOK
<1>4. QED
  BY <1>2, <1>3 DEF SameCpu

LEMMA TypeKept ==
  ASSUME TypeOK, NEW t \in Task, OnlyTask(t), TaskTyped(t)',
         NEW c \in CPU, OnlyCpu(c), CpuTyped(c)'
  PROVE  TypeOK'
<1>1. cur' \in [CPU -> Task \cup {None}] /\ pc' \in [Task -> Label]
  BY DEF TypeOK, OnlyTask, OnlyCpu, TaskTyped, CpuTyped
<1>2. foreign' \in [Task -> BOOLEAN] /\ tif_sve' \in [Task -> BOOLEAN]
  BY DEF TypeOK, OnlyTask, TaskTyped
<1>3. fpsimd_state' \in [Task -> Val] /\ sve_state' \in [Task -> Regs]
  BY DEF TypeOK, OnlyTask, TaskTyped
<1>4. sve_buf' \in [Task -> Vl \cup {0}] /\ sve_vl' \in [Task -> Vl]
  BY DEF TypeOK, OnlyTask, TaskTyped
<1>5. fpsimd_cpu' \in [Task -> CPU \cup {None}] /\ last_state' \in [CPU -> Task \cup {None}]
  BY DEF TypeOK, OnlyTask, OnlyCpu, TaskTyped, CpuTyped
<1>6. regs' \in [CPU -> Regs] /\ zcr' \in [CPU -> Vl]
  BY DEF TypeOK, OnlyCpu, CpuTyped
<1>7. cpacr' \in [CPU -> BOOLEAN] /\ neon_busy' \in [CPU -> BOOLEAN]
  BY DEF TypeOK, OnlyCpu, CpuTyped
<1>8. QED
  BY <1>1, <1>2, <1>3, <1>4, <1>5, <1>6, <1>7 DEF TypeOK

LEMMA SameTaskInv ==
  ASSUME NEW t \in Task, TaskInv(t), SameTask(t)
  PROVE  TaskInv(t)'
  BY DEF TaskInv, SameTask

LEMMA SamePairInv ==
  ASSUME NEW c \in CPU, NEW t \in Task, PairInv(c, t), SameTask(t), SameCpu(c)
  PROVE  PairInv(c, t)'
  BY DEF PairInv, SameTask, SameCpu, Live, Seen, Stored

(* What is left to show of a step.                                         *)
LEMMA Assemble ==
  ASSUME FpInv, NEW c \in CPU, NEW t \in Task, OnlyTask(t), OnlyCpu(c),
         TaskTyped(t)', CpuTyped(c)', cur' = cur,
         pc'[t] # "free" \/ NotRunning(t),
         TaskInv(t)', neon_busy'[c] => last_state'[c] = None,
         \A x \in Task \ {t} : PairInv(c, x)',
         \A d \in CPU : PairInv(d, t)'
  PROVE  FpInv'
<1>1. TypeOK'
  BY TypeKept DEF FpInv
<1>2. /\ \A x \in Task \ {t} : SameTask(x)
      /\ \A d \in CPU \ {c} : SameCpu(d)
  BY TaskFrame, CpuFrame DEF FpInv
<1>3. Placed'
  <2>1. SUFFICES ASSUME NEW d \in CPU, cur[d] \in Task
                 PROVE  pc'[cur[d]] # "free" /\ \A i \in CPU : cur[i] = cur[d] => i = d
    BY DEF Placed
  <2>2. pc[cur[d]] # "free" /\ \A i \in CPU : cur[i] = cur[d] => i = d
    BY <2>1 DEF FpInv, Placed
  <2>3. pc'[cur[d]] # "free"
    <3>1. CASE cur[d] = t
      BY <3>1 DEF NotRunning
    <3>2. CASE cur[d] # t
      <4>1. SameTask(cur[d])
        BY <1>2, <2>1, <3>2
      <4>2. QED
        BY <2>2, <4>1 DEF SameTask
    <3>3. QED
      BY <3>1, <3>2
  <2>4. QED
    BY <2>2, <2>3
<1>4. \A x \in Task : TaskInv(x)'
  BY <1>2, SameTaskInv DEF FpInv
<1>5. \A d \in CPU : neon_busy'[d] => last_state'[d] = None
  BY <1>2 DEF FpInv, SameCpu
<1>6. \A d \in CPU, x \in Task : PairInv(d, x)'
  <2>1. SUFFICES ASSUME NEW d \in CPU, NEW x \in Task PROVE PairInv(d, x)'
    OBVIOUS
  <2>2. CASE x = t
    BY <2>2
  <2>3. CASE x # t /\ d = c
    BY <2>3
  <2>4. CASE x # t /\ d # c
    BY <1>2, <2>4, SamePairInv DEF FpInv
  <2>5. QED
    BY <2>2, <2>3, <2>4
<1>7. QED
  BY <1>1, <1>3, <1>4, <1>5, <1>6 DEF FpInv

-----------------------------------------------------------------------------
(* Steps that leave the CPUs alone.                                        *)
cpus == <<cur, last_state, regs, zcr, cpacr, neon_busy>>

LEMMA TaskStep ==
  ASSUME FpInv, NEW t \in Task, OnlyTask(t), TaskTyped(t)', UNCHANGED cpus,
         pc'[t] # "free" \/ NotRunning(t), TaskInv(t)', \A d \in CPU : PairInv(d, t)'
  PROVE  FpInv'
<1>1. PICK c \in CPU : TRUE
  BY FpsimdAssumption
<1>2. CpuTyped(c) /\ OnlyCpu(c) /\ SameCpu(c)
  BY Typed DEF FpInv, TypeOK, OnlyCpu, SameCpu, cpus
<1>3. CpuTyped(c)' /\ (neon_busy'[c] => last_state'[c] = None)
  BY <1>2 DEF CpuTyped, FpInv, cpus
<1>4. \A x \in Task \ {t} : PairInv(c, x)'
  BY <1>2, TaskFrame, SamePairInv DEF FpInv
<1>5. QED
  BY <1>2, <1>3, <1>4, Assemble DEF cpus

(* No CPU has the registers of a task that has been disowned.              *)
LEMMA Disowned ==
  ASSUME FpInv, NEW t \in Task, UNCHANGED cpus, fpsimd_cpu'[t] = None,
         foreign'[t] \/ NotRunning(t)
  PROVE  \A d \in CPU : PairInv(d, t)'
  BY FpsimdAssumption DEF PairInv, Live, NotRunning, cpus

(* What is on record of a task stays true when neither its flags, nor its  *)
(* registers in memory, nor the record change.                             *)
LEMMA StillOnRecord ==
  ASSUME FpInv, NEW t \in Task, UNCHANGED cpus, foreign'[t] = foreign[t],
         tif_sve'[t] = tif_sve[t], fpsimd_cpu'[t] = fpsimd_cpu[t],
         tif_sve[t] => sve_vl'[t] = sve_vl[t],
         Stored(t)' = Stored(t), pc[t] # "sigret_flush",
         pc'[t] \in {"frame_sync", "frame"} =>
           \A d \in CPU : Live(d, t) => Seen(t, regs[d]) = Stored(t)
  PROVE  \A d \in CPU : PairInv(d, t)'
<1>1. SUFFICES ASSUME NEW d \in CPU PROVE PairInv(d, t)'
  OBVIOUS
<1>2. PairInv(d, t)
  BY DEF FpInv
<1>3. Live(d, t)' = Live(d, t) /\ Seen(t, regs[d])' = Seen(t, regs[d])
  BY DEF Live, Seen, cpus
<1>4. QED
  BY <1>2, <1>3 DEF PairInv, cpus

(* Steps that only change the place of a task.                             *)
LEMMA GotoKeeps ==
  ASSUME FpInv, NEW t \in Task, NEW l \in Label, Goto(t, l),
         UNCHANGED <<flags, memory, fpsimd_cpu, cpus>>,
         l \notin {"free", "set_vl", "sve_acc", "frame_sync", "frame"} \cup Sigreturn,
         pc[t] # "sigret_flush", l = "user" => ~ foreign[t],
         l \in {"syscall", "stop_call"} => pc[t] \in {"syscall", "stop_call"}
  PROVE  FpInv'
<1>1. pc'[t] = l /\ OnlyTask(t)
  BY DEF FpInv, TypeOK, OnlyTask, Goto, flags, memory
<1>2. TaskTyped(t) /\ TaskInv(t)
  BY Typed DEF FpInv
<1>3. TaskTyped(t)'
  BY <1>1, <1>2 DEF TaskTyped, flags, memory
<1>4. TaskInv(t)'
  BY <1>1, <1>2 DEF TaskInv, flags, memory, Sigreturn
<1>5. Stored(t)' = Stored(t)
  BY DEF Stored, flags, memory
<1>6. \A d \in CPU : PairInv(d, t)'
  BY <1>1, <1>5, StillOnRecord DEF flags, memory
<1>7. QED
  BY <1>1, <1>3, <1>4, <1>6, TaskStep

(* A task that runs.                                                       *)
LEMMA Running ==
  ASSUME FpInv, NEW c \in CPU, NEW ls, At(c, cur[c], ls)
  PROVE  /\ cur[c] \in Task /\ pc[cur[c]] \in ls /\ TaskInv(cur[c]) /\ TaskTyped(cur[c])
         /\ PairInv(c, cur[c]) /\ \A d \in CPU \ {c} : cur[d] # cur[c]
  BY Typed DEF FpInv, At, Placed

LEMMA InterruptKeeps ==
  ASSUME FpInv, NEW c \in CPU, Interrupt(c)
  PROVE  FpInv'
<1>1. cur[c] \in Task /\ pc[cur[c]] = "user" /\ "kernel" \in Label
  BY DEF Interrupt, At, Label, Kernel
<1>2. QED
  BY <1>1, GotoKeeps DEF Interrupt, owner, hw, cpus, Sigreturn

LEMMA RetToUserKeeps ==
  ASSUME FpInv, NEW c \in CPU, RetToUser(c)
  PROVE  FpInv'
<1>1. /\ cur[c] \in Task /\ pc[cur[c]] \in {"kernel", "syscall"} /\ ~ foreign[cur[c]]
      /\ "user" \in Label
  BY DEF RetToUser, At, Label
<1>2. QED
  BY <1>1, GotoKeeps DEF RetToUser, owner, hw, cpus, Sigreturn

LEMMA FrameDoneKeeps ==
  ASSUME FpInv, NEW c \in CPU, FrameDone(c) \/ SigreturnFault(c)
  PROVE  FpInv'
<1>1. cur[c] \in Task /\ pc[cur[c]] \in {"frame", "sigret_fpsimd"} /\ "kernel" \in Label
  BY DEF FrameDone, SigreturnFault, At, Label, Kernel
<1>2. QED
  BY <1>1, GotoKeeps DEF FrameDone, SigreturnFault, owner, hw, cpus, Sigreturn

LEMMA ExecKeeps ==
  ASSUME FpInv, NEW c \in CPU, Exec(c) \/ Exit(c)
  PROVE  FpInv'
<1>1. cur[c] \in Task /\ pc[cur[c]] \in {"kernel", "syscall"} /\ {"exec", "exiting"} \subseteq Label
  BY DEF Exec, Exit, At, Label, Kernel
<1>2. QED
  BY <1>1, GotoKeeps DEF Exec, Exit, owner, hw, cpus, Sigreturn

LEMMA TraceStopKeeps ==
  ASSUME FpInv, NEW c \in CPU, TraceStop(c)
  PROVE  FpInv'
<1>1. PICK l \in {"stop_call", "stop_signal"} :
        Goto(cur[c], l) /\ (l = "stop_call" => pc[cur[c]] = "syscall")
  BY DEF TraceStop, At
<1>2. cur[c] \in Task /\ pc[cur[c]] \in {"kernel", "syscall"} /\ l \in Label
  BY DEF TraceStop, At, Label, Stopped
<1>3. QED
  BY <1>1, <1>2, GotoKeeps DEF TraceStop, owner, hw, cpus, Sigreturn

LEMMA TraceContKeeps ==
  ASSUME FpInv, NEW t \in Task, TraceCont(t)
  PROVE  FpInv'
<1>1. PICK l \in {"syscall", "kernel"} :
        Goto(t, l) /\ (l = "syscall" => pc[t] = "stop_call") /\ pc[t] \in Stopped
  BY DEF TraceCont, Stopped
<1>2. l \in Label
  BY DEF Label, Kernel
<1>3. QED
  BY <1>1, <1>2, GotoKeeps DEF TraceCont, owner, hw, cpus, Stopped, Sigreturn

-----------------------------------------------------------------------------
(* Steps that disown the registers of a task.                              *)
LEMMA DisownStep ==
  ASSUME FpInv, NEW t \in Task, OnlyTask(t), TaskTyped(t)', UNCHANGED cpus,
         fpsimd_cpu'[t] = None, foreign'[t] \/ NotRunning(t),
         pc'[t] \notin {"user", "free", "set_vl", "sve_acc", "frame"},
         sve_buf'[t] \in {0, sve_vl'[t]}, tif_sve'[t] => sve_buf'[t] = sve_vl'[t],
         pc'[t] \in {"sigret_copy", "sigret_copied"} => sve_buf'[t] = sve_vl'[t]
  PROVE  FpInv'
<1>1. TaskInv(t)'
  BY DEF TaskInv
<1>2. QED
  BY <1>1, Disowned, TaskStep

LEMMA ZeroTyped ==
  Zero \in Val /\ Zeroes \in Regs
  BY FpsimdAssumption DEF Zeroes, Regs

(* sve_alloc gives a buffer of the right size, and what it leaves there    *)
(* are registers.                                                          *)
LEMMA Alloc ==
  ASSUME NEW t \in Task, TaskTyped(t), TaskInv(t), NEW s \in Task
  PROVE  sve_alloc(t, s).buf = sve_vl[t] /\ sve_alloc(t, s).kept \subseteq Regs
<1>1. {Zeroes} \subseteq Regs /\ {Zero, sve_state[t][1]} \X {Zero, sve_state[t][2]} \subseteq Regs
  BY ZeroTyped DEF TaskTyped, Regs
<1>2. CASE sve_buf[t] = 0
  BY <1>1, <1>2 DEF sve_alloc
<1>3. CASE sve_buf[t] # 0
  <2>1. sve_buf[t] = sve_vl[t]
    BY <1>3 DEF TaskInv
  <2>2. QED
    BY <1>1, <1>3, <2>1 DEF sve_alloc
<1>4. QED
  BY <1>2, <1>3

LEMMA SigreturnForeignKeeps ==
  ASSUME FpInv, NEW c \in CPU, NEW t \in Task, cur[c] = t, SigreturnForeign(c)
  PROVE  FpInv' /\ OnlyTask(t)
<1>1. t \in Task /\ pc[t] = "sigret_flush" /\ TaskInv(t) /\ TaskTyped(t)
  BY Typed DEF SigreturnForeign, At, FpInv
<1>2. /\ pc'[t] = "sigret_foreign" /\ foreign'[t] = TRUE
      /\ UNCHANGED <<tif_sve, memory, fpsimd_cpu, cpus>>
  BY <1>1 DEF SigreturnForeign, Goto, FpInv, TypeOK, owner, hw, cpus
<1>3. OnlyTask(t)
  BY <1>1, <1>2 DEF SigreturnForeign, Goto, FpInv, TypeOK, OnlyTask, memory
<1>4. TaskTyped(t)'
  BY <1>1, <1>2 DEF TaskTyped, memory, Label, Kernel, Sigreturn
<1>5. QED
  BY <1>1, <1>2, <1>3, <1>4, DisownStep DEF TaskInv, memory

(* The frame is copied to memory of which no CPU holds a newer version.    *)
LEMMA CopyStep ==
  ASSUME FpInv, NEW c \in CPU, NEW t \in Task, cur[c] = t, OnlyTask(t), TaskTyped(t)',
         pc[t] \in {"sigret_foreign", "sigret_copy", "sigret_copied"},
         pc'[t] \in {"sigret_copy", "sigret_copied", "sigret_fpsimd", "kernel"},
         sve_buf'[t] = sve_vl'[t], UNCHANGED <<foreign, fpsimd_cpu, cpus>>
  PROVE  FpInv'
<1>1. TaskInv(t) /\ PairInv(c, t) /\ TaskTyped(t)
  BY Typed DEF FpInv
<1>2. fpsimd_cpu'[t] = None /\ foreign'[t]
  BY <1>1, FpsimdAssumption DEF TaskInv, PairInv, Live
<1>3. QED
  BY <1>2, DisownStep

LEMMA SigreturnAllocKeeps ==
  ASSUME FpInv, NEW c \in CPU, NEW t \in Task, cur[c] = t, SigreturnAlloc(c)
  PROVE  FpInv' /\ OnlyTask(t)
<1>1. pc[t] = "sigret_foreign" /\ TaskInv(t) /\ TaskTyped(t)
  BY Typed DEF SigreturnAlloc, At, FpInv
<1>2. sve_alloc(t, t).buf = sve_vl[t] /\ sve_alloc(t, t).kept \subseteq Regs
  BY <1>1, Alloc
<1>3. PICK r \in Regs : sve_state' = [sve_state EXCEPT ![t] = r]
  BY <1>2 DEF SigreturnAlloc
<1>4. /\ pc'[t] = "sigret_copy" /\ sve_buf'[t] = sve_vl[t] /\ sve_state'[t] = r
      /\ UNCHANGED <<flags, fpsimd_state, sve_vl, fpsimd_cpu, cpus>>
  BY <1>2, <1>3 DEF SigreturnAlloc, Goto, FpInv, TypeOK, owner, hw, cpus
<1>5. OnlyTask(t)
  <2>1. /\ pc' = [pc EXCEPT ![t] = pc'[t]] /\ sve_buf' = [sve_buf EXCEPT ![t] = sve_buf'[t]]
    BY <1>2, <1>4 DEF SigreturnAlloc, Goto
  <2>2. QED
    BY <1>3, <1>4, <2>1 DEF FpInv, TypeOK, OnlyTask, flags
<1>6. TaskTyped(t)'
  BY <1>1, <1>4 DEF TaskTyped, Label, Kernel, Sigreturn, flags
<1>7. QED
  BY <1>1, <1>4, <1>5, <1>6, CopyStep DEF flags

LEMMA SigreturnCopyKeeps ==
  ASSUME FpInv, NEW c \in CPU, NEW t \in Task, cur[c] = t, SigreturnCopy(c)
  PROVE  FpInv' /\ OnlyTask(t)
<1>1. pc[t] = "sigret_copy" /\ TaskInv(t) /\ TaskTyped(t)
  BY Typed DEF SigreturnCopy, At, FpInv
<1>2. PICK r \in Regs : sve_state' = [sve_state EXCEPT ![t] = r]
  BY DEF SigreturnCopy
<1>3. PICK l \in {"sigret_copied", "kernel"} : pc' = [pc EXCEPT ![t] = l]
  BY DEF SigreturnCopy, Goto
<1>4. /\ pc'[t] = l /\ sve_state'[t] = r
      /\ UNCHANGED <<flags, fpsimd_state, sve_buf, sve_vl, fpsimd_cpu, cpus>>
  BY <1>2, <1>3 DEF SigreturnCopy, FpInv, TypeOK, owner, hw, cpus
<1>5. OnlyTask(t)
  BY <1>2, <1>3, <1>4 DEF FpInv, TypeOK, OnlyTask, flags
<1>6. TaskTyped(t)'
  BY <1>1, <1>4 DEF TaskTyped, Label, Kernel, Sigreturn, flags
<1>7. sve_buf'[t] = sve_vl'[t]
  BY <1>1, <1>4 DEF TaskInv
<1>8. QED
  BY <1>1, <1>4, <1>5, <1>6, <1>7, CopyStep DEF flags

LEMMA SigreturnSveKeeps ==
  ASSUME FpInv, NEW c \in CPU, NEW t \in Task, cur[c] = t, SigreturnSve(c)
  PROVE  FpInv' /\ OnlyTask(t)
<1>1. pc[t] = "sigret_copied" /\ TaskInv(t) /\ TaskTyped(t)
  BY Typed DEF SigreturnSve, At, FpInv
<1>2. /\ pc'[t] = "sigret_fpsimd" /\ tif_sve'[t] = TRUE
      /\ UNCHANGED <<foreign, memory, fpsimd_cpu, cpus>>
  BY DEF SigreturnSve, Goto, FpInv, TypeOK, owner, hw, cpus
<1>3. OnlyTask(t)
  BY <1>2 DEF SigreturnSve, Goto, FpInv, TypeOK, OnlyTask, memory
<1>4. TaskTyped(t)'
  BY <1>1, <1>2 DEF TaskTyped, memory, Label, Kernel, Sigreturn
<1>5. sve_buf'[t] = sve_vl'[t]
  BY <1>1, <1>2 DEF TaskInv, memory
<1>6. QED
  BY <1>1, <1>2, <1>3, <1>4, <1>5, CopyStep

LEMMA FlushThreadKeeps ==
  ASSUME FpInv, NEW c \in CPU, NEW t \in Task, cur[c] = t, FlushThread(c)
  PROVE  FpInv' /\ OnlyTask(t)
<1>1. t \in Task /\ TaskTyped(t)
  BY Running DEF FlushThread
<1>2. /\ pc'[t] = "kernel" /\ foreign'[t] = TRUE /\ tif_sve'[t] = FALSE
      /\ fpsimd_state'[t] = Zero /\ sve_state'[t] = Zeroes
  BY <1>1 DEF FlushThread, Goto, FpInv, TypeOK
<1>3. sve_buf'[t] = 0 /\ sve_vl'[t] \in Vl /\ fpsimd_cpu'[t] = None /\ UNCHANGED cpus
  BY <1>1 DEF FlushThread, fpsimd_flush_task_state, FpInv, TypeOK, owner, hw, cpus
<1>4. OnlyTask(t)
  <2>1. /\ pc' = [pc EXCEPT ![t] = pc'[t]] /\ foreign' = [foreign EXCEPT ![t] = foreign'[t]]
        /\ tif_sve' = [tif_sve EXCEPT ![t] = tif_sve'[t]]
        /\ fpsimd_state' = [fpsimd_state EXCEPT ![t] = fpsimd_state'[t]]
    BY <1>1, <1>2 DEF FlushThread, Goto
  <2>2. /\ sve_state' = [sve_state EXCEPT ![t] = sve_state'[t]]
        /\ sve_buf' = [sve_buf EXCEPT ![t] = sve_buf'[t]]
        /\ sve_vl' = [sve_vl EXCEPT ![t] = sve_vl'[t]]
        /\ fpsimd_cpu' = [fpsimd_cpu EXCEPT ![t] = fpsimd_cpu'[t]]
    BY <1>1, <1>2, <1>3 DEF FlushThread, fpsimd_flush_task_state, FpInv, TypeOK
  <2>3. QED
    BY <2>1, <2>2 DEF OnlyTask
<1>5. TaskTyped(t)'
  BY <1>1, <1>2, <1>3, ZeroTyped DEF TaskTyped, Label, Kernel
<1>6. QED
  BY <1>1, <1>2, <1>3, <1>4, <1>5, DisownStep

LEMMA ReleaseKeeps ==
  ASSUME FpInv, NEW t \in Task, Release(t)
  PROVE  FpInv' /\ OnlyTask(t)
<1>1. TaskTyped(t) /\ NotRunning(t)
  BY Typed DEF FpInv, Release
<1>2. /\ pc'[t] = "free" /\ foreign'[t] = TRUE /\ tif_sve'[t] = FALSE
      /\ fpsimd_state'[t] = Zero /\ sve_state'[t] = Zeroes
  BY DEF Release, Goto, FpInv, TypeOK
<1>3. sve_buf'[t] = 0 /\ sve_vl' = sve_vl /\ fpsimd_cpu'[t] = None /\ UNCHANGED cpus
  BY DEF Release, FpInv, TypeOK, owner, hw, cpus
<1>4. OnlyTask(t)
  BY <1>2, <1>3 DEF Release, Goto, FpInv, TypeOK, OnlyTask
<1>5. TaskTyped(t)'
  BY <1>1, <1>2, <1>3, ZeroTyped DEF TaskTyped, Label
<1>6. TaskInv(t)'
  BY <1>2, <1>3 DEF TaskInv
<1>7. \A d \in CPU : PairInv(d, t)'
  BY <1>1, <1>3, Disowned
<1>8. QED
  BY <1>1, <1>3, <1>4, <1>5, <1>6, <1>7, TaskStep

-----------------------------------------------------------------------------
(* Tracers.                                                                *)
LEMMA Traced ==
  ASSUME FpInv, NEW c \in CPU, NEW t \in Task, Traces(c, t)
  PROVE  /\ cur[c] \in Task /\ TaskTyped(cur[c]) /\ pc[t] \in Stopped /\ NotRunning(t)
         /\ TaskTyped(t) /\ TaskInv(t) /\ Synced(t) \in Val
  BY Typed DEF FpInv, Traces, At, TaskTyped, Synced, Regs

(* A tracer that disowns the registers of the task it changes.             *)
LEMMA TraceStep ==
  ASSUME FpInv, NEW c \in CPU, NEW t \in Task, Traces(c, t),
         UNCHANGED <<pc, foreign, cpus>>,
         fpsimd_cpu' = fpsimd_flush_task_state(t, fpsimd_cpu),
         NEW f \in Val, fpsimd_state' = [fpsimd_state EXCEPT ![t] = f],
         NEW s \in Regs, sve_state' = [sve_state EXCEPT ![t] = s],
         NEW vl \in Vl, sve_vl' = [sve_vl EXCEPT ![t] = vl],
         NEW b \in {0, vl}, sve_buf' = [sve_buf EXCEPT ![t] = b],
         NEW e \in BOOLEAN, tif_sve' = [tif_sve EXCEPT ![t] = e], e => b = vl
  PROVE  FpInv' /\ OnlyTask(t)
<1>1. pc[t] \in Stopped /\ NotRunning(t) /\ TaskTyped(t)
  BY Traced
<1>2. /\ fpsimd_cpu'[t] = None /\ fpsimd_state'[t] = f /\ sve_state'[t] = s
      /\ sve_vl'[t] = vl /\ sve_buf'[t] = b /\ tif_sve'[t] = e
  BY DEF FpInv, TypeOK, fpsimd_flush_task_state
<1>3. OnlyTask(t)
  BY <1>2 DEF FpInv, TypeOK, OnlyTask, fpsimd_flush_task_state
<1>4. TaskTyped(t)'
  BY <1>1, <1>2 DEF TaskTyped
<1>5. QED
  BY <1>1, <1>2, <1>3, <1>4, DisownStep DEF Stopped

LEMMA FprSetKeeps ==
  ASSUME FpInv, NEW c \in CPU, NEW t \in Task, fpr_set(c, t)
  PROVE  FpInv' /\ OnlyTask(t)
<1>1. Traces(c, t) /\ TaskTyped(t) /\ TaskInv(t)
  BY Traced DEF fpr_set
<1>2. PICK v \in Val :
        /\ fpsimd_state' = [fpsimd_state EXCEPT ![t] = v]
        /\ sve_state' = [sve_state EXCEPT ![t] = IF tif_sve[t] THEN <<v, Zero>> ELSE @]
  BY DEF fpr_set, FpInv, TypeOK
<1>3. (IF tif_sve[t] THEN <<v, Zero>> ELSE sve_state[t]) \in Regs
  BY <1>1, ZeroTyped DEF TaskTyped, Regs
<1>4. /\ fpsimd_cpu' = fpsimd_flush_task_state(t, fpsimd_cpu) /\ UNCHANGED <<pc, foreign, cpus>>
      /\ sve_vl' = [sve_vl EXCEPT ![t] = sve_vl[t]]
      /\ sve_buf' = [sve_buf EXCEPT ![t] = sve_buf[t]]
      /\ tif_sve' = [tif_sve EXCEPT ![t] = tif_sve[t]]
  BY DEF fpr_set, FpInv, TypeOK, flags, hw, cpus
<1>5. sve_vl[t] \in Vl /\ sve_buf[t] \in {0, sve_vl[t]} /\ tif_sve[t] \in BOOLEAN
      /\ (tif_sve[t] => sve_buf[t] = sve_vl[t])
  BY <1>1 DEF TaskTyped, TaskInv
<1>6. QED
  BY <1>1, <1>2, <1>3, <1>4, <1>5, TraceStep

LEMMA SveSetVlKeeps ==
  ASSUME FpInv, NEW c \in CPU, NEW t \in Task, SveSetVl(c, t)
  PROVE  FpInv' /\ OnlyTask(t)
<1>1. Traces(c, t) /\ Synced(t) \in Val
  BY Traced DEF SveSetVl
<1>2. PICK vl \in Vl : sve_vl' = [sve_vl EXCEPT ![t] = vl]
  BY DEF SveSetVl
<1>3. /\ fpsimd_cpu' = fpsimd_flush_task_state(t, fpsimd_cpu) /\ UNCHANGED <<pc, foreign, cpus>>
      /\ fpsimd_state' = [fpsimd_state EXCEPT ![t] = Synced(t)]
      /\ sve_state' = [sve_state EXCEPT ![t] = Zeroes] /\ sve_buf' = [sve_buf EXCEPT ![t] = 0]
      /\ tif_sve' = [tif_sve EXCEPT ![t] = FALSE]
  BY DEF SveSetVl, hw, cpus
<1>4. QED
  BY <1>1, <1>2, <1>3, ZeroTyped, TraceStep

LEMMA SveSetFpsimdKeeps ==
  ASSUME FpInv, NEW c \in CPU, NEW t \in Task, SveSetFpsimd(c, t)
  PROVE  FpInv' /\ OnlyTask(t)
<1>1. Traces(c, t) /\ TaskTyped(t) /\ TaskInv(t)
  BY Traced DEF SveSetFpsimd
<1>2. PICK vl \in Vl :
        /\ sve_vl' = [sve_vl EXCEPT ![t] = vl]
        /\ sve_buf' = [sve_buf EXCEPT ![t] = IF vl = sve_vl[t] THEN sve_buf[t] ELSE 0]
        /\ sve_state' = [sve_state EXCEPT ![t] = IF vl = sve_vl[t] THEN sve_state[t] ELSE Zeroes]
  BY DEF SveSetFpsimd
<1>3. PICK v \in Val : fpsimd_state' = [fpsimd_state EXCEPT ![t] = v]
  BY DEF SveSetFpsimd
<1>4. /\ fpsimd_cpu' = fpsimd_flush_task_state(t, fpsimd_cpu) /\ UNCHANGED <<pc, foreign, cpus>>
      /\ tif_sve' = [tif_sve EXCEPT ![t] = FALSE]
  BY DEF SveSetFpsimd, hw, cpus
<1>5. /\ (IF vl = sve_vl[t] THEN sve_buf[t] ELSE 0) \in {0, vl}
      /\ (IF vl = sve_vl[t] THEN sve_state[t] ELSE Zeroes) \in Regs
  BY <1>1, ZeroTyped DEF TaskTyped, TaskInv
<1>6. QED
  BY <1>1, <1>2, <1>3, <1>4, <1>5, TraceStep

LEMMA SveSetSveKeeps ==
  ASSUME FpInv, NEW c \in CPU, NEW t \in Task, NEW full \in BOOLEAN, SveSetSve(c, t, full)
  PROVE  FpInv' /\ OnlyTask(t)
<1>1. Traces(c, t) /\ cur[c] \in Task /\ TaskTyped(t) /\ TaskInv(t) /\ Synced(t) \in Val
  BY Traced DEF SveSetSve
<1>2. PICK vl \in Vl :
        LET same == vl = sve_vl[t]
            alloc == IF same THEN sve_alloc(t, cur[c]) ELSE [buf |-> vl, kept |-> {Zeroes}]
        IN /\ sve_vl' = [sve_vl EXCEPT ![t] = vl]
           /\ sve_buf' = [sve_buf EXCEPT ![t] = alloc.buf]
           /\ fpsimd_state' = [fpsimd_state EXCEPT ![t] = IF same THEN @ ELSE Synced(t)]
           /\ \E k \in alloc.kept, r \in Regs :
                sve_state' = [sve_state EXCEPT ![t] =
                                IF full THEN r
                                ELSE IF same /\ tif_sve[t] THEN k
                                ELSE <<Synced(t), k[2]>>]
  BY DEF SveSetSve
<1> DEFINE same == vl = sve_vl[t]
           alloc == IF same THEN sve_alloc(t, cur[c]) ELSE [buf |-> vl, kept |-> {Zeroes}]
<1>3. alloc.buf = vl /\ alloc.kept \subseteq Regs
  BY <1>1, Alloc, ZeroTyped
<1>4. PICK s \in Regs : sve_state' = [sve_state EXCEPT ![t] = s]
  <2>1. PICK k \in alloc.kept, r \in Regs :
          sve_state' = [sve_state EXCEPT ![t] =
                          IF full THEN r
                          ELSE IF same /\ tif_sve[t] THEN k
                          ELSE <<Synced(t), k[2]>>]
    BY <1>2
  <2>2. k \in Regs /\ <<Synced(t), k[2]>> \in Regs
    BY <1>1, <1>3 DEF Regs
  <2>3. (IF full THEN r ELSE IF same /\ tif_sve[t] THEN k ELSE <<Synced(t), k[2]>>) \in Regs
    BY <2>2
  <2>4. QED
    BY <2>1, <2>3
<1>5. PICK f \in Val : fpsimd_state' = [fpsimd_state EXCEPT ![t] = f]
  <2>1. (IF same THEN fpsimd_state[t] ELSE Synced(t)) \in Val
    BY <1>1 DEF TaskTyped
  <2>2. fpsimd_state' = [fpsimd_state EXCEPT ![t] = IF same THEN fpsimd_state[t] ELSE Synced(t)]
    BY <1>2
  <2>3. QED
    BY <2>1, <2>2
<1>6. sve_vl' = [sve_vl EXCEPT ![t] = vl] /\ sve_buf' = [sve_buf EXCEPT ![t] = vl]
  BY <1>2, <1>3
<1>7. /\ fpsimd_cpu' = fpsimd_flush_task_state(t, fpsimd_cpu) /\ UNCHANGED <<pc, foreign, cpus>>
      /\ tif_sve' = [tif_sve EXCEPT ![t] = TRUE]
  BY DEF SveSetSve, hw, cpus
<1>8. vl \in {0, vl} /\ TRUE \in BOOLEAN
  OBVIOUS
<1> HIDE DEF same, alloc
<1>9. QED
  BY <1>1, <1>4, <1>5, <1>6, <1>7, <1>8, TraceStep

LEMMA FprGetKeeps ==
  ASSUME FpInv, NEW c \in CPU, NEW t \in Task, FprGet(c, t)
  PROVE  FpInv' /\ OnlyTask(t)
<1>1. /\ Traces(c, t) /\ TaskTyped(t) /\ TaskInv(t) /\ Synced(t) \in Val /\ NotRunning(t)
      /\ pc[t] \in Stopped
  BY Traced DEF FprGet
<1>2. /\ fpsimd_state'[t] = Synced(t)
      /\ UNCHANGED <<pc, flags, sve_state, sve_buf, sve_vl, fpsimd_cpu, cpus>>
  BY DEF FprGet, FpInv, TypeOK, owner, hw, cpus
<1>3. OnlyTask(t)
  BY <1>2 DEF FprGet, FpInv, TypeOK, OnlyTask, flags
<1>4. TaskTyped(t)' /\ TaskInv(t)'
  BY <1>1, <1>2 DEF TaskTyped, TaskInv, flags, Stopped
<1>5. Stored(t)' = Stored(t)
  BY <1>2 DEF Stored, Synced, flags
<1>6. \A d \in CPU : PairInv(d, t)'
  BY <1>1, <1>2, <1>5, StillOnRecord DEF flags, Stopped
<1>7. QED
  BY <1>1, <1>2, <1>3, <1>4, <1>6, TaskStep

-----------------------------------------------------------------------------
(* Steps of a task that leave its registers in memory as they are.         *)
LEMMA SveTrapKeeps ==
  ASSUME FpInv, NEW c \in CPU, NEW t \in Task, cur[c] = t, SveTrap(c)
  PROVE  FpInv' /\ OnlyTask(t)
<1>1. /\ pc[t] = "user" /\ TaskInv(t) /\ TaskTyped(t) /\ PairInv(c, t) /\ ~ cpacr[c]
  <2>1. At(c, cur[c], {"user"}) /\ ~ cpacr[c]
    BY DEF SveTrap
  <2>2. /\ pc[cur[c]] \in {"user"} /\ TaskInv(cur[c]) /\ TaskTyped(cur[c])
        /\ PairInv(c, cur[c])
    BY <2>1, Running
  <2>3. QED
    BY <2>1, <2>2
<1>2. ~ tif_sve[t]
  BY <1>1 DEF TaskInv, PairInv, Live, TaskTyped
<1>3. sve_alloc(t, t).buf = sve_vl[t] /\ sve_alloc(t, t).kept = {Zeroes}
  <2>1. sve_vl[t] >= sve_vl[t]
    <3>1. sve_vl[t] \in Nat
      BY <1>1, FpsimdAssumption DEF TaskTyped
    <3>2. QED
      BY <3>1, SMT
  <2>2. sve_alloc(t, t).kept = {Zeroes}
    BY <2>1 DEF sve_alloc
  <2>3. QED
    BY <1>1, <2>2, Alloc
<1>4. /\ pc'[t] = "sve_acc" /\ sve_buf'[t] = sve_vl[t] /\ sve_state'[t] = Zeroes
      /\ UNCHANGED <<flags, fpsimd_state, sve_vl, fpsimd_cpu, cpus>>
  BY <1>3 DEF SveTrap, Goto, FpInv, TypeOK, owner, hw, cpus
<1>5. OnlyTask(t)
  <2>1. /\ sve_state' = [sve_state EXCEPT ![t] = sve_state'[t]]
        /\ sve_buf' = [sve_buf EXCEPT ![t] = sve_buf'[t]] /\ pc' = [pc EXCEPT ![t] = pc'[t]]
    BY <1>3, <1>4 DEF SveTrap, Goto, FpInv, TypeOK
  <2>2. QED
    BY <1>4, <2>1 DEF FpInv, TypeOK, OnlyTask, flags
<1>6. TaskTyped(t)' /\ TaskInv(t)'
  BY <1>1, <1>2, <1>4, ZeroTyped DEF TaskTyped, TaskInv, flags, Label, Kernel
<1>7. Stored(t)' = Stored(t)
  BY <1>2, <1>4 DEF Stored, flags
<1>8. \A d \in CPU : PairInv(d, t)'
  BY <1>1, <1>4, <1>7, StillOnRecord DEF flags
<1>9. QED
  BY <1>4, <1>5, <1>6, <1>8, TaskStep

LEMMA SetVlFreeKeeps ==
  ASSUME FpInv, NEW c \in CPU, NEW t \in Task, cur[c] = t, SetVlFree(c)
  PROVE  FpInv' /\ OnlyTask(t)
<1>1. pc[t] = "set_vl" /\ TaskInv(t) /\ TaskTyped(t) /\ ~ tif_sve[t]
  BY Typed DEF SetVlFree, At, FpInv, TaskInv
<1>2. /\ pc'[t] = "syscall" /\ sve_buf'[t] = 0 /\ sve_state'[t] = Zeroes /\ sve_vl'[t] \in Vl
      /\ UNCHANGED <<flags, fpsimd_state, fpsimd_cpu, cpus>>
  BY DEF SetVlFree, Goto, FpInv, TypeOK, owner, hw, cpus
<1>3. OnlyTask(t)
  <2>1. /\ sve_state' = [sve_state EXCEPT ![t] = sve_state'[t]]
        /\ sve_buf' = [sve_buf EXCEPT ![t] = sve_buf'[t]] /\ pc' = [pc EXCEPT ![t] = pc'[t]]
        /\ sve_vl' = [sve_vl EXCEPT ![t] = sve_vl'[t]]
    BY <1>2 DEF SetVlFree, Goto, FpInv, TypeOK
  <2>2. QED
    BY <1>2, <2>1 DEF FpInv, TypeOK, OnlyTask, flags
<1>4. TaskTyped(t)' /\ TaskInv(t)'
  BY <1>1, <1>2, ZeroTyped DEF TaskTyped, TaskInv, flags, Label, Kernel
<1>5. Stored(t)' = Stored(t)
  BY <1>1, <1>2 DEF Stored, flags
<1>6. \A d \in CPU : PairInv(d, t)'
  BY <1>1, <1>2, <1>5, StillOnRecord DEF flags
<1>7. QED
  BY <1>2, <1>3, <1>4, <1>6, TaskStep

LEMMA SigreturnFlushKeeps ==
  ASSUME FpInv, NEW c \in CPU, NEW t \in Task, cur[c] = t, SigreturnFlush(c)
  PROVE  FpInv' /\ OnlyTask(t)
<1>1. pc[t] = "syscall" /\ TaskInv(t) /\ TaskTyped(t) /\ \A d \in CPU \ {c} : cur[d] # t
  BY Typed DEF SigreturnFlush, At, FpInv, Placed
<1>2. pc'[t] = "sigret_flush" /\ fpsimd_cpu'[t] = None /\ UNCHANGED <<flags, memory, cpus>>
  BY DEF SigreturnFlush, Goto, fpsimd_flush_task_state, FpInv, TypeOK, hw, cpus
<1>3. OnlyTask(t)
  BY <1>2 DEF SigreturnFlush, Goto, fpsimd_flush_task_state, FpInv, TypeOK, OnlyTask,
       flags, memory
<1>4. TaskTyped(t)' /\ TaskInv(t)'
  BY <1>1, <1>2 DEF TaskTyped, TaskInv, flags, memory, Label, Kernel, Sigreturn
<1>5. ASSUME NEW d \in CPU PROVE PairInv(d, t)'
  <2>1. PairInv(d, t) /\ Live(d, t)' = Live(d, t) /\ d # None
    BY <1>2, FpsimdAssumption DEF FpInv, Live, flags, cpus
  <2>2. QED
    BY <1>2, <2>1 DEF PairInv, flags, memory, cpus
<1>6. QED
  BY <1>2, <1>3, <1>4, <1>5, TaskStep

LEMMA SigreturnFpsimdKeeps ==
  ASSUME FpInv, NEW c \in CPU, NEW t \in Task, cur[c] = t, SigreturnFpsimd(c)
  PROVE  FpInv' /\ OnlyTask(t)
<1>1. /\ pc[t] = "syscall" /\ TaskInv(t) /\ TaskTyped(t) /\ PairInv(c, t)
      /\ \A d \in CPU \ {c} : cur[d] # t
  BY Typed DEF SigreturnFpsimd, At, FpInv, Placed
<1>2. /\ pc'[t] = "sigret_fpsimd" /\ tif_sve'[t] = FALSE
      /\ UNCHANGED <<foreign, memory, fpsimd_cpu, cpus>>
  BY DEF SigreturnFpsimd, Goto, FpInv, TypeOK, owner, hw, cpus
<1>3. OnlyTask(t)
  BY <1>2 DEF SigreturnFpsimd, Goto, FpInv, TypeOK, OnlyTask, memory
<1>4. TaskTyped(t)' /\ TaskInv(t)'
  BY <1>1, <1>2 DEF TaskTyped, TaskInv, memory, Label, Kernel, Sigreturn
<1>5. CASE tif_sve[t]
  <2>1. fpsimd_cpu[t] = None /\ ~ Live(c, t)
    BY <1>1, <1>5, FpsimdAssumption DEF TaskInv, PairInv
  <2>2. foreign[t]
    BY <2>1 DEF Live
  <2>3. \A d \in CPU : PairInv(d, t)'
    BY <1>2, <2>1, <2>2, Disowned
  <2>4. QED
    BY <1>2, <1>3, <1>4, <2>3, TaskStep
<1>6. CASE ~ tif_sve[t]
  <2>1. tif_sve'[t] = tif_sve[t]
    BY <1>1, <1>2, <1>6 DEF TaskTyped
  <2>2. Stored(t)' = Stored(t)
    BY <1>2, <2>1 DEF Stored, memory
  <2>3. \A d \in CPU : PairInv(d, t)'
    BY <1>1, <1>2, <1>6, <2>1, <2>2, StillOnRecord DEF memory
  <2>4. QED
    BY <1>2, <1>3, <1>4, <2>3, TaskStep
<1>7. QED
  BY <1>5, <1>6

-----------------------------------------------------------------------------
(* fpsimd_save.  After it the current task has in memory what it sees in   *)
(* the registers, if they are its own.                                     *)
SavedF(c, t) == IF Live(c, t) /\ ~ tif_sve[t] THEN regs[c][1] ELSE fpsimd_state[t]
SavedS(c, t) == IF Live(c, t) /\ tif_sve[t] THEN regs[c] ELSE sve_state[t]

LEMMA SaveOwn ==
  ASSUME FpInv, NEW c \in CPU, NEW t \in Task, cur[c] = t
  PROVE  /\ SavedFpsimd(c) = [fpsimd_state EXCEPT ![t] = SavedF(c, t)]
         /\ SavedSve(c) = [sve_state EXCEPT ![t] = SavedS(c, t)]
         /\ SavedF(c, t) \in Val /\ SavedS(c, t) \in Regs
<1>1. PairInv(c, t) /\ TaskTyped(t) /\ CpuTyped(c)
  BY Typed DEF FpInv
<1>2. LiveOn(c) = Live(c, t)
  BY DEF LiveOn, Live
<1>3. Live(c, t) => last_state[c] = t /\ (tif_sve[t] => zcr[c] = sve_vl[t])
  BY <1>1 DEF PairInv
<1>4. SavedFpsimd(c) = [fpsimd_state EXCEPT ![t] = SavedF(c, t)]
  BY <1>2, <1>3 DEF SavedFpsimd, SavedF, FpInv, TypeOK
<1>5. SavedSve(c) = [sve_state EXCEPT ![t] = SavedS(c, t)]
  BY <1>2, <1>3 DEF SavedSve, SavedS, FpInv, TypeOK
<1>6. SavedF(c, t) \in Val /\ SavedS(c, t) \in Regs
  BY <1>1 DEF TaskTyped, CpuTyped, SavedF, SavedS, Regs
<1>7. QED
  BY <1>4, <1>5, <1>6

LEMMA DoSveAccKeeps ==
  ASSUME FpInv, NEW c \in CPU, NEW t \in Task, cur[c] = t, do_sve_acc(c)
  PROVE  FpInv' /\ OnlyTask(t)
<1>1. pc[t] = "sve_acc" /\ TaskInv(t) /\ TaskTyped(t)
  BY Typed DEF do_sve_acc, At, FpInv
<1>2. /\ SavedFpsimd(c) = [fpsimd_state EXCEPT ![t] = SavedF(c, t)]
      /\ SavedSve(c) = [sve_state EXCEPT ![t] = SavedS(c, t)]
      /\ SavedF(c, t) \in Val /\ SavedS(c, t) \in Regs
  BY SaveOwn
<1>3. /\ fpsimd_state' = [fpsimd_state EXCEPT ![t] = SavedF(c, t)]
      /\ fpsimd_state'[t] = SavedF(c, t)
  BY <1>2 DEF do_sve_acc, FpInv, TypeOK
<1>4. /\ sve_state' = [sve_state EXCEPT ![t] = <<SavedF(c, t), SavedS(c, t)[2]>>]
      /\ sve_state'[t] = <<SavedF(c, t), SavedS(c, t)[2]>>
  BY <1>2, <1>3 DEF do_sve_acc, FpInv, TypeOK
<1>5. /\ pc'[t] = "kernel" /\ foreign'[t] = TRUE /\ tif_sve'[t] = TRUE
      /\ fpsimd_cpu'[t] = None /\ UNCHANGED <<sve_buf, sve_vl, cpus>>
  BY DEF do_sve_acc, Goto, fpsimd_flush_task_state, FpInv, TypeOK, hw, cpus
<1>6. OnlyTask(t)
  <2>1. /\ pc' = [pc EXCEPT ![t] = pc'[t]] /\ foreign' = [foreign EXCEPT ![t] = foreign'[t]]
        /\ tif_sve' = [tif_sve EXCEPT ![t] = tif_sve'[t]]
        /\ fpsimd_cpu' = [fpsimd_cpu EXCEPT ![t] = fpsimd_cpu'[t]]
    BY <1>5 DEF do_sve_acc, Goto, fpsimd_flush_task_state
  <2>2. /\ sve_buf' = [sve_buf EXCEPT ![t] = sve_buf'[t]]
        /\ sve_vl' = [sve_vl EXCEPT ![t] = sve_vl'[t]]
    BY <1>5 DEF FpInv, TypeOK
  <2>3. QED
    BY <1>3, <1>4, <2>1, <2>2 DEF OnlyTask
<1>7. TaskTyped(t)'
  <2>1. <<SavedF(c, t), SavedS(c, t)[2]>> \in Regs
    BY <1>2 DEF Regs
  <2>2. QED
    BY <1>1, <1>2, <1>3, <1>4, <1>5, <2>1 DEF TaskTyped, Label, Kernel
<1>8. sve_buf'[t] = sve_vl'[t]
  BY <1>1, <1>5 DEF TaskInv
<1>9. QED
  BY <1>5, <1>6, <1>7, <1>8, DisownStep

LEMMA SetVlKeeps ==
  ASSUME FpInv, NEW c \in CPU, NEW t \in Task, cur[c] = t, SetVl(c)
  PROVE  FpInv' /\ OnlyTask(t)
<1>1. pc[t] = "syscall" /\ TaskInv(t) /\ TaskTyped(t)
  BY Typed DEF SetVl, At, FpInv
<1>2. /\ SavedFpsimd(c) = [fpsimd_state EXCEPT ![t] = SavedF(c, t)]
      /\ SavedSve(c) = [sve_state EXCEPT ![t] = SavedS(c, t)]
      /\ SavedF(c, t) \in Val /\ SavedS(c, t) \in Regs
  BY SaveOwn
<1>3. sve_state' = [sve_state EXCEPT ![t] = SavedS(c, t)] /\ sve_state'[t] = SavedS(c, t)
  BY <1>2 DEF SetVl, FpInv, TypeOK
<1> DEFINE f == IF tif_sve[t] THEN SavedS(c, t)[1] ELSE SavedF(c, t)
<1>4. fpsimd_state' = [fpsimd_state EXCEPT ![t] = f] /\ fpsimd_state'[t] = f
  BY <1>2, <1>3 DEF SetVl, FpInv, TypeOK
<1>5. f \in Val
  BY <1>2 DEF Regs
<1> HIDE DEF f
<1>6. /\ pc'[t] = "set_vl" /\ foreign'[t] = TRUE /\ tif_sve'[t] = FALSE
      /\ fpsimd_cpu'[t] = None /\ UNCHANGED <<sve_buf, sve_vl, cpus>>
  BY DEF SetVl, Goto, fpsimd_flush_task_state, FpInv, TypeOK, hw, cpus
<1>7. OnlyTask(t)
  <2>1. /\ pc' = [pc EXCEPT ![t] = pc'[t]] /\ foreign' = [foreign EXCEPT ![t] = foreign'[t]]
        /\ tif_sve' = [tif_sve EXCEPT ![t] = tif_sve'[t]]
        /\ fpsimd_cpu' = [fpsimd_cpu EXCEPT ![t] = fpsimd_cpu'[t]]
    BY <1>6 DEF SetVl, Goto, fpsimd_flush_task_state
  <2>2. /\ sve_buf' = [sve_buf EXCEPT ![t] = sve_buf'[t]]
        /\ sve_vl' = [sve_vl EXCEPT ![t] = sve_vl'[t]]
    BY <1>6 DEF FpInv, TypeOK
  <2>3. QED
    BY <1>3, <1>4, <2>1, <2>2 DEF OnlyTask
<1>8. TaskTyped(t)' /\ TaskInv(t)'
  BY <1>1, <1>2, <1>3, <1>4, <1>5, <1>6 DEF TaskTyped, TaskInv, Label, Kernel
<1>9. \A d \in CPU : PairInv(d, t)'
  BY <1>6, Disowned
<1>10. QED
  BY <1>6, <1>7, <1>8, <1>9, TaskStep

LEMMA SetupFrameKeeps ==
  ASSUME FpInv, NEW c \in CPU, NEW t \in Task, cur[c] = t, SetupFrame(c)
  PROVE  FpInv' /\ OnlyTask(t)
<1>1. /\ pc[t] \in {"kernel", "syscall"} /\ TaskInv(t) /\ TaskTyped(t)
      /\ \A d \in CPU \ {c} : cur[d] # t
  BY Running DEF SetupFrame
<1>2. /\ fpsimd_state' = [fpsimd_state EXCEPT ![t] = SavedF(c, t)] /\ SavedF(c, t) \in Val
      /\ sve_state' = [sve_state EXCEPT ![t] = SavedS(c, t)] /\ SavedS(c, t) \in Regs
  BY SaveOwn DEF SetupFrame, fpsimd_save
<1>3. fpsimd_state'[t] = SavedF(c, t) /\ sve_state'[t] = SavedS(c, t)
  BY <1>2 DEF FpInv, TypeOK
<1>4. pc'[t] = "frame_sync" /\ UNCHANGED <<flags, sve_buf, sve_vl, fpsimd_cpu, cpus>>
  BY DEF SetupFrame, Goto, FpInv, TypeOK, owner, hw, cpus
<1>5. OnlyTask(t)
  <2>1. pc' = [pc EXCEPT ![t] = pc'[t]]
    BY DEF SetupFrame, Goto, FpInv, TypeOK
  <2>2. QED
    BY <1>2, <1>3, <1>4, <2>1 DEF FpInv, TypeOK, OnlyTask, flags
<1>6. TaskTyped(t)' /\ TaskInv(t)'
  BY <1>1, <1>2, <1>3, <1>4 DEF TaskTyped, TaskInv, Label, Kernel, flags
<1>7. /\ Live(c, t) => Stored(t)' = Seen(t, regs[c])
      /\ ~ Live(c, t) => Stored(t)' = Stored(t)
  BY <1>3, <1>4 DEF Stored, Seen, SavedF, SavedS, flags
<1>8. ASSUME NEW d \in CPU PROVE PairInv(d, t)'
  <2>1. /\ PairInv(d, t) /\ Live(d, t)' = Live(d, t)
        /\ Seen(t, regs[d])' = Seen(t, regs[d]) /\ (Live(d, t) => d = c)
    BY <1>1, <1>4 DEF FpInv, Live, Seen, flags, cpus
  <2>2. d # c => (Live(c, t) => fpsimd_cpu[t] # d)
    BY <1>1 DEF FpInv, PairInv
  <2>3. QED
    BY <1>1, <1>4, <1>7, <2>1, <2>2 DEF PairInv, flags, cpus
<1>9. QED
  BY <1>4, <1>5, <1>6, <1>8, TaskStep

LEMMA FrameSyncKeeps ==
  ASSUME FpInv, NEW c \in CPU, NEW t \in Task, cur[c] = t, FrameSync(c)
  PROVE  FpInv' /\ OnlyTask(t) /\ Stored(t)' = Stored(t)
<1>1. pc[t] = "frame_sync" /\ TaskInv(t) /\ TaskTyped(t)
  BY Typed DEF FrameSync, At, FpInv
<1>2. /\ pc'[t] = "frame" /\ UNCHANGED <<flags, sve_state, sve_buf, sve_vl, fpsimd_cpu, cpus>>
  BY DEF FrameSync, Goto, FpInv, TypeOK, owner, hw, cpus
<1> DEFINE f == IF tif_sve[t] THEN sve_state[t][1] ELSE fpsimd_state[t]
<1>3. fpsimd_state' = [fpsimd_state EXCEPT ![t] = f] /\ fpsimd_state'[t] = f
  BY DEF FrameSync, FpInv, TypeOK
<1>4. f \in Val /\ (tif_sve[t] => f = sve_state[t][1]) /\ (~ tif_sve[t] => f = fpsimd_state[t])
  BY <1>1 DEF TaskTyped, Regs
<1> HIDE DEF f
<1>5. OnlyTask(t)
  <2>1. pc' = [pc EXCEPT ![t] = pc'[t]]
    BY DEF FrameSync, Goto, FpInv, TypeOK
  <2>2. QED
    BY <1>2, <1>3, <2>1 DEF FpInv, TypeOK, OnlyTask, flags
<1>6. TaskTyped(t)' /\ TaskInv(t)'
  BY <1>1, <1>2, <1>3, <1>4 DEF TaskTyped, TaskInv, Label, Kernel, flags
<1>7. Stored(t)' = Stored(t)
  <2>1. tif_sve'[t] = tif_sve[t] /\ sve_state'[t] = sve_state[t]
    BY <1>2 DEF flags
  <2>2. CASE tif_sve[t]
    BY <2>1, <2>2 DEF Stored
  <2>3. CASE ~ tif_sve[t]
    <3>1. fpsimd_state'[t] = fpsimd_state[t]
      BY <1>3, <1>4, <2>3
    <3>2. QED
      BY <2>1, <2>3, <3>1 DEF Stored
  <2>4. QED
    BY <2>2, <2>3
<1>8. \A d \in CPU : Live(d, t) => Seen(t, regs[d]) = Stored(t)
  BY <1>1 DEF FpInv, PairInv
<1>9. \A d \in CPU : PairInv(d, t)'
  BY <1>1, <1>2, <1>7, <1>8, StillOnRecord DEF flags
<1>10. QED
  BY <1>2, <1>5, <1>6, <1>7, <1>9, TaskStep

-----------------------------------------------------------------------------
(* Steps in user mode.                                                     *)
tasks == <<pc, foreign, tif_sve, fpsimd_state, sve_state, sve_buf, sve_vl, fpsimd_cpu>>

LEMMA UserKeeps ==
  ASSUME FpInv, NEW c \in CPU, NEW t \in Task, cur[c] = t, UserFpsimd(c) \/ UserSve(c)
  PROVE  FpInv' /\ OnlyTask(t)
<1>1. At(c, t, {"user"})
  BY DEF UserFpsimd, UserSve
<1>2. /\ pc[t] = "user" /\ TaskInv(t) /\ TaskTyped(t) /\ PairInv(c, t)
      /\ \A d \in CPU \ {c} : cur[d] # t
  BY <1>1, Typed DEF At, FpInv, Placed
<1>3. PICK r \in Regs : regs' = [regs EXCEPT ![c] = r]
  <2>1. \A v \in Val : <<v, Zero>> \in Regs
    BY ZeroTyped DEF Regs
  <2>2. QED
    BY <2>1 DEF UserFpsimd, UserSve
<1>4. regs'[c] = r /\ UNCHANGED <<tasks, cur, last_state, zcr, cpacr, neon_busy>>
  BY <1>3 DEF UserFpsimd, UserSve, FpInv, TypeOK, flags, memory, owner, tasks
<1>5. OnlyTask(t) /\ SameTask(t)
  BY <1>4 DEF FpInv, TypeOK, OnlyTask, SameTask, tasks
<1>6. OnlyCpu(c)
  BY <1>3, <1>4 DEF FpInv, TypeOK, OnlyCpu
<1>7. TaskTyped(t)' /\ TaskInv(t)' /\ CpuTyped(c)'
  <2>1. CpuTyped(c)
    BY Typed DEF FpInv
  <2>2. QED
    BY <1>2, <1>4, <2>1 DEF TaskTyped, TaskInv, CpuTyped, tasks
<1>8. Live(c, t) /\ last_state[c] = t
  BY <1>2 DEF TaskInv, PairInv, Live
<1>9. PairInv(c, t)'
  BY <1>2, <1>4, <1>8 DEF PairInv, Live, tasks
<1>10. ASSUME NEW x \in Task \ {t} PROVE PairInv(c, x)'
  BY <1>4, <1>8 DEF PairInv, Live
<1>11. ASSUME NEW d \in CPU \ {c} PROVE PairInv(d, t)'
  BY <1>5, <1>6, CpuFrame, SamePairInv DEF FpInv
<1>12. neon_busy'[c] => last_state'[c] = None
  BY <1>4 DEF FpInv
<1>13. pc'[t] # "free" /\ cur' = cur /\ \A d \in CPU : PairInv(d, t)'
  BY <1>2, <1>4, <1>9, <1>11 DEF tasks
<1>14. QED
  BY <1>5, <1>6, <1>7, <1>10, <1>12, <1>13, Assemble

LEMMA SvcKeeps ==
  ASSUME FpInv, NEW c \in CPU, NEW t \in Task, cur[c] = t, Svc(c)
  PROVE  FpInv' /\ OnlyTask(t)
<1>1. At(c, t, {"user"})
  BY DEF Svc
<1>2. /\ pc[t] = "user" /\ TaskInv(t) /\ TaskTyped(t) /\ PairInv(c, t)
      /\ \A d \in CPU \ {c} : cur[d] # t
  BY <1>1, Typed DEF At, FpInv, Placed
<1>3. /\ pc'[t] = "syscall" /\ tif_sve'[t] = FALSE /\ cpacr'[c] = FALSE
      /\ UNCHANGED <<foreign, memory, fpsimd_cpu, cur, last_state, regs, zcr, neon_busy>>
  BY DEF Svc, Goto, FpInv, TypeOK, owner
<1>4. OnlyTask(t)
  BY <1>3 DEF Svc, Goto, FpInv, TypeOK, OnlyTask, memory
<1>5. OnlyCpu(c)
  BY <1>3 DEF Svc, FpInv, TypeOK, OnlyCpu
<1>6. TaskTyped(t)' /\ TaskInv(t)' /\ CpuTyped(c)'
  <2>1. CpuTyped(c)
    BY Typed DEF FpInv
  <2>2. QED
    BY <1>2, <1>3, <2>1 DEF TaskTyped, TaskInv, CpuTyped, memory, Label, Kernel
<1>7. Live(c, t) /\ last_state[c] = t /\ fpsimd_cpu[t] = c
  BY <1>2 DEF TaskInv, PairInv, Live
<1>8. PairInv(c, t)'
  BY <1>2, <1>3, <1>7 DEF PairInv, Live
<1>9. ASSUME NEW x \in Task \ {t} PROVE PairInv(c, x)'
  BY <1>3, <1>7 DEF PairInv, Live
<1>10. ASSUME NEW d \in CPU \ {c} PROVE PairInv(d, t)'
  BY <1>2, <1>3, <1>7 DEF PairInv, Live
<1>11. neon_busy'[c] => last_state'[c] = None
  BY <1>3 DEF FpInv
<1>12. \A d \in CPU : PairInv(d, t)'
  BY <1>8, <1>10
<1>13. QED
  BY <1>3, <1>4, <1>5, <1>6, <1>9, <1>11, <1>12, Assemble

-----------------------------------------------------------------------------
(* task_fpsimd_load and fpsimd_bind_task_to_cpu.                           *)
LEMMA LoadKeeps ==
  ASSUME FpInv, NEW c \in CPU, NEW t \in Task, cur[c] = t, LoadAndBind(c, t),
         UNCHANGED <<cur, neon_busy, tif_sve, sve_buf, sve_vl>>, ~ neon_busy[c],
         NEW f \in Val, fpsimd_state' = [fpsimd_state EXCEPT ![t] = f],
         NEW s \in Regs, sve_state' = [sve_state EXCEPT ![t] = s],
         Goto(t, "kernel")
  PROVE  FpInv' /\ Live(c, t)' /\ regs'[c] = Stored(t)' /\ OnlyTask(t) /\ OnlyCpu(c)
<1>1. /\ TaskInv(t) /\ TaskTyped(t) /\ CpuTyped(c) /\ \A d \in CPU \ {c} : cur[d] # t
  BY Typed DEF FpInv, Placed
<1>2. /\ pc'[t] = "kernel" /\ fpsimd_state'[t] = f /\ sve_state'[t] = s
      /\ fpsimd_cpu'[t] = c /\ foreign'[t] = FALSE
  BY DEF LoadAndBind, Goto, FpInv, TypeOK
<1>3. regs'[c] = Stored(t)' /\ last_state'[c] = t /\ cpacr'[c] = tif_sve[t]
  BY DEF LoadAndBind, Stored, FpInv, TypeOK
<1>4. zcr'[c] \in Vl /\ (tif_sve[t] => zcr'[c] = sve_vl[t])
  BY <1>1 DEF LoadAndBind, FpInv, TypeOK
<1>5. OnlyTask(t)
  <2>1. /\ pc' = [pc EXCEPT ![t] = pc'[t]] /\ foreign' = [foreign EXCEPT ![t] = foreign'[t]]
        /\ fpsimd_state' = [fpsimd_state EXCEPT ![t] = fpsimd_state'[t]]
        /\ sve_state' = [sve_state EXCEPT ![t] = sve_state'[t]]
        /\ fpsimd_cpu' = [fpsimd_cpu EXCEPT ![t] = fpsimd_cpu'[t]]
    BY <1>2 DEF LoadAndBind, Goto
  <2>2. QED
    BY <2>1 DEF FpInv, TypeOK, OnlyTask
<1>6. OnlyCpu(c)
  <2>1. /\ regs' = [regs EXCEPT ![c] = regs'[c]] /\ zcr' = [zcr EXCEPT ![c] = zcr'[c]]
        /\ last_state' = [last_state EXCEPT ![c] = last_state'[c]]
        /\ cpacr' = [cpacr EXCEPT ![c] = cpacr'[c]]
    BY DEF LoadAndBind, FpInv, TypeOK
  <2>2. QED
    BY <2>1 DEF FpInv, TypeOK, OnlyCpu
<1>7. TaskTyped(t)' /\ TaskInv(t)'
  BY <1>1, <1>2 DEF TaskTyped, TaskInv, Label, Kernel
<1>8. CpuTyped(c)'
  <2>1. Stored(t)' \in Regs
    BY <1>2, ZeroTyped, SMT DEF Stored, Regs
  <2>2. QED
    BY <1>1, <1>3, <1>4, <2>1 DEF CpuTyped, TaskTyped
<1>9. PairInv(c, t)'
  BY <1>2, <1>3, <1>4 DEF PairInv, Live
<1>10. ASSUME NEW x \in Task \ {t} PROVE PairInv(c, x)'
  BY <1>3 DEF PairInv, Live
<1>11. ASSUME NEW d \in CPU \ {c} PROVE PairInv(d, t)'
  BY <1>1, <1>2 DEF PairInv, Live
<1>12. \A d \in CPU : PairInv(d, t)'
  BY <1>9, <1>11
<1>13. FpInv'
  BY <1>2, <1>5, <1>6, <1>7, <1>8, <1>10, <1>12, Assemble
<1>14. QED
  BY <1>2, <1>3, <1>5, <1>6, <1>13 DEF Live

LEMMA RestoreKeeps ==
  ASSUME FpInv, NEW c \in CPU, NEW t \in Task, cur[c] = t, RestoreCurrentState(c)
  PROVE  /\ FpInv' /\ Live(c, t)' /\ regs'[c] = Stored(t)' /\ OnlyTask(t) /\ OnlyCpu(c)
         /\ Stored(t)' = Stored(t)
<1>1. /\ LoadAndBind(c, t) /\ Goto(t, "kernel") /\ ~ neon_busy[c]
      /\ UNCHANGED <<cur, neon_busy, tif_sve, memory>>
  BY DEF RestoreCurrentState, At
<1>2. fpsimd_state[t] \in Val /\ sve_state[t] \in Regs
  BY DEF FpInv, TypeOK
<1>3. /\ fpsimd_state' = [fpsimd_state EXCEPT ![t] = fpsimd_state[t]]
      /\ sve_state' = [sve_state EXCEPT ![t] = sve_state[t]] /\ UNCHANGED <<sve_buf, sve_vl>>
  BY <1>1 DEF FpInv, TypeOK, memory
<1>4. Stored(t)' = Stored(t)
  BY <1>1 DEF Stored, memory
<1>5. QED
  BY <1>1, <1>2, <1>3, <1>4, LoadKeeps

LEMMA SigreturnUpdateKeeps ==
  ASSUME FpInv, NEW c \in CPU, NEW t \in Task, cur[c] = t, SigreturnUpdate(c)
  PROVE  FpInv' /\ OnlyTask(t) /\ OnlyCpu(c)
<1>1. /\ LoadAndBind(c, t) /\ Goto(t, "kernel") /\ ~ neon_busy[c]
      /\ UNCHANGED <<cur, neon_busy, tif_sve, sve_buf, sve_vl>>
  BY DEF SigreturnUpdate, At
<1>2. PICK v \in Val :
        /\ fpsimd_state' = [fpsimd_state EXCEPT ![t] = v]
        /\ sve_state' = [sve_state EXCEPT ![t] = IF tif_sve[t] THEN <<v, sve_state[t][2]>>
                                                               ELSE sve_state[t]]
  BY DEF SigreturnUpdate, FpInv, TypeOK
<1>3. (IF tif_sve[t] THEN <<v, sve_state[t][2]>> ELSE sve_state[t]) \in Regs
  BY DEF FpInv, TypeOK, Regs
<1>4. PICK s \in Regs : sve_state' = [sve_state EXCEPT ![t] = s]
  BY <1>2, <1>3
<1>5. v \in Val /\ fpsimd_state' = [fpsimd_state EXCEPT ![t] = v]
  BY <1>2
<1>6. QED
  BY <1>1, <1>4, <1>5, LoadKeeps

-----------------------------------------------------------------------------
(* Saving changes nothing that the places of tasks promise.                *)
LEMMA SaveKeepsTask ==
  ASSUME FpInv, NEW c \in CPU, NEW t \in Task, cur[c] = t, pc[t] # "user",
         fpsimd_state'[t] = SavedF(c, t), sve_state'[t] = SavedS(c, t),
         pc'[t] = pc[t], tif_sve'[t] = tif_sve[t], sve_buf'[t] = sve_buf[t],
         sve_vl'[t] = sve_vl[t], fpsimd_cpu'[t] = fpsimd_cpu[t]
  PROVE  /\ TaskInv(t)' /\ (Live(c, t) => Stored(t)' = Seen(t, regs[c]))
         /\ (~ Live(c, t) => Stored(t)' = Stored(t))
         /\ \A d \in CPU \ {c} : fpsimd_cpu[t] = d => Stored(t)' = Stored(t)
<1>1. TaskInv(t) /\ PairInv(c, t)
  BY DEF FpInv
<1>2. /\ Live(c, t) => Stored(t)' = Seen(t, regs[c])
      /\ ~ Live(c, t) => Stored(t)' = Stored(t)
  BY DEF Stored, Seen, SavedF, SavedS
<1>3. TaskInv(t)'
  <2>1. pc[t] = "sve_acc" => sve_state'[t] = sve_state[t]
    BY <1>1 DEF TaskInv, SavedS
  <2>2. pc[t] = "frame" /\ tif_sve[t] =>
          fpsimd_state'[t] = fpsimd_state[t] /\ sve_state'[t] = sve_state[t]
    BY <1>1 DEF PairInv, Seen, Stored, SavedF, SavedS
  <2>3. QED
    BY <1>1, <2>1, <2>2 DEF TaskInv
<1>4. ASSUME NEW d \in CPU \ {c}, fpsimd_cpu[t] = d PROVE Stored(t)' = Stored(t)
  <2>1. ~ Live(c, t)
    BY <1>1, <1>4, FpsimdAssumption DEF TaskInv, PairInv
  <2>2. QED
    BY <1>2, <2>1
<1>5. QED
  BY <1>2, <1>3, <1>4

(* Steps of a CPU that lets go of the registers it holds.                  *)
LEMMA CpuStep ==
  ASSUME FpInv, NEW c \in CPU, OnlyCpu(c), CpuTyped(c)', UNCHANGED tasks, cur' = cur,
         last_state'[c] = None, cur[c] \in Task => foreign[cur[c]]
  PROVE  FpInv'
<1>1. \A d \in CPU \ {c} : SameCpu(d)
  BY CpuFrame DEF FpInv
<1>2. TypeOK'
  <2>1. cur' \in [CPU -> Task \cup {None}] /\ last_state' \in [CPU -> Task \cup {None}]
    BY DEF FpInv, TypeOK, OnlyCpu, CpuTyped
  <2>2. regs' \in [CPU -> Regs] /\ zcr' \in [CPU -> Vl]
    BY DEF FpInv, TypeOK, OnlyCpu, CpuTyped
  <2>3. cpacr' \in [CPU -> BOOLEAN] /\ neon_busy' \in [CPU -> BOOLEAN]
    BY DEF FpInv, TypeOK, OnlyCpu, CpuTyped
  <2>4. QED
    BY <2>1, <2>2, <2>3 DEF FpInv, TypeOK, tasks
<1>3. Placed' /\ \A t \in Task : TaskInv(t)'
  BY DEF FpInv, Placed, TaskInv, tasks
<1>4. \A d \in CPU : neon_busy'[d] => last_state'[d] = None
  BY <1>1 DEF FpInv, SameCpu
<1>5. ASSUME NEW d \in CPU, NEW t \in Task PROVE PairInv(d, t)'
  <2>1. CASE d = c
    BY <2>1, FpsimdAssumption DEF PairInv, Live, tasks
  <2>2. CASE d # c
    <3>1. SameCpu(d) /\ SameTask(t)
      BY <1>1, <2>2 DEF SameTask, tasks
    <3>2. QED
      BY <3>1, SamePairInv DEF FpInv
  <2>3. QED
    BY <2>1, <2>2
<1>6. QED
  BY <1>2, <1>3, <1>4, <1>5 DEF FpInv

LEMMA NoiseTyped ==
  Noise \subseteq Regs
  BY FpsimdAssumption DEF Regs

(* A CPU that has lost its record holds nobody's registers.                *)
LEMMA NeonKeeps ==
  ASSUME FpInv, NEW c \in CPU, NeonUse(c) \/ kernel_neon_end(c)
  PROVE  FpInv'
<1>1. neon_busy[c] /\ last_state[c] = None /\ CpuTyped(c)
  BY Typed DEF FpInv, NeonUse, kernel_neon_end
<1>2. cur[c] \in Task => foreign[cur[c]]
  BY <1>1, FpsimdAssumption DEF FpInv, PairInv, Live
<1>3. UNCHANGED <<tasks, cur, last_state, zcr, cpacr>>
  BY DEF NeonUse, kernel_neon_end, tasks, flags, memory, owner, hw
<1>4. regs' = [regs EXCEPT ![c] = regs'[c]] /\ regs'[c] \in Regs
  BY <1>1, NoiseTyped DEF NeonUse, kernel_neon_end, FpInv, TypeOK, hw
<1>5. neon_busy' = [neon_busy EXCEPT ![c] = neon_busy'[c]] /\ neon_busy'[c] \in BOOLEAN
  BY <1>1 DEF NeonUse, kernel_neon_end, FpInv, TypeOK
<1>6. OnlyCpu(c)
  BY <1>3, <1>4, <1>5 DEF OnlyCpu, FpInv, TypeOK
<1>7. CpuTyped(c)'
  BY <1>1, <1>3, <1>4, <1>5 DEF CpuTyped
<1>8. QED
  BY <1>1, <1>2, <1>3, <1>6, <1>7, CpuStep

LEMMA CpuDeadKeeps ==
  ASSUME FpInv, NEW c \in CPU, CpuDead(c)
  PROVE  FpInv'
<1>1. cur[c] = None /\ CpuTyped(c) /\ None \notin Task
  BY Typed, FpsimdAssumption DEF FpInv, CpuDead
<1>2. UNCHANGED <<tasks, cur, neon_busy>>
  BY DEF CpuDead, tasks, flags, memory
<1>3. regs' = [regs EXCEPT ![c] = regs'[c]] /\ regs'[c] \in Regs
  BY NoiseTyped DEF CpuDead, FpInv, TypeOK
<1>4. zcr' = [zcr EXCEPT ![c] = zcr'[c]] /\ zcr'[c] \in Vl
  BY DEF CpuDead, FpInv, TypeOK
<1>5. /\ last_state' = [last_state EXCEPT ![c] = last_state'[c]] /\ last_state'[c] = None
      /\ cpacr' = [cpacr EXCEPT ![c] = cpacr'[c]] /\ cpacr'[c] = FALSE
  BY DEF CpuDead, FpInv, TypeOK
<1>6. OnlyCpu(c)
  BY <1>2, <1>3, <1>4, <1>5 DEF OnlyCpu, FpInv, TypeOK
<1>7. CpuTyped(c)'
  BY <1>1, <1>2, <1>3, <1>4, <1>5 DEF CpuTyped
<1>8. QED
  BY <1>1, <1>2, <1>5, <1>6, <1>7, CpuStep

(* kernel_neon_begin and CPU_PM_ENTER: save, then forget.                  *)
LEMMA SaveAndFlush ==
  ASSUME FpInv, NEW c \in CPU, InKernel(c), ~ neon_busy[c], fpsimd_save(c), FlushCpuState(c),
         UNCHANGED <<cur, pc, tif_sve, sve_buf, sve_vl, fpsimd_cpu, cpacr>>,
         NEW r \in Regs, regs' = [regs EXCEPT ![c] = r],
         NEW z \in Vl, zcr' = [zcr EXCEPT ![c] = z],
         NEW b \in BOOLEAN, neon_busy' = [neon_busy EXCEPT ![c] = b]
  PROVE  FpInv' /\ OnlyCpu(c)
<1>1. CpuTyped(c) /\ None \notin Task
  BY Typed, FpsimdAssumption DEF FpInv
<1>2. /\ regs'[c] = r /\ zcr'[c] = z /\ neon_busy'[c] = b /\ last_state'[c] = None
      /\ last_state' = [last_state EXCEPT ![c] = None]
  BY DEF FpInv, TypeOK, FlushCpuState
<1>3. OnlyCpu(c)
  BY <1>2 DEF OnlyCpu, FpInv, TypeOK
<1>4. CpuTyped(c)'
  BY <1>1, <1>2 DEF CpuTyped
<1>5. CASE cur[c] \notin Task
  <2>1. UNCHANGED tasks
    BY <1>5 DEF fpsimd_save, SavedFpsimd, SavedSve, LiveOn, FlushCpuState, tasks
  <2>2. QED
    BY <1>2, <1>3, <1>4, <1>5, <2>1, CpuStep
<1>6. ASSUME NEW t \in Task, cur[c] = t PROVE FpInv'
  <2>1. /\ fpsimd_state' = [fpsimd_state EXCEPT ![t] = SavedF(c, t)] /\ SavedF(c, t) \in Val
        /\ sve_state' = [sve_state EXCEPT ![t] = SavedS(c, t)] /\ SavedS(c, t) \in Regs
    BY <1>6, SaveOwn DEF fpsimd_save
  <2>2. foreign' = [foreign EXCEPT ![t] = TRUE]
    BY <1>6 DEF FlushCpuState
  <2>3. /\ fpsimd_state'[t] = SavedF(c, t) /\ sve_state'[t] = SavedS(c, t) /\ foreign'[t] = TRUE
    BY <2>1, <2>2 DEF FpInv, TypeOK
  <2>4. OnlyTask(t)
    BY <2>1, <2>2, <2>3 DEF OnlyTask, FpInv, TypeOK
  <2>5. TaskTyped(t) /\ pc[t] # "user" /\ pc[t] # "free" /\ \A d \in CPU \ {c} : cur[d] # t
    BY <1>6, Typed DEF FpInv, Placed, InKernel
  <2>6. TaskTyped(t)'
    BY <2>1, <2>3, <2>5 DEF TaskTyped
  <2>7. TaskInv(t)' /\ \A d \in CPU \ {c} : fpsimd_cpu[t] = d => Stored(t)' = Stored(t)
    BY <1>6, <2>3, <2>5, SaveKeepsTask
  <2>8. \A x \in Task : PairInv(c, x)'
    BY <1>1, <1>2, <1>6, <2>3 DEF PairInv, Live
  <2>9. ASSUME NEW d \in CPU \ {c} PROVE PairInv(d, t)'
    <3>1. SameCpu(d) /\ PairInv(d, t)
      BY <1>3, CpuFrame DEF FpInv
    <3>2. ~ Live(d, t) /\ ~ Live(d, t)' /\ Seen(t, regs[d])' = Seen(t, regs[d])
      BY <2>5, <3>1, SMT DEF Live, SameCpu, Seen
    <3>3. QED
      BY <2>7, <3>1, <3>2 DEF PairInv, SameCpu
  <2>10. \A d \in CPU : PairInv(d, t)'
    BY <2>8, <2>9
  <2>11. QED
    BY <1>2, <1>3, <1>4, <2>4, <2>5, <2>6, <2>7, <2>8, <2>10, Assemble
<1>7. FpInv'
  BY <1>5, <1>6
<1>8. QED
  BY <1>3, <1>7

LEMMA NeonBeginKeeps ==
  ASSUME FpInv, NEW c \in CPU, kernel_neon_begin(c)
  PROVE  FpInv' /\ OnlyCpu(c)
<1>1. /\ InKernel(c) /\ ~ neon_busy[c] /\ fpsimd_save(c) /\ FlushCpuState(c)
      /\ UNCHANGED <<cur, pc, tif_sve, sve_buf, sve_vl, fpsimd_cpu, cpacr>>
      /\ neon_busy' = [neon_busy EXCEPT ![c] = TRUE] /\ UNCHANGED <<regs, zcr>>
  BY DEF kernel_neon_begin, hw
<1>2. /\ regs[c] \in Regs /\ regs' = [regs EXCEPT ![c] = regs[c]]
      /\ zcr[c] \in Vl /\ zcr' = [zcr EXCEPT ![c] = zcr[c]]
  BY <1>1 DEF FpInv, TypeOK
<1>3. QED
  BY <1>1, <1>2, SaveAndFlush

LEMMA PmEnterKeeps ==
  ASSUME FpInv, NEW c \in CPU, PmEnter(c)
  PROVE  FpInv' /\ OnlyCpu(c)
<1>1. /\ ~ neon_busy[c] /\ fpsimd_save(c) /\ FlushCpuState(c)
      /\ UNCHANGED <<cur, pc, tif_sve, sve_buf, sve_vl, fpsimd_cpu, cpacr, neon_busy>>
  BY DEF PmEnter
<1>2. InKernel(c)
  BY FpsimdAssumption DEF PmEnter, InKernel, At
<1>3. PICK r \in Regs : regs' = [regs EXCEPT ![c] = r]
  BY NoiseTyped DEF PmEnter
<1>4. PICK z \in Vl : zcr' = [zcr EXCEPT ![c] = z]
  BY DEF PmEnter
<1>5. neon_busy[c] \in BOOLEAN /\ neon_busy' = [neon_busy EXCEPT ![c] = neon_busy[c]]
  BY <1>1 DEF FpInv, TypeOK
<1>6. QED
  BY <1>1, <1>2, <1>3, <1>4, <1>5, SaveAndFlush
-----------------------------------------------------------------------------
(* fpsimd_save writes the memory of the current task only.                 *)
LEMMA SaveFrame ==
  ASSUME FpInv, NEW c \in CPU, InKernel(c)
  PROVE  /\ SavedFpsimd(c) \in [Task -> Val] /\ SavedSve(c) \in [Task -> Regs]
         /\ \A x \in Task : x # cur[c] => SavedFpsimd(c)[x] = fpsimd_state[x]
                                        /\ SavedSve(c)[x] = sve_state[x]
         /\ cur[c] \in Task => SavedFpsimd(c)[cur[c]] = SavedF(c, cur[c])
                               /\ SavedSve(c)[cur[c]] = SavedS(c, cur[c])
<1>1. CASE cur[c] \notin Task
  <2>1. SavedFpsimd(c) = fpsimd_state /\ SavedSve(c) = sve_state
    BY <1>1 DEF SavedFpsimd, SavedSve, LiveOn
  <2>2. QED
    BY <1>1, <2>1 DEF FpInv, TypeOK
<1>2. ASSUME NEW t \in Task, cur[c] = t
      PROVE  /\ SavedFpsimd(c) \in [Task -> Val] /\ SavedSve(c) \in [Task -> Regs]
             /\ \A x \in Task : x # t => SavedFpsimd(c)[x] = fpsimd_state[x]
                                         /\ SavedSve(c)[x] = sve_state[x]
             /\ SavedFpsimd(c)[t] = SavedF(c, t) /\ SavedSve(c)[t] = SavedS(c, t)
  <2>1. /\ SavedFpsimd(c) = [fpsimd_state EXCEPT ![t] = SavedF(c, t)] /\ SavedF(c, t) \in Val
        /\ SavedSve(c) = [sve_state EXCEPT ![t] = SavedS(c, t)] /\ SavedS(c, t) \in Regs
    BY <1>2, SaveOwn
  <2>2. fpsimd_state \in [Task -> Val] /\ sve_state \in [Task -> Regs]
    BY DEF FpInv, TypeOK
  <2>3. SavedFpsimd(c) \in [Task -> Val] /\ SavedSve(c) \in [Task -> Regs]
    BY <2>1, <2>2
  <2>4. /\ \A x \in Task : x # t => SavedFpsimd(c)[x] = fpsimd_state[x]
                                    /\ SavedSve(c)[x] = sve_state[x]
        /\ SavedFpsimd(c)[t] = SavedF(c, t) /\ SavedSve(c)[t] = SavedS(c, t)
    BY <2>1, <2>2
  <2>5. QED
    BY <2>3, <2>4
<1>3. QED
  BY <1>1, <1>2

(* What a switch does.                                                     *)
LEMMA SwitchEffect ==
  ASSUME FpInv, NEW c \in CPU, NEW n \in Task \cup {None}, Switch(c, n)
  PROVE  /\ n # cur[c] /\ InKernel(c) /\ None \notin Task
         /\ n \in Task => pc[n] \in Kernel /\ NotRunning(n)
         /\ UNCHANGED <<pc, tif_sve, sve_buf, sve_vl, fpsimd_cpu, last_state, hw, neon_busy>>
         /\ cur'[c] = n /\ \A d \in CPU \ {c} : cur'[d] = cur[d]
         /\ \A x \in Task : x # n => foreign'[x] = foreign[x]
         /\ n \in Task => foreign'[n] = (last_state[c] # n \/ fpsimd_cpu[n] # c)
  BY FpsimdAssumption DEF Switch, InKernel, owner, FpInv, TypeOK

LEMMA SwitchSaves ==
  ASSUME FpInv, NEW c \in CPU, NEW n \in Task \cup {None}, Switch(c, n)
  PROVE  /\ fpsimd_state' \in [Task -> Val] /\ sve_state' \in [Task -> Regs]
         /\ \A x \in Task : x # cur[c] => fpsimd_state'[x] = fpsimd_state[x]
                                        /\ sve_state'[x] = sve_state[x]
         /\ cur[c] \in Task => fpsimd_state'[cur[c]] = SavedF(c, cur[c])
                               /\ sve_state'[cur[c]] = SavedS(c, cur[c])
<1>1. InKernel(c) /\ fpsimd_state' = SavedFpsimd(c) /\ sve_state' = SavedSve(c)
  BY DEF Switch, InKernel, fpsimd_save
<1>2. QED
  BY <1>1, SaveFrame

LEMMA SwitchKeeps ==
  ASSUME FpInv, NEW c \in CPU, NEW n \in Task \cup {None}, Switch(c, n)
  PROVE  FpInv'
<1>1. /\ n # cur[c] /\ InKernel(c) /\ None \notin Task
      /\ n \in Task => pc[n] \in Kernel /\ NotRunning(n)
      /\ UNCHANGED <<pc, tif_sve, sve_buf, sve_vl, fpsimd_cpu, last_state, hw, neon_busy>>
  BY SwitchEffect
<1>2. cur'[c] = n /\ \A d \in CPU \ {c} : cur'[d] = cur[d]
  BY DEF Switch, FpInv, TypeOK
<1>3. /\ \A x \in Task : x # n => foreign'[x] = foreign[x]
      /\ n \in Task => foreign'[n] = (last_state[c] # n \/ fpsimd_cpu[n] # c)
  BY DEF Switch, FpInv, TypeOK
<1>4. /\ fpsimd_state' \in [Task -> Val] /\ sve_state' \in [Task -> Regs]
      /\ \A x \in Task : x # cur[c] => fpsimd_state'[x] = fpsimd_state[x]
                                     /\ sve_state'[x] = sve_state[x]
      /\ cur[c] \in Task => fpsimd_state'[cur[c]] = SavedF(c, cur[c])
                            /\ sve_state'[cur[c]] = SavedS(c, cur[c])
  BY SwitchSaves
<1>5. TypeOK'
  <2>1. cur' \in [CPU -> Task \cup {None}] /\ foreign' \in [Task -> BOOLEAN]
    BY DEF Switch, FpInv, TypeOK
  <2>2. QED
    BY <1>1, <1>4, <2>1 DEF FpInv, TypeOK, hw
<1>6. Placed'
  <2>1. SUFFICES ASSUME NEW d \in CPU, cur'[d] \in Task
        PROVE  pc'[cur'[d]] # "free" /\ \A e \in CPU : cur'[e] = cur'[d] => e = d
    BY DEF Placed
  <2>2. CASE d = c
    BY <1>1, <1>2, <2>1, <2>2 DEF NotRunning, Kernel, Sigreturn
  <2>3. CASE d # c
    <3>1. /\ cur'[d] = cur[d] /\ cur[d] \in Task /\ pc[cur[d]] # "free" /\ cur[d] # n
          /\ \A e \in CPU : cur[e] = cur[d] => e = d
      BY <1>1, <1>2, <2>1, <2>3 DEF NotRunning, FpInv, Placed
    <3>2. pc'[cur'[d]] # "free"
      BY <1>1, <3>1
    <3>3. ASSUME NEW e \in CPU, cur'[e] = cur'[d] PROVE e = d
      BY <1>2, <3>1, <3>3
    <3>4. QED
      BY <3>2, <3>3
  <2>4. QED
    BY <2>2, <2>3
<1>7. ASSUME NEW t \in Task, cur[c] = t
      PROVE  /\ TaskInv(t)' /\ (Live(c, t) => Stored(t)' = Seen(t, regs[c]))
             /\ (~ Live(c, t) => Stored(t)' = Stored(t))
             /\ \A d \in CPU \ {c} : fpsimd_cpu[t] = d => Stored(t)' = Stored(t)
  <2>1. /\ pc[t] # "user" /\ fpsimd_state'[t] = SavedF(c, t) /\ sve_state'[t] = SavedS(c, t)
        /\ pc'[t] = pc[t] /\ tif_sve'[t] = tif_sve[t] /\ sve_buf'[t] = sve_buf[t]
        /\ sve_vl'[t] = sve_vl[t] /\ fpsimd_cpu'[t] = fpsimd_cpu[t]
    BY <1>1, <1>4, <1>7 DEF InKernel
  <2>2. QED
    BY <1>7, <2>1, SaveKeepsTask
<1>8. ASSUME NEW t \in Task, cur[c] # t PROVE TaskInv(t)' /\ Stored(t)' = Stored(t)
  <2>1. TaskInv(t) /\ (pc[t] = "user" => foreign'[t] = foreign[t])
    BY <1>1, <1>3 DEF FpInv, Kernel, Sigreturn
  <2>2. QED
    BY <1>1, <1>4, <1>8, <2>1 DEF TaskInv, Stored
<1>9. ASSUME NEW d \in CPU, NEW t \in Task PROVE PairInv(d, t)'
  <2>1. PairInv(d, t) /\ Seen(t, regs[d])' = Seen(t, regs[d])
    BY <1>1 DEF FpInv, Seen, hw
  <2>2. CASE d # c
    <3>1. Live(d, t)' = Live(d, t)
      BY <1>1, <1>2, <1>3, <2>2 DEF Live, NotRunning
    <3>2. cur[c] = t => ~ Live(d, t)
      BY <2>2 DEF FpInv, Placed, Live
    <3>3. cur[c] = t => (fpsimd_cpu[t] = d => Stored(t)' = Stored(t))
      BY <1>7, <2>2
    <3>4. cur[c] # t => Stored(t)' = Stored(t)
      BY <1>8
    <3>5. QED
      BY <1>1, <2>1, <3>1, <3>2, <3>3, <3>4 DEF PairInv, hw
  <2>3. CASE d = c /\ t = n
    <3>1. ~ Live(c, t) /\ Stored(t)' = Stored(t)
      BY <1>1, <1>8, <2>3 DEF Live
    <3>2. Live(c, t)' => last_state[c] = t /\ fpsimd_cpu[t] = c
      BY <1>3, <2>3 DEF Live
    <3>3. QED
      BY <1>1, <2>1, <2>3, <3>1, <3>2 DEF PairInv, hw
  <2>4. CASE d = c /\ t # n
    <3>1. ~ Live(c, t)'
      BY <1>2, <2>4 DEF Live
    <3>2. last_state[c] = t /\ fpsimd_cpu[t] = c => Stored(t)' = Seen(t, regs[c])
      BY <1>7, <1>8, <2>1, <2>4 DEF PairInv, Live
    <3>3. QED
      BY <1>1, <2>1, <2>4, <3>1, <3>2 DEF PairInv, hw
  <2>5. QED
    BY <2>2, <2>3, <2>4
<1>10. \A t \in Task : TaskInv(t)'
  BY <1>7, <1>8
<1>11. QED
  BY <1>1, <1>5, <1>6, <1>9, <1>10 DEF FpInv

(* What fork leaves in the two tasks.                                      *)
LEMMA ForkMemory ==
  ASSUME FpInv, NEW c \in CPU, NEW t \in Task, cur[c] = t, NEW n \in Task, Fork(c, n)
  PROVE  /\ fpsimd_state' \in [Task -> Val] /\ sve_state' \in [Task -> Regs]
         /\ fpsimd_state'[t] = SavedF(c, t) /\ sve_state'[t] = SavedS(c, t)
         /\ fpsimd_state'[n] = SavedF(c, t)
         /\ \A x \in Task : x # t /\ x # n =>
              fpsimd_state'[x] = fpsimd_state[x] /\ sve_state'[x] = sve_state[x]
<1>1. InKernel(c) /\ n # t
  BY DEF Fork, At, InKernel
<1>2. /\ SavedFpsimd(c) \in [Task -> Val] /\ SavedSve(c) \in [Task -> Regs]
      /\ \A x \in Task : x # t => SavedFpsimd(c)[x] = fpsimd_state[x]
                                  /\ SavedSve(c)[x] = sve_state[x]
      /\ SavedFpsimd(c)[t] = SavedF(c, t) /\ SavedSve(c)[t] = SavedS(c, t)
  BY <1>1, SaveFrame
<1>3. /\ fpsimd_state' = [SavedFpsimd(c) EXCEPT ![n] = SavedFpsimd(c)[t]]
      /\ sve_state' = SavedSve(c)
  BY DEF Fork
<1>4. QED
  BY <1>1, <1>2, <1>3

LEMMA ForkFlags ==
  ASSUME FpInv, NEW c \in CPU, NEW t \in Task, cur[c] = t, NEW n \in Task, Fork(c, n)
  PROVE  /\ pc'[n] = "kernel" /\ sve_buf'[n] = 0 /\ sve_vl'[n] = sve_vl[t]
         /\ tif_sve'[n] = FALSE /\ fpsimd_cpu'[n] = None
  BY DEF Fork, Goto, fpsimd_flush_task_state, FpInv, TypeOK

LEMMA ForkFrame ==
  ASSUME FpInv, NEW c \in CPU, NEW t \in Task, cur[c] = t, NEW n \in Task, Fork(c, n)
  PROVE  /\ pc[t] = "syscall" /\ n # t /\ NotRunning(n) /\ ~ Exists(n)
         /\ UNCHANGED <<cur, last_state, hw, neon_busy>>
         /\ \A x \in Task \ {t, n} : SameTask(x)
         /\ pc'[t] = pc[t] /\ foreign'[t] = foreign[t] /\ tif_sve'[t] = tif_sve[t]
         /\ sve_buf'[t] = sve_buf[t] /\ sve_vl'[t] = sve_vl[t] /\ fpsimd_cpu'[t] = fpsimd_cpu[t]
<1>1. /\ pc[t] = "syscall" /\ pc[n] = "free" /\ n # t
      /\ UNCHANGED <<cur, last_state, hw, neon_busy>>
  BY DEF Fork, At
<1>2. NotRunning(n) /\ ~ Exists(n) /\ t \in Task \ {n}
  BY <1>1 DEF NotRunning, FpInv, Placed, Exists
<1>3. \A x \in Task \ {n} :
        /\ pc'[x] = pc[x] /\ foreign'[x] = foreign[x] /\ tif_sve'[x] = tif_sve[x]
        /\ sve_buf'[x] = sve_buf[x] /\ sve_vl'[x] = sve_vl[x] /\ fpsimd_cpu'[x] = fpsimd_cpu[x]
  <2>1. \A x \in Task \ {n} : pc'[x] = pc[x] /\ foreign'[x] = foreign[x] /\ tif_sve'[x] = tif_sve[x]
    BY DEF Fork, Goto, FpInv, TypeOK
  <2>2. \A x \in Task \ {n} :
          sve_buf'[x] = sve_buf[x] /\ sve_vl'[x] = sve_vl[x] /\ fpsimd_cpu'[x] = fpsimd_cpu[x]
    BY DEF Fork, fpsimd_flush_task_state, FpInv, TypeOK
  <2>3. QED
    BY <2>1, <2>2
<1>4. \A x \in Task \ {t, n} : SameTask(x)
  <2> SUFFICES ASSUME NEW x \in Task, x # t, x # n PROVE SameTask(x)
    OBVIOUS
  <2>1. fpsimd_state'[x] = fpsimd_state[x] /\ sve_state'[x] = sve_state[x]
    BY ForkMemory, SMT
  <2>2. /\ pc'[x] = pc[x] /\ foreign'[x] = foreign[x] /\ tif_sve'[x] = tif_sve[x]
        /\ sve_buf'[x] = sve_buf[x] /\ sve_vl'[x] = sve_vl[x] /\ fpsimd_cpu'[x] = fpsimd_cpu[x]
    BY <1>3
  <2>3. QED
    BY <2>1, <2>2 DEF SameTask
<1>5. QED
  BY <1>1, <1>2, <1>3, <1>4

LEMMA ForkKeeps ==
  ASSUME FpInv, NEW c \in CPU, NEW t \in Task, cur[c] = t, NEW n \in Task, Fork(c, n)
  PROVE  FpInv'
<1>1. /\ pc[t] = "syscall" /\ n # t /\ NotRunning(n)
      /\ UNCHANGED <<cur, last_state, hw, neon_busy>>
  BY ForkFrame
<1>2. \A x \in Task \ {t, n} : SameTask(x)
  BY ForkFrame
<1>3. /\ pc'[t] = pc[t] /\ foreign'[t] = foreign[t] /\ tif_sve'[t] = tif_sve[t]
      /\ sve_buf'[t] = sve_buf[t] /\ sve_vl'[t] = sve_vl[t] /\ fpsimd_cpu'[t] = fpsimd_cpu[t]
  BY ForkFrame
<1>4. /\ pc'[n] = "kernel" /\ sve_buf'[n] = 0 /\ sve_vl'[n] = sve_vl[t]
      /\ tif_sve'[n] = FALSE /\ fpsimd_cpu'[n] = None
  BY ForkFlags
<1>5. /\ fpsimd_state' \in [Task -> Val] /\ sve_state' \in [Task -> Regs]
      /\ fpsimd_state'[t] = SavedF(c, t) /\ sve_state'[t] = SavedS(c, t)
  BY ForkMemory
<1>6. pc[t] # "user" /\ pc[t] # "free"
  BY <1>1
<1>7. TypeOK'
  <2>1. /\ pc' \in [Task -> Label] /\ foreign' \in [Task -> BOOLEAN]
        /\ tif_sve' \in [Task -> BOOLEAN]
    BY DEF Fork, Goto, FpInv, TypeOK, Label, Kernel
  <2>2. /\ sve_buf' \in [Task -> Vl \cup {0}] /\ sve_vl' \in [Task -> Vl]
        /\ fpsimd_cpu' \in [Task -> CPU \cup {None}]
    BY DEF Fork, fpsimd_flush_task_state, FpInv, TypeOK
  <2>3. QED
    BY <1>1, <1>5, <2>1, <2>2 DEF FpInv, TypeOK, hw
<1>8. Placed'
  <2>1. ASSUME NEW d \in CPU, cur[d] \in Task PROVE pc'[cur[d]] # "free"
    <3>1. cur[d] # n /\ pc[cur[d]] # "free"
      BY <1>1, <2>1 DEF NotRunning, FpInv, Placed
    <3>2. pc'[cur[d]] = pc[cur[d]]
      BY <1>2, <1>3, <2>1, <3>1 DEF SameTask
    <3>3. QED
      BY <3>1, <3>2
  <2>2. QED
    BY <1>1, <2>1 DEF Placed, FpInv
<1>9. /\ TaskInv(t)' /\ (~ Live(c, t) => Stored(t)' = Stored(t))
      /\ \A d \in CPU \ {c} : fpsimd_cpu[t] = d => Stored(t)' = Stored(t)
  BY <1>3, <1>5, <1>6, SaveKeepsTask
<1>10. TaskInv(n)'
  BY <1>4 DEF TaskInv
<1>11. \A x \in Task : TaskInv(x)'
  BY <1>2, <1>9, <1>10, SameTaskInv DEF FpInv
<1>12. ASSUME NEW d \in CPU, NEW x \in Task PROVE PairInv(d, x)'
  <2>1. PairInv(d, x) /\ SameCpu(d)
    BY <1>1 DEF FpInv, SameCpu, hw
  <2>2. CASE x = n
    BY <1>1, <1>4, <2>2, FpsimdAssumption DEF PairInv, Live, NotRunning
  <2>3. CASE x = t
    <3>1. /\ Live(d, t)' = Live(d, t) /\ Seen(t, regs[d])' = Seen(t, regs[d])
          /\ pc'[t] = "syscall" /\ (d # c => ~ Live(d, t))
      BY <1>1, <1>3, <2>1 DEF Live, Seen, SameCpu, FpInv, Placed
    <3>2. fpsimd_cpu[t] = d /\ ~ Live(d, t) => Stored(t)' = Stored(t)
      BY <1>9
    <3>3. QED
      BY <1>1, <1>3, <2>1, <2>3, <3>1, <3>2 DEF PairInv, SameCpu
  <2>4. CASE x \in Task \ {t, n}
    BY <1>2, <2>1, <2>4, SamePairInv
  <2>5. QED
    BY <2>2, <2>3, <2>4
<1>13. QED
  BY <1>1, <1>7, <1>8, <1>11, <1>12 DEF FpInv

-----------------------------------------------------------------------------
LEMMA InitHolds ==
  Init => FpInv
<1>1. SUFFICES ASSUME Init PROVE FpInv
  OBVIOUS
<1>2. TypeOK
  <2>1. Zeroes \in Regs /\ "kernel" \in Label /\ "free" \in Label
    BY ZeroTyped DEF Label, Kernel
  <2>2. QED
    BY <1>1, <2>1, ZeroTyped DEF Init, TypeOK
<1>3. Placed /\ \A t \in Task : TaskInv(t)
  BY <1>1, FpsimdAssumption DEF Init, Placed, TaskInv
<1>4. /\ \A c \in CPU : neon_busy[c] => last_state[c] = None
      /\ \A c \in CPU, t \in Task : PairInv(c, t)
  BY <1>1, FpsimdAssumption DEF Init, PairInv, Live
<1>5. QED
  BY <1>2, <1>3, <1>4 DEF FpInv

LEMMA UserHolds ==
  ASSUME FpInv, NEW c \in CPU, User(c) PROVE FpInv'
<1>1. PICK t \in Task : cur[c] = t
  BY DEF User, UserFpsimd, UserSve, Interrupt, Svc, SveTrap, At
<1>2. QED
  BY <1>1, UserKeeps, InterruptKeeps, SvcKeeps, SveTrapKeeps DEF User

LEMMA CallHolds ==
  ASSUME FpInv, NEW c \in CPU, Call(c) PROVE FpInv'
<1>1. PICK t \in Task : cur[c] = t
  <2>1. CASE \E n \in Task : Fork(c, n)
    BY <2>1 DEF Fork, At
  <2>2. CASE ~ \E n \in Task : Fork(c, n)
    BY <2>2 DEF Call, SigreturnFpsimd, SigreturnFlush, SigreturnForeign, SigreturnAlloc,
       SigreturnCopy, SigreturnSve, SigreturnUpdate, SigreturnFault, Exec, FlushThread, SetVl,
       SetVlFree, Exit, At
  <2>3. QED
    BY <2>1, <2>2
<1>2. CASE \/ SigreturnFpsimd(c) \/ SigreturnFlush(c) \/ SigreturnForeign(c)
           \/ SigreturnAlloc(c) \/ SigreturnCopy(c) \/ SigreturnSve(c)
           \/ SigreturnUpdate(c) \/ SigreturnFault(c)
  BY <1>1, <1>2, SigreturnFpsimdKeeps, SigreturnFlushKeeps, SigreturnForeignKeeps,
     SigreturnAllocKeeps, SigreturnCopyKeeps, SigreturnSveKeeps, SigreturnUpdateKeeps,
     FrameDoneKeeps
<1>3. CASE Exec(c) \/ FlushThread(c) \/ SetVl(c) \/ SetVlFree(c) \/ Exit(c)
  BY <1>1, <1>3, ExecKeeps, FlushThreadKeeps, SetVlKeeps, SetVlFreeKeeps
<1>4. CASE \E n \in Task : Fork(c, n)
  BY <1>1, <1>4, ForkKeeps
<1>5. QED
  BY <1>2, <1>3, <1>4 DEF Call

LEMMA ResumeHolds ==
  ASSUME FpInv, NEW c \in CPU, Resume(c) PROVE FpInv'
<1>1. PICK t \in Task : cur[c] = t
  BY DEF Resume, do_sve_acc, RestoreCurrentState, RetToUser, SetupFrame, FrameSync,
     FrameDone, At
<1>2. QED
  BY <1>1, DoSveAccKeeps, RestoreKeeps, RetToUserKeeps, SetupFrameKeeps, FrameSyncKeeps,
     FrameDoneKeeps DEF Resume

LEMMA CpuHolds ==
  ASSUME FpInv, NEW c \in CPU, Cpu(c) PROVE FpInv'
  BY NeonBeginKeeps, NeonKeeps, PmEnterKeeps, CpuDeadKeeps, SwitchKeeps DEF Cpu

LEMMA TraceHolds ==
  ASSUME FpInv, NEW c \in CPU, NEW t \in Task, Trace(c, t) PROVE FpInv'
  BY FprGetKeeps, FprSetKeeps, SveSetVlKeeps, SveSetFpsimdKeeps, SveSetSveKeeps DEF Trace

LEMMA StutterHolds ==
  ASSUME FpInv, UNCHANGED vars PROVE FpInv'
<1>1. TypeOK' /\ Placed' /\ \A c \in CPU : neon_busy'[c] => last_state'[c] = None
  BY DEF FpInv, TypeOK, Placed, vars, flags, memory, owner, hw
<1>2. \A t \in Task : SameTask(t)
  BY DEF SameTask, vars, flags, memory, owner
<1>3. \A c \in CPU : SameCpu(c)
  BY DEF SameCpu, vars, owner, hw
<1>4. /\ \A t \in Task : TaskInv(t)'
      /\ \A c \in CPU, t \in Task : PairInv(c, t)'
  BY <1>2, <1>3, SameTaskInv, SamePairInv DEF FpInv
<1>5. QED
  BY <1>1, <1>4 DEF FpInv

LEMMA NextHolds ==
  FpInv /\ [Next]_vars => FpInv'
<1>1. SUFFICES ASSUME FpInv, [Next]_vars PROVE FpInv'
  OBVIOUS
<1>2. CASE Next
  <2>1. CASE \E c \in CPU : \/ User(c) \/ Call(c) \/ Resume(c) \/ Cpu(c) \/ TraceStop(c)
                           \/ \E t \in Task : Trace(c, t)
    BY <1>1, <2>1, UserHolds, CallHolds, ResumeHolds, CpuHolds, TraceStopKeeps, TraceHolds
  <2>2. CASE \E t \in Task : Release(t) \/ TraceCont(t)
    BY <1>1, <2>2, ReleaseKeeps, TraceContKeeps
  <2>3. QED
    BY <1>2, <2>1, <2>2 DEF Next
<1>3. CASE UNCHANGED vars
  BY <1>1, <1>3, StutterHolds
<1>4. QED
  BY <1>1, <1>2, <1>3

(* FpInv is an invariant of fpsimd.c as modelled, for every set of tasks   *)
(* and CPUs, whatever the tasks do and wherever tracers stop them.         *)
THEOREM Invariant ==
  Spec => []FpInv
<1>1. Init => FpInv
  BY InitHolds
<1>2. FpInv /\ [Next]_vars => FpInv'
  BY NextHolds
<1>3. QED
  BY <1>1, <1>2, PTL DEF Spec

(* What fpsimd.c records of CPUs and tasks stays within their sets, and    *)
(* vector lengths and the sizes of SVE buffers within those there are.     *)
THEOREM FpsimdTypeCorrect ==
  Spec => []TypeOK
<1>1. FpInv => TypeOK
  BY DEF FpInv
<1>2. QED
  BY <1>1, Invariant, PTL

-----------------------------------------------------------------------------
(* The registers as a task sees them.                                      *)
LEMMA ViewLive ==
  ASSUME FpInv, NEW c \in CPU, NEW t \in Task, Live(c, t), Exists(t)
  PROVE  View(t) = Seen(t, regs[c])
<1>1. \A d \in CPU : cur[d] = t => d = c
  BY DEF FpInv, Placed, Live
<1>2. (CHOOSE d \in CPU : cur[d] = t) = c
  BY <1>1 DEF Live
<1>3. QED
  BY <1>2 DEF View, Live

LEMMA ViewStored ==
  ASSUME NEW t \in Task, Exists(t), \A c \in CPU : ~ Live(c, t)
  PROVE  View(t) = Stored(t)
  BY DEF View, Live

(* The V registers of a CPU whose registers are those of the current task  *)
(* are saved to that task, its Z registers fit where they are saved, and   *)
(* the CPU is set to its vector length.                                    *)
THEOREM SavesAlwaysReachTheTask ==
  Spec => []SavesReachTheTask
<1>1. FpInv => SavesReachTheTask
  <2>1. SUFFICES ASSUME FpInv, NEW c \in CPU, NEW t \in Task, cur[c] = t, ~ foreign[t]
        PROVE  last_state[c] = t /\ (tif_sve[t] => zcr[c] = sve_vl[t] /\ sve_buf[t] = sve_vl[t])
    BY DEF SavesReachTheTask, LiveOn
  <2>2. TaskInv(t) /\ PairInv(c, t)
    BY <2>1 DEF FpInv
  <2>3. QED
    BY <2>1, <2>2 DEF TaskInv, PairInv, Live
<1>2. QED
  BY <1>1, Invariant, PTL

(* A task in user mode may use SVE exactly when TIF_SVE says that its Z    *)
(* registers are to be saved.                                              *)
THEOREM SveTrapAlwaysFollowsFlag ==
  Spec => []SveTrapFollowsFlag
<1>1. FpInv => SveTrapFollowsFlag
  <2>1. SUFFICES ASSUME FpInv, NEW c \in CPU, NEW t \in Task, cur[c] = t, pc[t] = "user"
        PROVE  cpacr[c] = tif_sve[t]
    BY DEF SveTrapFollowsFlag
  <2>2. TaskInv(t) /\ PairInv(c, t)
    BY <2>1 DEF FpInv
  <2>3. QED
    BY <2>1, <2>2 DEF TaskInv, PairInv, Live
<1>2. QED
  BY <1>1, Invariant, PTL

(* Whatever happens to the CPU of a task whose signal frame is written,    *)
(* memory holds the registers of the task.                                 *)
THEOREM FrameAlwaysHoldsRegisters ==
  Spec => []FrameHoldsRegisters
<1>1. FpInv => FrameHoldsRegisters
  <2>1. SUFFICES ASSUME FpInv, NEW t \in Task, pc[t] = "frame"
        PROVE  View(t) = <<fpsimd_state[t], IF tif_sve[t] THEN sve_state[t][2] ELSE Zero>>
    BY DEF FrameHoldsRegisters
  <2>2. TaskInv(t) /\ TaskTyped(t) /\ Exists(t)
    BY <2>1, Typed DEF FpInv, Exists
  <2>3. View(t) = Stored(t)
    <3>1. ASSUME NEW c \in CPU, Live(c, t) PROVE View(t) = Stored(t)
      <4>1. View(t) = Seen(t, regs[c])
        BY <2>1, <2>2, <3>1, ViewLive
      <4>2. PairInv(c, t)
        BY <2>1 DEF FpInv
      <4>3. QED
        BY <2>1, <3>1, <4>1, <4>2 DEF PairInv
    <3>2. QED
      BY <2>2, <3>1, ViewStored
  <2>4. Stored(t) = <<fpsimd_state[t], IF tif_sve[t] THEN sve_state[t][2] ELSE Zero>>
    BY <2>1, <2>2, SMT DEF TaskInv, TaskTyped, Stored, Regs
  <2>5. QED
    BY <2>3, <2>4
<1>2. QED
  BY <1>1, Invariant, PTL

(* fpsimd_save leaves the Z registers of a task alone that loads them.     *)
LEMMA NotSaved ==
  ASSUME FpInv, NEW c \in CPU, InKernel(c), NEW t \in Task, cur[c] = t => Loading(t)
  PROVE  SavedSve(c)[t] = sve_state[t]
<1>1. CASE cur[c] # t
  BY <1>1, SaveFrame
<1>2. CASE cur[c] = t
  <2>1. TaskInv(t) /\ PairInv(c, t) /\ TaskTyped(t)
    BY Typed DEF FpInv
  <2>2. ~ Live(c, t)
    BY <1>2, <2>1, FpsimdAssumption DEF TaskInv, PairInv, Loading
  <2>3. SavedS(c, t) = sve_state[t]
    BY <2>2 DEF SavedS
  <2>4. QED
    BY <1>2, <2>3, SaveFrame
<1>3. QED
  BY <1>1, <1>2

(* A step of the task that a CPU runs.                                     *)
LEMMA OwnStepKeepsData ==
  ASSUME FpInv, NEW c \in CPU, User(c) \/ Call(c) \/ Resume(c),
         NEW t \in Task, Loading(t), pc'[t] = pc[t]
  PROVE  sve_state'[t] = sve_state[t]
<1>1. pc \in [Task -> Label] /\ sve_state \in [Task -> Regs]
  BY DEF FpInv, TypeOK
<1>2. ASSUME NEW u \in Task, u # t, NEW x, sve_state' = [sve_state EXCEPT ![u] = x]
      PROVE  sve_state'[t] = sve_state[t]
  BY <1>1, <1>2
<1>3. CASE User(c)
  <2>1. CASE SveTrap(c)
    <3>1. cur[c] \in Task /\ cur[c] # t
      BY <2>1 DEF SveTrap, At, Loading
    <3>2. QED
      BY <1>2, <2>1, <3>1 DEF SveTrap
  <2>2. CASE ~ SveTrap(c)
    BY <1>3, <2>2 DEF User, UserFpsimd, UserSve, Interrupt, Svc, memory
  <2>3. QED
    BY <2>1, <2>2
<1>4. CASE Call(c)
  <2>1. CASE SigreturnAlloc(c) \/ FlushThread(c) \/ SetVlFree(c)
    <3>1. cur[c] \in Task /\ cur[c] # t
      BY <2>1 DEF SigreturnAlloc, FlushThread, SetVlFree, At, Loading
    <3>2. QED
      BY <1>2, <2>1, <3>1 DEF SigreturnAlloc, FlushThread, SetVlFree
  <2>2. CASE SigreturnCopy(c) \/ SigreturnUpdate(c)
    <3>1. cur[c] \in Task /\ cur[c] # t
      BY <1>1, <2>2 DEF SigreturnCopy, SigreturnUpdate, At, Goto
    <3>2. QED
      BY <1>2, <2>2, <3>1 DEF SigreturnCopy, SigreturnUpdate
  <2>3. CASE SetVl(c) \/ \E n \in Task : Fork(c, n)
    <3>1. sve_state' = SavedSve(c) /\ InKernel(c) /\ cur[c] # t
      BY <2>3 DEF SetVl, Fork, At, InKernel, Loading
    <3>2. QED
      BY <3>1, NotSaved
  <2>4. CASE \/ SigreturnFpsimd(c) \/ SigreturnFlush(c) \/ SigreturnForeign(c)
             \/ SigreturnSve(c) \/ SigreturnFault(c) \/ Exec(c) \/ Exit(c)
    BY <2>4 DEF SigreturnFpsimd, SigreturnFlush, SigreturnForeign, SigreturnSve,
       SigreturnFault, Exec, Exit, memory
  <2>5. QED
    BY <1>4, <2>1, <2>2, <2>3, <2>4 DEF Call
<1>5. CASE Resume(c)
  <2>1. CASE do_sve_acc(c)
    <3>1. cur[c] \in Task /\ cur[c] # t /\ InKernel(c)
      BY <2>1 DEF do_sve_acc, At, Loading, InKernel
    <3>2. SavedSve(c) \in [Task -> Regs] /\ SavedSve(c)[t] = sve_state[t]
      BY <3>1, NotSaved, SaveFrame
    <3>3. QED
      BY <2>1, <3>1, <3>2 DEF do_sve_acc
  <2>2. CASE SetupFrame(c)
    <3>1. sve_state' = SavedSve(c) /\ InKernel(c) /\ cur[c] # t
      BY <2>2 DEF SetupFrame, fpsimd_save, At, InKernel, Loading
    <3>2. QED
      BY <3>1, NotSaved
  <2>3. CASE RestoreCurrentState(c) \/ RetToUser(c) \/ FrameSync(c) \/ FrameDone(c)
    BY <2>3 DEF RestoreCurrentState, RetToUser, FrameSync, FrameDone, memory
  <2>4. QED
    BY <1>5, <2>1, <2>2, <2>3 DEF Resume
<1>6. QED
  BY <1>3, <1>4, <1>5

LEMMA StepKeepsData ==
  ASSUME FpInv, [Next]_vars, NEW t \in Task, Loading(t), pc'[t] = pc[t]
  PROVE  sve_state'[t] = sve_state[t]
<1>1. sve_state \in [Task -> Regs]
  BY DEF FpInv, TypeOK
<1>2. ASSUME NEW c \in CPU, Cpu(c) PROVE sve_state'[t] = sve_state[t]
  <2>1. CASE \/ kernel_neon_begin(c) \/ PmEnter(c)
             \/ \E n \in Task \cup {None} : Switch(c, n)
    <3>1. sve_state' = SavedSve(c) /\ InKernel(c)
      BY <2>1, FpsimdAssumption DEF kernel_neon_begin, PmEnter, Switch, fpsimd_save,
         InKernel, At
    <3>2. QED
      BY <3>1, NotSaved
  <2>2. CASE NeonUse(c) \/ kernel_neon_end(c) \/ CpuDead(c)
    BY <2>2 DEF NeonUse, kernel_neon_end, CpuDead, memory
  <2>3. QED
    BY <1>2, <2>1, <2>2 DEF Cpu
<1>3. ASSUME NEW c \in CPU, NEW u \in Task, Trace(c, u) PROVE sve_state'[t] = sve_state[t]
  <2>1. OnlyTask(u) /\ Traces(c, u)
    <3>1. OnlyTask(u)
      BY <1>3, FprGetKeeps, FprSetKeeps, SveSetVlKeeps, SveSetFpsimdKeeps, SveSetSveKeeps
         DEF Trace
    <3>2. Traces(c, u)
      BY <1>3 DEF Trace, FprGet, fpr_set, SveSetVl, SveSetFpsimd, SveSetSve
    <3>3. QED
      BY <3>1, <3>2
  <2>2. u # t
    BY <2>1 DEF Traces, Stopped, Loading
  <2>3. QED
    BY <2>1, <2>2, TaskFrame DEF FpInv, SameTask
<1>4. ASSUME NEW u \in Task, Release(u) \/ TraceCont(u) PROVE sve_state'[t] = sve_state[t]
  <2>1. CASE Release(u)
    <3>1. u # t
      BY <2>1 DEF Release, Loading
    <3>2. QED
      BY <1>1, <2>1, <3>1 DEF Release
  <2>2. CASE TraceCont(u)
    BY <2>2 DEF TraceCont, memory
  <2>3. QED
    BY <1>4, <2>1, <2>2
<1>5. CASE UNCHANGED vars \/ \E c \in CPU : TraceStop(c)
  BY <1>5 DEF vars, memory, TraceStop
<1>6. QED
  BY <1>2, <1>3, <1>4, <1>5, OwnStepKeepsData DEF Next

(* Whatever the CPU of a task does while restore_sve_fpsimd_context copies *)
(* the Z registers of a signal frame to memory, and until they are loaded  *)
(* from there, it does not write older ones over them.                     *)
THEOREM NewDataAlwaysKept ==
  Spec => NewDataKept
<1>1. FpInv /\ [Next]_vars =>
        [\A t \in Task : Loading(t) /\ pc'[t] = pc[t] => sve_state'[t] = sve_state[t]]_vars
  BY StepKeepsData
<1>2. QED
  BY <1>1, Invariant, PTL DEF Spec, NewDataKept

-----------------------------------------------------------------------------
(* The same for every task, in a state and in the next.                    *)
ViewFacts ==
  \A t \in Task :
    /\ View(t) \in Regs
    /\ ~ Exists(t) => View(t) = Zeroes
    /\ Exists(t) /\ (\A c \in CPU : ~ Live(c, t)) => View(t) = Stored(t)
    /\ \A c \in CPU : Exists(t) /\ Live(c, t) => View(t) = Seen(t, regs[c])

LEMMA Views ==
  FpInv => ViewFacts
<1>1. SUFFICES ASSUME FpInv, NEW t \in Task
      PROVE  /\ View(t) \in Regs
             /\ ~ Exists(t) => View(t) = Zeroes
             /\ Exists(t) /\ (\A c \in CPU : ~ Live(c, t)) => View(t) = Stored(t)
             /\ \A c \in CPU : Exists(t) /\ Live(c, t) => View(t) = Seen(t, regs[c])
  BY DEF ViewFacts
<1>2. ~ Exists(t) => View(t) = Zeroes
  BY DEF View
<1>3. Exists(t) /\ (\A c \in CPU : ~ Live(c, t)) => View(t) = Stored(t)
  BY <1>1, ViewStored
<1>4. \A c \in CPU : Exists(t) /\ Live(c, t) => View(t) = Seen(t, regs[c])
  BY <1>1, ViewLive
<1>5. Stored(t) \in Regs /\ \A c \in CPU : Seen(t, regs[c]) \in Regs
  BY <1>1, ZeroTyped DEF FpInv, TypeOK, Stored, Seen, Regs
<1>6. View(t) \in Regs
  BY <1>2, <1>3, <1>4, <1>5, ZeroTyped
<1>7. QED
  BY <1>2, <1>3, <1>4, <1>6

LEMMA NextViews ==
  FpInv' => ViewFacts'
<1>1. FpInv => ViewFacts
  BY Views
<1>2. QED
  BY <1>1, PTL

(* The registers of a task stay when they stay where they are ...          *)
LEMMA SameView ==
  ASSUME FpInv, FpInv', NEW t \in Task, Exists(t)' = Exists(t), tif_sve'[t] = tif_sve[t],
         \A c \in CPU : Live(c, t)' = Live(c, t),
         \A c \in CPU : Live(c, t) => regs'[c] = regs[c],
         (\A c \in CPU : ~ Live(c, t)) => Stored(t)' = Stored(t)
  PROVE  View(t)' = View(t)
<1>1. ViewFacts /\ ViewFacts'
  BY Views, NextViews
<1>2. CASE ~ Exists(t)
  BY <1>1, <1>2 DEF ViewFacts
<1>3. CASE Exists(t) /\ \A c \in CPU : ~ Live(c, t)
  BY <1>1, <1>3 DEF ViewFacts
<1>4. ASSUME Exists(t), NEW c \in CPU, Live(c, t) PROVE View(t)' = View(t)
  <2>1. View(t) = Seen(t, regs[c]) /\ View(t)' = Seen(t, regs[c])'
    BY <1>1, <1>4 DEF ViewFacts
  <2>2. Seen(t, regs[c])' = Seen(t, regs[c])
    BY <1>4 DEF Seen
  <2>3. QED
    BY <2>1, <2>2
<1>5. QED
  BY <1>2, <1>3, <1>4

(* ... as those of the other tasks do in a step of one task.               *)
LEMMA OthersKeep ==
  ASSUME FpInv, FpInv', NEW t \in Task, OnlyTask(t), cur' = cur,
         \A c \in CPU : cur[c] # t => regs'[c] = regs[c]
  PROVE  \A x \in Task \ {t} : View(x)' = View(x) /\ Where(x)' = Where(x)
<1>1. SUFFICES ASSUME NEW x \in Task \ {t} PROVE View(x)' = View(x) /\ Where(x)' = Where(x)
  OBVIOUS
<1>2. SameTask(x)
  BY TaskFrame DEF FpInv
<1>3. Where(x)' = Where(x) /\ Exists(x)' = Exists(x)
  BY <1>2 DEF Where, Exists, SameTask
<1>4. /\ \A c \in CPU : Live(c, x)' = Live(c, x)
      /\ \A c \in CPU : Live(c, x) => regs'[c] = regs[c]
      /\ Stored(x)' = Stored(x) /\ tif_sve'[x] = tif_sve[x]
  BY <1>2 DEF SameTask, Live, Stored
<1>5. QED
  BY <1>3, <1>4, SameView

LEMMA Become ==
  ASSUME NEW t \in Task,
         \A x \in Task \ {t} : View(x)' = View(x) /\ Where(x)' = Where(x)
  PROVE  \A r, a : View(t)' = r /\ Where(t)' = a => Users!Becomes(t, r, a)
  BY DEF Users!Becomes

(* A step of the tasks as their programs see them.                         *)
AbsNext == [Users!Next]_(Users!uvars)

LEMMA Stutters ==
  ASSUME NEW t \in Task,
         \A x \in Task \ {t} : View(x)' = View(x) /\ Where(x)' = Where(x),
         View(t)' = View(t), Where(t)' = Where(t)
  PROVE  AbsNext
  BY DEF AbsNext, Users!uvars

LEMMA Replaces ==
  ASSUME FpInv', NEW t \in Task,
         \A x \in Task \ {t} : View(x)' = View(x) /\ Where(x)' = Where(x),
         Where(t) \in {"kernel", "call", "open"},
         Where(t)' = "open" \/ (Where(t) = "open" /\ Where(t)' \in {"kernel", "call"})
  PROVE  AbsNext
<1>1. Users!Becomes(t, View(t)', Where(t)')
  BY Become
<1>2. View(t)' \in Users!Regs
  BY NextViews DEF ViewFacts, Regs, Users!Regs
<1>3. Users!Replace(t)
  BY <1>1, <1>2 DEF Users!Replace
<1>4. QED
  BY <1>3 DEF AbsNext, Users!Next

LEMMA Returns ==
  ASSUME NEW t \in Task,
         \A x \in Task \ {t} : View(x)' = View(x) /\ Where(x)' = Where(x),
         View(t)' = View(t), Where(t) \in {"kernel", "call"}, Where(t)' \in {"kernel", "user"}
  PROVE  AbsNext
<1>1. Users!Becomes(t, View(t), Where(t)')
  BY Become
<1>2. Users!Return(t)
  BY <1>1 DEF Users!Return
<1>3. QED
  BY <1>2 DEF AbsNext, Users!Next

LEMMA Enters ==
  ASSUME NEW t \in Task,
         \A x \in Task \ {t} : View(x)' = View(x) /\ Where(x)' = Where(x),
         View(t)' = View(t), Where(t) = "user", Where(t)' = "kernel"
  PROVE  AbsNext
<1>1. Users!Becomes(t, View(t), "kernel")
  BY Become
<1>2. Users!Enter(t)
  BY <1>1 DEF Users!Enter
<1>3. QED
  BY <1>2 DEF AbsNext, Users!Next

LEMMA Calls ==
  ASSUME NEW t \in Task,
         \A x \in Task \ {t} : View(x)' = View(x) /\ Where(x)' = Where(x),
         View(t)' \in {View(t), <<View(t)[1], Zero>>},
         Where(t) \in {"user", "call"}, Where(t)' = "call"
  PROVE  AbsNext
<1>1. Users!Becomes(t, View(t)', "call")
  BY Become
<1>2. Users!SystemCall(t)
  BY <1>1 DEF Users!SystemCall, Users!FpsimdPart
<1>3. QED
  BY <1>2 DEF AbsNext, Users!Next

-----------------------------------------------------------------------------
(* Unless tracers stop tasks at system calls, a task in a system call has  *)
(* no SVE state.                                                           *)
Plain(t) == pc[t] # "stop_call" /\ (pc[t] = "syscall" => ~ tif_sve[t])

CallsPlain == \A t \in Task : Plain(t)

LEMMA PlainStep ==
  ASSUME TypeOK, CallsPlain, NEW t \in Task, OnlyTask(t), Plain(t)'
  PROVE  CallsPlain'
<1>1. \A x \in Task \ {t} : SameTask(x)
  BY TaskFrame
<1>2. \A x \in Task \ {t} : Plain(x)'
  BY <1>1 DEF CallsPlain, Plain, SameTask
<1>3. QED
  BY <1>2 DEF CallsPlain

(* Steps that only change the place of a task.                             *)
LEMMA GotoMaps ==
  ASSUME FpInv, FpInv', CallsPlain, NEW t \in Task, NEW l, Goto(t, l),
         UNCHANGED <<flags, memory, fpsimd_cpu, cpus>>,
         l # "stop_call", l = "syscall" => Plain(t)'
  PROVE  /\ CallsPlain' /\ pc'[t] = l
         /\ \A x \in Task \ {t} : View(x)' = View(x) /\ Where(x)' = Where(x)
         /\ Exists(t)' = Exists(t) => View(t)' = View(t)
<1>1. OnlyTask(t) /\ pc'[t] = l
  BY DEF FpInv, TypeOK, OnlyTask, Goto, flags, memory
<1>2. CallsPlain'
  BY <1>1, PlainStep DEF Plain, FpInv
<1>3. \A x \in Task \ {t} : View(x)' = View(x) /\ Where(x)' = Where(x)
  BY <1>1, OthersKeep DEF cpus
<1>4. ASSUME Exists(t)' = Exists(t) PROVE View(t)' = View(t)
  <2>1. /\ \A c \in CPU : Live(c, t)' = Live(c, t)
        /\ \A c \in CPU : Live(c, t) => regs'[c] = regs[c]
        /\ Stored(t)' = Stored(t) /\ tif_sve'[t] = tif_sve[t]
    BY DEF Live, Stored, cpus, flags, memory
  <2>2. QED
    BY <1>4, <2>1, SameView
<1>5. QED
  BY <1>1, <1>2, <1>3, <1>4

LEMMA InterruptMaps ==
  ASSUME FpInv, FpInv', CallsPlain, NEW c \in CPU, NEW t \in Task, cur[c] = t, Interrupt(c)
  PROVE  AbsNext /\ CallsPlain'
<1>1. /\ pc[t] = "user" /\ Goto(t, "kernel")
      /\ UNCHANGED <<flags, memory, fpsimd_cpu, cpus>>
  BY DEF Interrupt, At, owner, hw, cpus
<1>2. /\ CallsPlain' /\ pc'[t] = "kernel"
      /\ \A x \in Task \ {t} : View(x)' = View(x) /\ Where(x)' = Where(x)
      /\ Exists(t)' = Exists(t) => View(t)' = View(t)
  BY <1>1, GotoMaps
<1>3. Where(t) = "user" /\ Where(t)' = "kernel" /\ Exists(t)' = Exists(t)
  BY <1>1, <1>2 DEF Where, Exists
<1>4. QED
  BY <1>2, <1>3, Enters

LEMMA RetToUserMaps ==
  ASSUME FpInv, FpInv', CallsPlain, NEW c \in CPU, NEW t \in Task, cur[c] = t, RetToUser(c)
  PROVE  AbsNext /\ CallsPlain'
<1>1. /\ pc[t] \in {"kernel", "syscall"} /\ Goto(t, "user")
      /\ UNCHANGED <<flags, memory, fpsimd_cpu, cpus>>
  BY DEF RetToUser, At, owner, hw, cpus
<1>2. /\ CallsPlain' /\ pc'[t] = "user"
      /\ \A x \in Task \ {t} : View(x)' = View(x) /\ Where(x)' = Where(x)
      /\ Exists(t)' = Exists(t) => View(t)' = View(t)
  BY <1>1, GotoMaps
<1>3. Where(t) \in {"kernel", "call"} /\ Where(t)' = "user" /\ Exists(t)' = Exists(t)
  BY <1>1, <1>2 DEF Where, Exists
<1>4. QED
  BY <1>2, <1>3, Returns

LEMMA FrameDoneMaps ==
  ASSUME FpInv, FpInv', CallsPlain, NEW c \in CPU, NEW t \in Task, cur[c] = t, FrameDone(c)
  PROVE  AbsNext /\ CallsPlain'
<1>1. /\ pc[t] = "frame" /\ Goto(t, "kernel")
      /\ UNCHANGED <<flags, memory, fpsimd_cpu, cpus>>
  BY DEF FrameDone, At, owner, hw, cpus
<1>2. /\ CallsPlain' /\ pc'[t] = "kernel"
      /\ \A x \in Task \ {t} : View(x)' = View(x) /\ Where(x)' = Where(x)
      /\ Exists(t)' = Exists(t) => View(t)' = View(t)
  BY <1>1, GotoMaps
<1>3. Where(t)' = Where(t) /\ Exists(t)' = Exists(t)
  BY <1>1, <1>2 DEF Where, Exists
<1>4. QED
  BY <1>2, <1>3, Stutters

(* The steps that begin or end the replacing of the registers and change   *)
(* no more than the place of the task.                                     *)
LEMMA OpenMaps ==
  ASSUME FpInv, FpInv', CallsPlain, NEW t \in Task, NEW l, Goto(t, l),
         UNCHANGED <<flags, memory, fpsimd_cpu, cpus>>,
         \/ pc[t] \in {"kernel", "syscall"} /\ l \in {"exec", "stop_signal"}
         \/ pc[t] \in {"sigret_fpsimd", "stop_signal"} /\ l = "kernel"
  PROVE  AbsNext /\ CallsPlain'
<1>1. /\ CallsPlain' /\ pc'[t] = l
      /\ \A x \in Task \ {t} : View(x)' = View(x) /\ Where(x)' = Where(x)
  BY GotoMaps
<1>2. /\ Where(t) \in {"kernel", "call", "open"}
      /\ Where(t)' = "open" \/ (Where(t) = "open" /\ Where(t)' \in {"kernel", "call"})
  BY <1>1 DEF Where, Exists
<1>3. QED
  BY <1>1, <1>2, Replaces

LEMMA ExecMaps ==
  ASSUME FpInv, FpInv', CallsPlain, NEW c \in CPU, NEW t \in Task, cur[c] = t,
         Exec(c) \/ SigreturnFault(c)
  PROVE  AbsNext /\ CallsPlain'
<1>1. CASE Exec(c)
  <2>1. /\ pc[t] = "syscall" /\ Goto(t, "exec") /\ UNCHANGED <<flags, memory, fpsimd_cpu, cpus>>
    BY <1>1 DEF Exec, At, owner, hw, cpus
  <2>2. QED
    BY <2>1, OpenMaps
<1>2. CASE SigreturnFault(c)
  <2>1. /\ pc[t] = "sigret_fpsimd" /\ Goto(t, "kernel")
        /\ UNCHANGED <<flags, memory, fpsimd_cpu, cpus>>
    BY <1>2 DEF SigreturnFault, At, owner, hw, cpus
  <2>2. QED
    BY <2>1, OpenMaps
<1>3. QED
  BY <1>1, <1>2

LEMMA TraceStopMaps ==
  ASSUME FpInv, FpInv', CallsPlain, ~ TraceCalls, NEW c \in CPU, TraceStop(c)
  PROVE  AbsNext /\ CallsPlain'
<1>1. /\ cur[c] \in Task /\ pc[cur[c]] \in {"kernel", "syscall"} /\ Goto(cur[c], "stop_signal")
      /\ UNCHANGED <<flags, memory, fpsimd_cpu, cpus>>
  BY DEF TraceStop, At, owner, hw, cpus
<1>2. QED
  BY <1>1, OpenMaps

LEMMA TraceContMaps ==
  ASSUME FpInv, FpInv', CallsPlain, NEW t \in Task, TraceCont(t)
  PROVE  AbsNext /\ CallsPlain'
<1>1. /\ pc[t] = "stop_signal" /\ Goto(t, "kernel")
      /\ UNCHANGED <<flags, memory, fpsimd_cpu, cpus>>
  BY DEF TraceCont, CallsPlain, Plain, owner, hw, cpus
<1>2. QED
  BY <1>1, OpenMaps

LEMMA ExitMaps ==
  ASSUME FpInv, FpInv', CallsPlain, NEW c \in CPU, NEW t \in Task, cur[c] = t, Exit(c)
  PROVE  AbsNext /\ CallsPlain'
<1>1. /\ pc[t] \in {"kernel", "syscall"} /\ Goto(t, "exiting")
      /\ UNCHANGED <<flags, memory, fpsimd_cpu, cpus>>
  BY DEF Exit, At, owner, hw, cpus
<1>2. /\ CallsPlain' /\ pc'[t] = "exiting"
      /\ \A x \in Task \ {t} : View(x)' = View(x) /\ Where(x)' = Where(x)
  BY <1>1, GotoMaps
<1>3. Where(t) \in {"kernel", "call"} /\ Where(t)' = "none" /\ ~ Exists(t)'
  BY <1>1, <1>2 DEF Where, Exists
<1>4. View(t)' = <<Zero, Zero>>
  BY <1>3, NextViews DEF ViewFacts, Zeroes
<1>5. Users!Becomes(t, View(t)', "none")
  BY <1>2, <1>3, Become
<1>6. Users!Exit(t)
  BY <1>3, <1>4, <1>5 DEF Users!Exit
<1>7. QED
  BY <1>2, <1>6 DEF AbsNext, Users!Next

(* Steps of which only the places at which they begin and end matter.      *)
LEMMA ReplaceMaps ==
  ASSUME FpInv, FpInv', CallsPlain, NEW t \in Task, OnlyTask(t), cur' = cur,
         \A c \in CPU : cur[c] # t => regs'[c] = regs[c],
         \/ pc[t] = "syscall" /\ pc'[t] \in Sigreturn
         \/ pc[t] \in Sigreturn \cup {"exec", "stop_signal"}
              /\ pc'[t] \in Sigreturn \cup {"kernel", "stop_signal"}
  PROVE  AbsNext /\ CallsPlain'
<1>1. \A x \in Task \ {t} : View(x)' = View(x) /\ Where(x)' = Where(x)
  BY OthersKeep
<1>2. /\ Where(t) \in {"kernel", "call", "open"}
      /\ Where(t)' = "open" \/ (Where(t) = "open" /\ Where(t)' \in {"kernel", "call"})
  BY DEF Where, Exists, Sigreturn
<1>3. Plain(t)'
  BY DEF Plain, Sigreturn
<1>4. CallsPlain'
  BY <1>3, PlainStep DEF FpInv
<1>5. QED
  BY <1>1, <1>2, <1>4, Replaces

LEMMA SigreturnMaps ==
  ASSUME FpInv, CallsPlain, NEW c \in CPU, NEW t \in Task, cur[c] = t,
         \/ SigreturnFpsimd(c) \/ SigreturnFlush(c) \/ SigreturnForeign(c)
         \/ SigreturnAlloc(c) \/ SigreturnCopy(c) \/ SigreturnSve(c)
         \/ SigreturnUpdate(c) \/ FlushThread(c)
  PROVE  AbsNext /\ CallsPlain'
<1>1. FpInv' /\ OnlyTask(t)
  BY SigreturnFpsimdKeeps, SigreturnFlushKeeps, SigreturnForeignKeeps, SigreturnAllocKeeps,
     SigreturnCopyKeeps, SigreturnSveKeeps, SigreturnUpdateKeeps, FlushThreadKeeps
<1>2. cur' = cur
  BY DEF SigreturnFpsimd, SigreturnFlush, SigreturnForeign, SigreturnAlloc, SigreturnCopy,
     SigreturnSve, SigreturnUpdate, FlushThread
<1>3. \A d \in CPU : cur[d] # t => regs'[d] = regs[d]
  <2>1. CASE SigreturnUpdate(c)
    BY <2>1, SigreturnUpdateKeeps, CpuFrame DEF FpInv, SameCpu
  <2>2. CASE ~ SigreturnUpdate(c)
    BY <2>2 DEF SigreturnFpsimd, SigreturnFlush, SigreturnForeign, SigreturnAlloc,
       SigreturnCopy, SigreturnSve, FlushThread, hw
  <2>3. QED
    BY <2>1, <2>2
<1>4. \/ pc[t] = "syscall" /\ pc'[t] \in Sigreturn
      \/ pc[t] \in Sigreturn \cup {"exec", "stop_signal"}
           /\ pc'[t] \in Sigreturn \cup {"kernel", "stop_signal"}
  <2>1. pc \in [Task -> Label]
    BY DEF FpInv, TypeOK
  <2>2. CASE SigreturnFpsimd(c) \/ SigreturnFlush(c)
    BY <2>1, <2>2 DEF SigreturnFpsimd, SigreturnFlush, At, Goto, Sigreturn
  <2>3. CASE SigreturnForeign(c) \/ SigreturnAlloc(c) \/ SigreturnCopy(c) \/ SigreturnSve(c)
    BY <2>1, <2>3 DEF SigreturnForeign, SigreturnAlloc, SigreturnCopy, SigreturnSve, At, Goto,
       Sigreturn
  <2>4. CASE SigreturnUpdate(c) \/ FlushThread(c)
    BY <2>1, <2>4 DEF SigreturnUpdate, FlushThread, At, Goto, Sigreturn
  <2>5. QED
    BY <2>2, <2>3, <2>4
<1>5. QED
  BY <1>1, <1>2, <1>3, <1>4, ReplaceMaps

LEMMA TraceMaps ==
  ASSUME FpInv, CallsPlain, NEW c \in CPU, NEW t \in Task, Trace(c, t)
  PROVE  AbsNext /\ CallsPlain'
<1>1. FpInv' /\ OnlyTask(t)
  BY FprGetKeeps, FprSetKeeps, SveSetVlKeeps, SveSetFpsimdKeeps, SveSetSveKeeps DEF Trace
<1>2. Traces(c, t) /\ UNCHANGED <<cur, pc, regs>>
  BY DEF Trace, FprGet, fpr_set, SveSetVl, SveSetFpsimd, SveSetSve, hw
<1>3. pc[t] = "stop_signal" /\ pc'[t] = "stop_signal"
  BY <1>2 DEF Traces, Stopped, CallsPlain, Plain
<1>4. QED
  BY <1>1, <1>2, <1>3, ReplaceMaps

-----------------------------------------------------------------------------
(* Steps that compute, save or load the registers of the current task.     *)
LEMMA SavedView ==
  ASSUME FpInv, NEW c \in CPU, NEW t \in Task, cur[c] = t, Exists(t)
  PROVE  View(t) = IF tif_sve[t] THEN SavedS(c, t) ELSE <<SavedF(c, t), Zero>>
<1>1. ViewFacts /\ \A d \in CPU : Live(d, t) => d = c
  BY Views DEF FpInv, Placed, Live
<1>2. CASE Live(c, t)
  BY <1>1, <1>2 DEF ViewFacts, Seen, SavedS, SavedF
<1>3. CASE ~ Live(c, t)
  <2>1. View(t) = Stored(t)
    BY <1>1, <1>3 DEF ViewFacts
  <2>2. QED
    BY <1>3, <2>1 DEF Stored, SavedS, SavedF
<1>4. QED
  BY <1>2, <1>3

LEMMA UserMaps ==
  ASSUME FpInv, CallsPlain, NEW c \in CPU, NEW t \in Task, cur[c] = t,
         UserFpsimd(c) \/ UserSve(c)
  PROVE  AbsNext /\ CallsPlain'
<1>1. FpInv' /\ OnlyTask(t)
  BY UserKeeps
<1>2. /\ pc[t] = "user" /\ UNCHANGED <<cur, pc, tif_sve>>
      /\ \A d \in CPU : cur[d] # t => regs'[d] = regs[d]
  BY DEF UserFpsimd, UserSve, At, flags, FpInv, TypeOK
<1>3. \A x \in Task \ {t} : View(x)' = View(x) /\ Where(x)' = Where(x)
  BY <1>1, <1>2, OthersKeep
<1>4. Where(t) = "user" /\ Where(t)' = "user"
  BY <1>2 DEF Where, Exists
<1>5. Users!Becomes(t, View(t)', "user")
  BY <1>3, <1>4, Become
<1>6. View(t)' \in Users!Regs
  BY <1>1, NextViews DEF ViewFacts, Regs, Users!Regs
<1>7. Users!Compute(t)
  BY <1>4, <1>5, <1>6 DEF Users!Compute
<1>8. CallsPlain'
  BY <1>2 DEF CallsPlain, Plain
<1>9. QED
  BY <1>7, <1>8 DEF AbsNext, Users!Next

LEMMA SvcMaps ==
  ASSUME FpInv, CallsPlain, NEW c \in CPU, NEW t \in Task, cur[c] = t, Svc(c)
  PROVE  AbsNext /\ CallsPlain'
<1>1. FpInv' /\ OnlyTask(t)
  BY SvcKeeps
<1>2. /\ pc[t] = "user" /\ pc'[t] = "syscall" /\ tif_sve'[t] = FALSE
      /\ UNCHANGED <<cur, regs, foreign>>
  BY DEF Svc, At, Goto, FpInv, TypeOK
<1>3. \A x \in Task \ {t} : View(x)' = View(x) /\ Where(x)' = Where(x)
  BY <1>1, <1>2, OthersKeep
<1>4. Where(t) = "user" /\ Where(t)' = "call" /\ Exists(t) /\ Exists(t)'
  BY <1>2 DEF Where, Exists
<1>5. Live(c, t) /\ Live(c, t)'
  BY <1>2 DEF Live, FpInv, TaskInv
<1>6. View(t) = Seen(t, regs[c]) /\ View(t)' = Seen(t, regs[c])'
  BY <1>1, <1>4, <1>5, Views, NextViews DEF ViewFacts
<1>7. View(t)' = <<View(t)[1], Zero>>
  BY <1>2, <1>6, SMT DEF Seen, FpInv, TypeOK
<1>8. CallsPlain'
  BY <1>1, <1>2, PlainStep DEF Plain, FpInv
<1>9. QED
  BY <1>3, <1>4, <1>7, <1>8, Calls

LEMMA SveTrapMaps ==
  ASSUME FpInv, CallsPlain, NEW c \in CPU, NEW t \in Task, cur[c] = t, SveTrap(c)
  PROVE  AbsNext /\ CallsPlain'
<1>1. FpInv' /\ OnlyTask(t)
  BY SveTrapKeeps
<1>2. /\ pc[t] = "user" /\ pc'[t] = "sve_acc" /\ ~ cpacr[c]
      /\ UNCHANGED <<cur, regs, foreign, tif_sve, fpsimd_state>>
  BY DEF SveTrap, At, Goto, FpInv, TypeOK, flags, hw
<1>3. \A x \in Task \ {t} : View(x)' = View(x) /\ Where(x)' = Where(x)
  BY <1>1, <1>2, OthersKeep
<1>4. Where(t) = "user" /\ Where(t)' = "kernel" /\ Exists(t) /\ Exists(t)'
  BY <1>2 DEF Where, Exists
<1>5. ~ tif_sve[t]
  <2>1. TaskInv(t) /\ PairInv(c, t)
    BY DEF FpInv
  <2>2. QED
    BY <1>2, <2>1 DEF TaskInv, PairInv, Live
<1>6. Stored(t)' = Stored(t) /\ \A d \in CPU : Live(d, t)' = Live(d, t)
  BY <1>2, <1>5 DEF Stored, Live
<1>7. View(t)' = View(t)
  BY <1>1, <1>2, <1>4, <1>6, SameView
<1>8. CallsPlain'
  BY <1>1, <1>2, PlainStep DEF Plain, FpInv
<1>9. QED
  BY <1>3, <1>4, <1>7, <1>8, Enters

LEMMA DoSveAccMaps ==
  ASSUME FpInv, CallsPlain, NEW c \in CPU, NEW t \in Task, cur[c] = t, do_sve_acc(c)
  PROVE  AbsNext /\ CallsPlain'
<1>1. FpInv' /\ OnlyTask(t)
  BY DoSveAccKeeps
<1>2. /\ pc[t] = "sve_acc" /\ pc'[t] = "kernel" /\ foreign'[t] = TRUE /\ tif_sve'[t] = TRUE
      /\ UNCHANGED <<cur, regs>>
  BY DEF do_sve_acc, At, Goto, FpInv, TypeOK, hw
<1>3. \A x \in Task \ {t} : View(x)' = View(x) /\ Where(x)' = Where(x)
  BY <1>1, <1>2, OthersKeep
<1>4. Where(t)' = Where(t) /\ Exists(t) /\ Exists(t)'
  BY <1>2 DEF Where, Exists
<1>5. ~ tif_sve[t] /\ sve_state[t] = Zeroes
  BY <1>2 DEF FpInv, TaskInv
<1>6. View(t) = <<SavedF(c, t), Zero>>
  BY <1>4, <1>5, SavedView
<1>7. sve_state'[t] = <<SavedF(c, t), SavedS(c, t)[2]>>
  <2>1. /\ SavedFpsimd(c) = [fpsimd_state EXCEPT ![t] = SavedF(c, t)]
        /\ SavedSve(c) = [sve_state EXCEPT ![t] = SavedS(c, t)]
    BY SaveOwn
  <2>2. fpsimd_state'[t] = SavedF(c, t)
    BY <2>1 DEF do_sve_acc, FpInv, TypeOK
  <2>3. QED
    BY <2>1, <2>2 DEF do_sve_acc, FpInv, TypeOK
<1>8. sve_state'[t] = <<SavedF(c, t), Zero>>
  BY <1>5, <1>7, SMT DEF SavedS, Zeroes
<1>9. View(t)' = Stored(t)'
  BY <1>1, <1>2, <1>4, NextViews DEF ViewFacts, Live
<1>10. View(t)' = View(t)
  BY <1>2, <1>6, <1>8, <1>9 DEF Stored
<1>11. CallsPlain'
  BY <1>1, <1>2, PlainStep DEF Plain, FpInv
<1>12. QED
  BY <1>3, <1>4, <1>10, <1>11, Stutters

LEMMA RestoreMaps ==
  ASSUME FpInv, CallsPlain, NEW c \in CPU, NEW t \in Task, cur[c] = t, RestoreCurrentState(c)
  PROVE  AbsNext /\ CallsPlain'
<1>1. /\ FpInv' /\ Live(c, t)' /\ regs'[c] = Stored(t)' /\ OnlyTask(t) /\ OnlyCpu(c)
      /\ Stored(t)' = Stored(t)
  BY RestoreKeeps
<1>2. /\ pc[t] \in {"kernel", "syscall"} /\ pc'[t] = "kernel" /\ foreign[t]
      /\ UNCHANGED <<cur, tif_sve>>
  BY DEF RestoreCurrentState, At, Goto, FpInv, TypeOK
<1>3. \A x \in Task \ {t} : View(x)' = View(x) /\ Where(x)' = Where(x)
  <2>1. \A d \in CPU : cur[d] # t => regs'[d] = regs[d]
    BY <1>1, CpuFrame DEF FpInv, SameCpu
  <2>2. QED
    BY <1>1, <1>2, <2>1, OthersKeep
<1>4. Where(t) \in {"kernel", "call"} /\ Where(t)' = "kernel" /\ Exists(t) /\ Exists(t)'
  BY <1>2 DEF Where, Exists
<1>5. View(t) = Stored(t)
  BY <1>2, <1>4, Views DEF ViewFacts, Live
<1>6. View(t)' = Seen(t, regs[c])'
  BY <1>1, <1>4, NextViews DEF ViewFacts
<1>7. View(t)' = View(t)
  BY <1>1, <1>5, <1>6, SMT DEF Seen, Stored
<1>8. CallsPlain'
  BY <1>1, <1>2, PlainStep DEF Plain, FpInv
<1>9. QED
  BY <1>3, <1>4, <1>7, <1>8, Returns

LEMMA SetupFrameMaps ==
  ASSUME FpInv, CallsPlain, NEW c \in CPU, NEW t \in Task, cur[c] = t, SetupFrame(c)
  PROVE  AbsNext /\ CallsPlain'
<1>1. FpInv' /\ OnlyTask(t)
  BY SetupFrameKeeps
<1>2. /\ pc[t] \in {"kernel", "syscall"} /\ pc'[t] = "frame_sync"
      /\ UNCHANGED <<cur, regs, foreign, tif_sve>>
  BY DEF SetupFrame, At, Goto, FpInv, TypeOK, flags, hw
<1>3. \A x \in Task \ {t} : View(x)' = View(x) /\ Where(x)' = Where(x)
  BY <1>1, <1>2, OthersKeep
<1>4. Where(t) \in {"kernel", "call"} /\ Where(t)' = "kernel" /\ Exists(t) /\ Exists(t)'
  BY <1>2 DEF Where, Exists
<1>5. ~ Live(c, t) => Stored(t)' = Stored(t)
  <2>1. SUFFICES ASSUME ~ Live(c, t) PROVE Stored(t)' = Stored(t)
    OBVIOUS
  <2>2. SavedFpsimd(c) = fpsimd_state /\ SavedSve(c) = sve_state
    BY <2>1 DEF SavedFpsimd, SavedSve, LiveOn, Live
  <2>3. QED
    BY <1>2, <2>2 DEF SetupFrame, fpsimd_save, Stored
<1>6. \A d \in CPU : Live(d, t)' = Live(d, t)
  BY <1>2 DEF Live
<1>7. View(t)' = View(t)
  BY <1>1, <1>2, <1>4, <1>5, <1>6, SameView
<1>8. CallsPlain'
  BY <1>1, <1>2, PlainStep DEF Plain, FpInv
<1>9. QED
  BY <1>3, <1>4, <1>7, <1>8, Returns

LEMMA FrameSyncMaps ==
  ASSUME FpInv, CallsPlain, NEW c \in CPU, NEW t \in Task, cur[c] = t, FrameSync(c)
  PROVE  AbsNext /\ CallsPlain'
<1>1. FpInv' /\ OnlyTask(t) /\ Stored(t)' = Stored(t)
  BY FrameSyncKeeps
<1>2. /\ pc[t] = "frame_sync" /\ pc'[t] = "frame" /\ UNCHANGED <<cur, regs, foreign, tif_sve>>
  BY DEF FrameSync, At, Goto, FpInv, TypeOK, flags, hw
<1>3. \A x \in Task \ {t} : View(x)' = View(x) /\ Where(x)' = Where(x)
  BY <1>1, <1>2, OthersKeep
<1>4. Where(t)' = Where(t) /\ Exists(t)' = Exists(t)
  BY <1>2 DEF Where, Exists
<1>5. \A d \in CPU : Live(d, t)' = Live(d, t)
  BY <1>2 DEF Live
<1>6. View(t)' = View(t)
  BY <1>1, <1>2, <1>4, <1>5, SameView
<1>7. CallsPlain'
  BY <1>1, <1>2, PlainStep DEF Plain, FpInv
<1>8. QED
  BY <1>3, <1>4, <1>6, <1>7, Stutters

LEMMA SetVlMaps ==
  ASSUME FpInv, CallsPlain, NEW c \in CPU, NEW t \in Task, cur[c] = t, SetVl(c)
  PROVE  AbsNext /\ CallsPlain'
<1>1. FpInv' /\ OnlyTask(t)
  BY SetVlKeeps
<1>2. /\ pc[t] = "syscall" /\ pc'[t] = "set_vl" /\ foreign'[t] = TRUE /\ tif_sve'[t] = FALSE
      /\ ~ tif_sve[t] /\ UNCHANGED <<cur, regs>>
  BY DEF SetVl, At, Goto, FpInv, TypeOK, hw, CallsPlain, Plain
<1>3. \A x \in Task \ {t} : View(x)' = View(x) /\ Where(x)' = Where(x)
  BY <1>1, <1>2, OthersKeep
<1>4. Where(t) = "call" /\ Where(t)' = "call" /\ Exists(t) /\ Exists(t)'
  BY <1>2 DEF Where, Exists
<1>5. View(t) = <<SavedF(c, t), Zero>>
  BY <1>2, <1>4, SavedView
<1>6. fpsimd_state'[t] = SavedF(c, t)
  <2>1. SavedFpsimd(c) = [fpsimd_state EXCEPT ![t] = SavedF(c, t)]
    BY SaveOwn
  <2>2. QED
    BY <1>2, <2>1 DEF SetVl, FpInv, TypeOK
<1>7. View(t)' = Stored(t)'
  BY <1>1, <1>2, <1>4, NextViews DEF ViewFacts, Live
<1>8. View(t)' = View(t)
  BY <1>2, <1>5, <1>6, <1>7 DEF Stored
<1>9. CallsPlain'
  BY <1>1, <1>2, PlainStep DEF Plain, FpInv
<1>10. QED
  BY <1>3, <1>4, <1>8, <1>9, Calls

LEMMA SetVlFreeMaps ==
  ASSUME FpInv, CallsPlain, NEW c \in CPU, NEW t \in Task, cur[c] = t, SetVlFree(c)
  PROVE  AbsNext /\ CallsPlain'
<1>1. FpInv' /\ OnlyTask(t)
  BY SetVlFreeKeeps
<1>2. /\ pc[t] = "set_vl" /\ pc'[t] = "syscall"
      /\ UNCHANGED <<cur, regs, foreign, tif_sve, fpsimd_state>>
  BY DEF SetVlFree, At, Goto, FpInv, TypeOK, flags, hw
<1>3. ~ tif_sve[t]
  BY <1>2 DEF FpInv, TaskInv
<1>4. \A x \in Task \ {t} : View(x)' = View(x) /\ Where(x)' = Where(x)
  BY <1>1, <1>2, OthersKeep
<1>5. Where(t)' = Where(t) /\ Exists(t) /\ Exists(t)'
  BY <1>2 DEF Where, Exists
<1>6. Stored(t)' = Stored(t) /\ \A d \in CPU : Live(d, t)' = Live(d, t)
  BY <1>2, <1>3 DEF Stored, Live
<1>7. View(t)' = View(t)
  BY <1>1, <1>2, <1>5, <1>6, SameView
<1>8. CallsPlain'
  BY <1>1, <1>2, <1>3, PlainStep DEF Plain, FpInv
<1>9. QED
  BY <1>4, <1>5, <1>7, <1>8, Stutters

LEMMA ReleaseMaps ==
  ASSUME FpInv, CallsPlain, NEW t \in Task, Release(t)
  PROVE  AbsNext /\ CallsPlain'
<1>1. FpInv' /\ OnlyTask(t)
  BY ReleaseKeeps
<1>2. pc[t] = "exiting" /\ pc'[t] = "free" /\ UNCHANGED <<cur, regs>>
  BY DEF Release, Goto, FpInv, TypeOK, hw
<1>3. \A x \in Task \ {t} : View(x)' = View(x) /\ Where(x)' = Where(x)
  BY <1>1, <1>2, OthersKeep
<1>4. Where(t)' = Where(t) /\ ~ Exists(t) /\ ~ Exists(t)'
  BY <1>2 DEF Where, Exists
<1>5. View(t)' = View(t)
  BY <1>1, <1>4, Views, NextViews DEF ViewFacts
<1>6. CallsPlain'
  BY <1>1, <1>2, PlainStep DEF Plain, FpInv
<1>7. QED
  BY <1>3, <1>4, <1>5, <1>6, Stutters

LEMMA ForkMaps ==
  ASSUME FpInv, CallsPlain, NEW c \in CPU, NEW t \in Task, cur[c] = t, NEW n \in Task,
         Fork(c, n)
  PROVE  AbsNext /\ CallsPlain'
<1>1. FpInv'
  BY ForkKeeps
<1>2. /\ pc[t] = "syscall" /\ n # t /\ NotRunning(n) /\ ~ Exists(n)
      /\ UNCHANGED <<cur, last_state, hw, neon_busy>>
      /\ \A x \in Task \ {t, n} : SameTask(x)
  BY ForkFrame
<1>3. pc'[t] = pc[t] /\ foreign'[t] = foreign[t] /\ tif_sve'[t] = tif_sve[t] /\ ~ tif_sve[t]
  BY <1>2, ForkFrame DEF CallsPlain, Plain
<1>4. pc'[n] = "kernel" /\ tif_sve'[n] = FALSE /\ fpsimd_state'[n] = SavedF(c, t)
  <2>1. pc'[n] = "kernel" /\ tif_sve'[n] = FALSE
    BY ForkFlags
  <2>2. fpsimd_state'[n] = SavedF(c, t)
    BY ForkMemory, SMT
  <2>3. QED
    BY <2>1, <2>2
<1>5. ASSUME NEW x \in Task \ {t, n} PROVE View(x)' = View(x) /\ Where(x)' = Where(x)
  <2>1. SameTask(x)
    BY <1>2
  <2>2. Where(x)' = Where(x) /\ Exists(x)' = Exists(x)
    BY <2>1 DEF Where, Exists, SameTask
  <2>3. /\ \A d \in CPU : Live(d, x)' = Live(d, x)
        /\ \A d \in CPU : Live(d, x) => regs'[d] = regs[d]
        /\ Stored(x)' = Stored(x) /\ tif_sve'[x] = tif_sve[x]
    BY <1>2, <2>1 DEF SameTask, Live, Stored, hw
  <2>4. QED
    BY <1>1, <2>2, <2>3, SameView
<1>6. View(t)' = View(t) /\ Where(t)' = Where(t) /\ Where(t) = "call"
  <2>1. Where(t)' = Where(t) /\ Exists(t)' = Exists(t) /\ Where(t) = "call"
    BY <1>2, <1>3 DEF Where, Exists
  <2>2. /\ \A d \in CPU : Live(d, t)' = Live(d, t)
        /\ \A d \in CPU : Live(d, t) => regs'[d] = regs[d]
    BY <1>2, <1>3 DEF Live, hw
  <2>3. ~ Live(c, t) => Stored(t)' = Stored(t)
    BY <1>3, ForkMemory DEF Stored, SavedF
  <2>4. QED
    BY <1>1, <1>3, <2>1, <2>2, <2>3, SameView
<1>7. View(n)' = <<View(t)[1], Zero>>
  <2>1. Exists(t) /\ Exists(n)'
    BY <1>2, <1>4 DEF Exists
  <2>2. View(t) = <<SavedF(c, t), Zero>>
    BY <1>3, <2>1, SavedView
  <2>3. \A d \in CPU : ~ Live(d, n)'
    BY <1>2 DEF NotRunning, Live
  <2>4. View(n)' = Stored(n)'
    BY <1>1, <2>1, <2>3, NextViews DEF ViewFacts
  <2>5. QED
    BY <1>4, <2>2, <2>4, SMT DEF Stored
<1>8. Where(n) = "none" /\ Where(n)' = "kernel"
  BY <1>2, <1>4 DEF Where, Exists
<1>9. Users!Becomes(n, View(n)', "kernel")
  <2>1. \A x \in Task \ {n} : View(x)' = View(x) /\ Where(x)' = Where(x)
    BY <1>5, <1>6
  <2>2. QED
    BY <1>8, <2>1, Become
<1>10. Users!Fork(t, n)
  BY <1>6, <1>7, <1>8, <1>9 DEF Users!Fork, Users!FpsimdPart
<1>11. CallsPlain'
  <2>1. Plain(t)' /\ Plain(n)'
    BY <1>2, <1>3, <1>4 DEF Plain
  <2>2. ASSUME NEW x \in Task \ {t, n} PROVE Plain(x)'
    <3>1. SameTask(x) /\ Plain(x)
      BY <1>2 DEF CallsPlain
    <3>2. QED
      BY <3>1 DEF Plain, SameTask
  <2>3. QED
    BY <2>1, <2>2 DEF CallsPlain
<1>12. QED
  BY <1>10, <1>11 DEF AbsNext, Users!Next

-----------------------------------------------------------------------------
(* What happens to CPUs is not seen by any task.                           *)
LEMMA Unseen ==
  ASSUME CallsPlain, UNCHANGED <<pc, tif_sve>>, \A x \in Task : View(x)' = View(x)
  PROVE  AbsNext /\ CallsPlain'
<1>1. \A x \in Task : Where(x)' = Where(x)
  BY DEF Where, Exists
<1>2. AbsNext
  BY <1>1 DEF AbsNext, Users!uvars
<1>3. QED
  BY <1>2 DEF CallsPlain, Plain

LEMMA NeonMaps ==
  ASSUME FpInv, CallsPlain, NEW c \in CPU, NeonUse(c) \/ kernel_neon_end(c) \/ CpuDead(c)
  PROVE  AbsNext /\ CallsPlain'
<1>1. FpInv'
  BY NeonKeeps, CpuDeadKeeps
<1>2. /\ UNCHANGED <<cur, pc, flags, memory>>
      /\ \A d \in CPU \ {c} : regs'[d] = regs[d]
  BY DEF NeonUse, kernel_neon_end, CpuDead, hw, FpInv, TypeOK
<1>3. ASSUME NEW x \in Task PROVE ~ Live(c, x)
  <2>1. PairInv(c, x)
    BY DEF FpInv
  <2>2. neon_busy[c] => last_state[c] = None
    BY DEF FpInv
  <2>3. QED
    BY <2>1, <2>2, FpsimdAssumption DEF PairInv, Live, NeonUse, kernel_neon_end, CpuDead
<1>4. ASSUME NEW x \in Task PROVE View(x)' = View(x)
  <2>1. /\ \A d \in CPU : Live(d, x)' = Live(d, x)
        /\ \A d \in CPU : Live(d, x) => regs'[d] = regs[d]
        /\ Stored(x)' = Stored(x) /\ tif_sve'[x] = tif_sve[x] /\ Exists(x)' = Exists(x)
    BY <1>2, <1>3 DEF Live, Stored, Exists, flags, memory
  <2>2. QED
    BY <1>1, <2>1, SameView
<1>5. QED
  BY <1>2, <1>4, Unseen DEF flags

LEMMA SaveAndFlushMaps ==
  ASSUME FpInv, FpInv', CallsPlain, NEW c \in CPU, InKernel(c), fpsimd_save(c), FlushCpuState(c),
         UNCHANGED <<cur, pc, tif_sve>>, \A d \in CPU \ {c} : regs'[d] = regs[d]
  PROVE  AbsNext /\ CallsPlain'
<1>1. /\ \A x \in Task : x # cur[c] => fpsimd_state'[x] = fpsimd_state[x]
                                     /\ sve_state'[x] = sve_state[x]
      /\ cur[c] \in Task => fpsimd_state'[cur[c]] = SavedF(c, cur[c])
                            /\ sve_state'[cur[c]] = SavedS(c, cur[c])
  BY SaveFrame DEF fpsimd_save
<1>2. /\ \A x \in Task : x # cur[c] => foreign'[x] = foreign[x]
      /\ cur[c] \in Task => foreign'[cur[c]] = TRUE
  BY DEF FlushCpuState, FpInv, TypeOK
<1>3. ASSUME NEW x \in Task, x # cur[c] PROVE View(x)' = View(x)
  <2>1. /\ \A d \in CPU : Live(d, x)' = Live(d, x)
        /\ \A d \in CPU : Live(d, x) => regs'[d] = regs[d]
        /\ Stored(x)' = Stored(x) /\ tif_sve'[x] = tif_sve[x] /\ Exists(x)' = Exists(x)
    BY <1>1, <1>2, <1>3 DEF Live, Stored, Exists
  <2>2. QED
    BY <2>1, SameView
<1>4. ASSUME NEW t \in Task, cur[c] = t PROVE View(t)' = View(t)
  <2>1. CASE ~ Exists(t)
    <3>1. ~ Exists(t)'
      BY <2>1 DEF Exists
    <3>2. QED
      BY <2>1, <3>1, Views, NextViews DEF ViewFacts
  <2>2. CASE Exists(t)
    <3>1. Exists(t)' /\ \A d \in CPU : ~ Live(d, t)'
      BY <1>2, <1>4, <2>2 DEF Exists, Live
    <3>2. View(t)' = Stored(t)'
      BY <3>1, NextViews DEF ViewFacts
    <3>3. View(t) = IF tif_sve[t] THEN SavedS(c, t) ELSE <<SavedF(c, t), Zero>>
      BY <1>4, <2>2, SavedView
    <3>4. QED
      BY <1>1, <1>4, <3>2, <3>3 DEF Stored
  <2>3. QED
    BY <2>1, <2>2
<1>5. \A x \in Task : View(x)' = View(x)
  BY <1>3, <1>4
<1>6. QED
  BY <1>5, Unseen

LEMMA NeonBeginMaps ==
  ASSUME FpInv, CallsPlain, NEW c \in CPU, kernel_neon_begin(c) \/ PmEnter(c)
  PROVE  AbsNext /\ CallsPlain'
<1>1. FpInv'
  BY NeonBeginKeeps, PmEnterKeeps
<1>2. /\ InKernel(c) /\ fpsimd_save(c) /\ FlushCpuState(c) /\ UNCHANGED <<cur, pc, tif_sve>>
      /\ \A d \in CPU \ {c} : regs'[d] = regs[d]
  <2>1. CASE kernel_neon_begin(c)
    BY <2>1 DEF kernel_neon_begin, hw
  <2>2. CASE PmEnter(c)
    <3>1. InKernel(c)
      BY <2>2, FpsimdAssumption DEF PmEnter, InKernel, At
    <3>2. fpsimd_save(c) /\ FlushCpuState(c) /\ UNCHANGED <<cur, pc, tif_sve>>
      BY <2>2 DEF PmEnter
    <3>3. \A d \in CPU \ {c} : regs'[d] = regs[d]
      BY <2>2 DEF PmEnter, FpInv, TypeOK
    <3>4. QED
      BY <3>1, <3>2, <3>3
  <2>3. QED
    BY <2>1, <2>2
<1>3. QED
  BY <1>1, <1>2, SaveAndFlushMaps

LEMMA SwitchMaps ==
  ASSUME FpInv, CallsPlain, NEW c \in CPU, NEW n \in Task \cup {None}, Switch(c, n)
  PROVE  AbsNext /\ CallsPlain'
<1>1. FpInv'
  BY SwitchKeeps
<1>2. /\ n # cur[c] /\ (n \in Task => pc[n] \in Kernel /\ NotRunning(n))
      /\ UNCHANGED <<pc, tif_sve, fpsimd_cpu, last_state, hw>>
  BY SwitchEffect
<1>3. cur'[c] = n /\ \A d \in CPU \ {c} : cur'[d] = cur[d]
  BY SwitchEffect
<1>4. /\ \A x \in Task : x # n => foreign'[x] = foreign[x]
      /\ n \in Task => foreign'[n] = (last_state[c] # n \/ fpsimd_cpu[n] # c)
  BY DEF Switch, FpInv, TypeOK
<1>5. /\ \A x \in Task : x # cur[c] => fpsimd_state'[x] = fpsimd_state[x]
                                     /\ sve_state'[x] = sve_state[x]
      /\ cur[c] \in Task => fpsimd_state'[cur[c]] = SavedF(c, cur[c])
                            /\ sve_state'[cur[c]] = SavedS(c, cur[c])
  BY SwitchSaves
<1>6. ASSUME NEW x \in Task, x # cur[c] PROVE Stored(x)' = Stored(x)
  BY <1>2, <1>5, <1>6 DEF Stored
<1>7. ASSUME NEW x \in Task, x # cur[c], x # n PROVE View(x)' = View(x)
  <2>1. /\ \A d \in CPU : Live(d, x)' = Live(d, x)
        /\ \A d \in CPU : Live(d, x) => regs'[d] = regs[d]
        /\ Stored(x)' = Stored(x) /\ tif_sve'[x] = tif_sve[x] /\ Exists(x)' = Exists(x)
    BY <1>2, <1>3, <1>4, <1>6, <1>7 DEF Live, Exists, hw
  <2>2. QED
    BY <1>1, <2>1, SameView
<1>8. ASSUME NEW p \in Task, cur[c] = p PROVE View(p)' = View(p)
  <2>1. CASE ~ Exists(p)
    <3>1. ~ Exists(p)'
      BY <1>2, <2>1 DEF Exists
    <3>2. QED
      BY <1>1, <2>1, <3>1, Views, NextViews DEF ViewFacts
  <2>2. CASE Exists(p)
    <3>1. Exists(p)' /\ \A d \in CPU : cur'[d] # p
      BY <1>2, <1>3, <1>8, <2>2 DEF Exists, FpInv, Placed
    <3>2. View(p)' = Stored(p)'
      BY <1>1, <3>1, NextViews DEF ViewFacts, Live
    <3>3. View(p) = IF tif_sve[p] THEN SavedS(c, p) ELSE <<SavedF(c, p), Zero>>
      BY <1>8, <2>2, SavedView
    <3>4. QED
      BY <1>2, <1>5, <1>8, <3>2, <3>3 DEF Stored
  <2>3. QED
    BY <2>1, <2>2
<1>9. ASSUME n \in Task PROVE View(n)' = View(n)
  <2>1. Exists(n) /\ Exists(n)' /\ \A d \in CPU : ~ Live(d, n)
    BY <1>2, <1>9 DEF Exists, Kernel, Sigreturn, NotRunning, Live
  <2>2. View(n) = Stored(n) /\ Stored(n)' = Stored(n)
    BY <1>2, <1>6, <1>9, <2>1, Views DEF ViewFacts
  <2>3. CASE Live(c, n)'
    <3>1. View(n)' = Seen(n, regs[c])'
      BY <1>1, <1>9, <2>1, <2>3, NextViews DEF ViewFacts
    <3>2. PairInv(c, n) /\ last_state[c] = n /\ fpsimd_cpu[n] = c
      BY <1>4, <1>9, <2>3 DEF FpInv, Live
    <3>3. Seen(n, regs[c])' = Seen(n, regs[c]) /\ Seen(n, regs[c]) = Stored(n)
      BY <1>2, <2>1, <3>2 DEF PairInv, Seen, hw
    <3>4. QED
      BY <2>2, <3>1, <3>3
  <2>4. CASE ~ Live(c, n)'
    <3>1. \A d \in CPU : ~ Live(d, n)'
      BY <1>2, <1>3, <1>9, <2>4 DEF Live, NotRunning
    <3>2. View(n)' = Stored(n)'
      BY <1>1, <1>9, <2>1, <3>1, NextViews DEF ViewFacts
    <3>3. QED
      BY <2>2, <3>2
  <2>5. QED
    BY <2>3, <2>4
<1>10. \A x \in Task : View(x)' = View(x)
  BY <1>7, <1>8, <1>9
<1>11. QED
  BY <1>2, <1>10, Unseen

-----------------------------------------------------------------------------
LEMMA InitMaps ==
  Init => Users!Init /\ CallsPlain
<1>1. SUFFICES ASSUME Init PROVE Users!Init /\ CallsPlain
  OBVIOUS
<1>2. CallsPlain
  BY <1>1 DEF Init, CallsPlain, Plain
<1>3. ASSUME NEW t \in Task PROVE View(t) = <<Zero, Zero>> /\ Where(t) \in {"none", "kernel"}
  <2>1. Stored(t) = <<Zero, Zero>> /\ \A c \in CPU : ~ Live(c, t)
    BY <1>1 DEF Init, Stored, Live
  <2>2. View(t) = <<Zero, Zero>>
    BY <1>1, <2>1, InitHolds, Views DEF ViewFacts, Zeroes
  <2>3. Where(t) \in {"none", "kernel"}
    BY <1>1 DEF Init, Where, Exists
  <2>4. QED
    BY <2>2, <2>3
<1>4. Users!Init
  BY <1>3 DEF Users!Init
<1>5. QED
  BY <1>2, <1>4

LEMMA UserStepMaps ==
  ASSUME FpInv, FpInv', CallsPlain, NEW c \in CPU, User(c) PROVE AbsNext /\ CallsPlain'
<1>1. PICK t \in Task : cur[c] = t
  BY DEF User, UserFpsimd, UserSve, Interrupt, Svc, SveTrap, At
<1>2. QED
  BY <1>1, UserMaps, InterruptMaps, SvcMaps, SveTrapMaps DEF User

LEMMA CallMaps ==
  ASSUME FpInv, FpInv', CallsPlain, NEW c \in CPU, Call(c) PROVE AbsNext /\ CallsPlain'
<1>1. PICK t \in Task : cur[c] = t
  <2>1. CASE \E n \in Task : Fork(c, n)
    BY <2>1 DEF Fork, At
  <2>2. CASE ~ \E n \in Task : Fork(c, n)
    BY <2>2 DEF Call, SigreturnFpsimd, SigreturnFlush, SigreturnForeign, SigreturnAlloc,
       SigreturnCopy, SigreturnSve, SigreturnUpdate, SigreturnFault, Exec, FlushThread, SetVl,
       SetVlFree, Exit, At
  <2>3. QED
    BY <2>1, <2>2
<1>2. CASE \/ SigreturnFpsimd(c) \/ SigreturnFlush(c) \/ SigreturnForeign(c)
           \/ SigreturnAlloc(c) \/ SigreturnCopy(c) \/ SigreturnSve(c)
           \/ SigreturnUpdate(c) \/ FlushThread(c)
  BY <1>1, <1>2, SigreturnMaps
<1>3. CASE \/ SigreturnFault(c) \/ Exec(c) \/ SetVl(c) \/ SetVlFree(c) \/ Exit(c)
  BY <1>1, <1>3, ExecMaps, SetVlMaps, SetVlFreeMaps, ExitMaps
<1>4. CASE \E n \in Task : Fork(c, n)
  BY <1>1, <1>4, ForkMaps
<1>5. QED
  BY <1>2, <1>3, <1>4 DEF Call

LEMMA ResumeMaps ==
  ASSUME FpInv, FpInv', CallsPlain, NEW c \in CPU, Resume(c) PROVE AbsNext /\ CallsPlain'
<1>1. PICK t \in Task : cur[c] = t
  BY DEF Resume, do_sve_acc, RestoreCurrentState, RetToUser, SetupFrame, FrameSync,
     FrameDone, At
<1>2. QED
  BY <1>1, DoSveAccMaps, RestoreMaps, RetToUserMaps, SetupFrameMaps, FrameSyncMaps,
     FrameDoneMaps DEF Resume

LEMMA CpuMaps ==
  ASSUME FpInv, CallsPlain, NEW c \in CPU, Cpu(c) PROVE AbsNext /\ CallsPlain'
  BY NeonBeginMaps, NeonMaps, SwitchMaps DEF Cpu

LEMMA StutterMaps ==
  ASSUME FpInv, FpInv', CallsPlain, UNCHANGED vars PROVE AbsNext /\ CallsPlain'
<1>1. UNCHANGED <<pc, cur, foreign, tif_sve, fpsimd_state, sve_state, regs>>
  BY DEF vars, flags, memory, hw
<1>2. ASSUME NEW x \in Task PROVE View(x)' = View(x)
  <2>1. /\ \A d \in CPU : Live(d, x)' = Live(d, x)
        /\ \A d \in CPU : Live(d, x) => regs'[d] = regs[d]
        /\ Stored(x)' = Stored(x) /\ tif_sve'[x] = tif_sve[x] /\ Exists(x)' = Exists(x)
    BY <1>1 DEF Live, Stored, Exists
  <2>2. QED
    BY <2>1, SameView
<1>3. QED
  BY <1>1, <1>2, Unseen

LEMMA NextMaps ==
  ~ TraceCalls => (FpInv /\ FpInv' /\ CallsPlain /\ [Next]_vars => AbsNext /\ CallsPlain')
<1>1. SUFFICES ASSUME ~ TraceCalls, FpInv, FpInv', CallsPlain, [Next]_vars
      PROVE  AbsNext /\ CallsPlain'
  OBVIOUS
<1>2. CASE \E c \in CPU : \/ User(c) \/ Call(c) \/ Resume(c) \/ Cpu(c) \/ TraceStop(c)
                         \/ \E t \in Task : Trace(c, t)
  BY <1>1, <1>2, UserStepMaps, CallMaps, ResumeMaps, CpuMaps, TraceStopMaps, TraceMaps
<1>3. CASE \E t \in Task : Release(t) \/ TraceCont(t)
  BY <1>1, <1>3, ReleaseMaps, TraceContMaps
<1>4. CASE UNCHANGED vars
  BY <1>1, <1>4, StutterMaps
<1>5. QED
  BY <1>1, <1>2, <1>3, <1>4 DEF Next

(* Lazy restoring is not seen.  As long as tracers stop tasks at signals   *)
(* only, fpsimd.c gives every task registers of its own: what happens to   *)
(* the registers of tasks is what UserRegs allows.                         *)
THEOREM TasksAlwaysOwnTheirRegisters ==
  ASSUME ~ TraceCalls
  PROVE  Spec => TasksOwnTheirRegisters
<1>1. Init => Users!Init /\ CallsPlain
  BY InitMaps
<1>2. FpInv /\ FpInv' /\ CallsPlain /\ [Next]_vars => AbsNext /\ CallsPlain'
  BY NextMaps
<1>3. Spec => []FpInv
  BY Invariant
<1>4. QED
  BY <1>1, <1>2, <1>3, PTL DEF Spec, TasksOwnTheirRegisters, Users!Spec, AbsNext
=============================================================================
