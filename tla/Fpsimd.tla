------------------------------- MODULE Fpsimd -------------------------------
(***************************************************************************)
(* Who owns the FPSIMD/SVE register file of a CPU (kernel/fpsimd.c).       *)
(*                                                                         *)
(* The registers of a CPU are saved when a task leaves it, but the next    *)
(* task's are loaded only when it returns to user mode, and not at all if  *)
(* the CPU (last_state) and the task (fpsimd_cpu) agree that the registers *)
(* still hold them.  TIF_FOREIGN_FPSTATE (foreign) says that the registers *)
(* are not those of the current task.  TIF_SVE (tif_sve) says whether a    *)
(* task's state is all of the Z registers or only the V registers in them. *)
(*                                                                         *)
(* The register file is a pair: <<what the V registers hold, what the rest *)
(* of the Z registers holds>>.  A section with softirqs disabled is one    *)
(* step; between two steps of a task its CPU may take a softirq that uses  *)
(* kernel-mode NEON, or switch to another task.                            *)
(***************************************************************************)
EXTENDS Integers

CONSTANTS
  Task,      \* task_structs, free ones included
  CPU,
  Val,       \* contents of registers
  Zero,      \* registers that are all zero
  Vl,        \* supported vector lengths (sve_vq_map)
  None,      \* the idle task, a NULL last_state, NR_CPUS in fpsimd_cpu
  Boot,      \* the tasks that exist initially
  Tracer,    \* the tasks that may use ptrace
  TraceCalls,\* whether tracers stop tasks at system calls, not only at signals
  Does,      \* what the program of each task uses, of Feature
  Noise      \* what registers hold once the kernel used them or they lost power

Feature == {"sve", "signal", "sigreturn", "exec", "fork", "set_vl", "exit"}

ASSUME FpsimdAssumption ==
  /\ Zero \in Val /\ Vl \subseteq Nat \ {0} /\ Vl # {}
  /\ CPU # {} /\ None \notin Task \cup CPU /\ Noise \subseteq Val \X Val
  /\ Boot \subseteq Task /\ Tracer \subseteq Task /\ TraceCalls \in BOOLEAN
  /\ Does \in [Task -> SUBSET Feature]

VARIABLES
  cur,           \* the task each CPU runs, None for the idle task
  pc,            \* where each task is
  foreign,       \* TIF_FOREIGN_FPSTATE
  tif_sve,       \* TIF_SVE
  fpsimd_state,  \* thread.uw.fpsimd_state: the V registers in memory
  sve_state,     \* what thread.sve_state points to: the Z registers in memory,
                 \* zeroes if there is no buffer
  sve_buf,       \* the vector length that memory was allocated for, 0: none
  sve_vl,        \* thread.sve_vl
  fpsimd_cpu,    \* thread.fpsimd_cpu
  last_state,    \* fpsimd_last_state of each CPU
  regs,          \* the registers of each CPU
  zcr,           \* the vector length each CPU is set to
  cpacr,         \* whether a CPU lets user mode use SVE
  neon_busy      \* kernel_neon_busy of each CPU

memory == <<fpsimd_state, sve_state, sve_buf, sve_vl>>
flags == <<foreign, tif_sve>>
owner == <<fpsimd_cpu, last_state>>
hw == <<regs, zcr, cpacr>>
vars == <<cur, pc, flags, memory, owner, hw, neon_busy>>

Regs == Val \X Val
Zeroes == <<Zero, Zero>>

(* In the kernel after an interrupt or on the way out, in a system call,   *)
(* inside a routine that changes the state of the registers, stopped by a  *)
(* tracer.                                                                 *)
Sigreturn == {"sigret_flush", "sigret_foreign", "sigret_copy", "sigret_copied", "sigret_fpsimd"}
Stopped == {"stop_call", "stop_signal"}
Kernel ==
  {"kernel", "syscall", "sve_acc", "set_vl", "exec", "frame_sync", "frame"} \cup Sigreturn
Label == {"free", "user", "exiting"} \cup Kernel \cup Stopped

Init ==
  /\ cur = [c \in CPU |-> None]
  /\ pc = [t \in Task |-> IF t \in Boot THEN "kernel" ELSE "free"]
  /\ foreign = [t \in Task |-> TRUE] /\ tif_sve = [t \in Task |-> FALSE]
  /\ fpsimd_state = [t \in Task |-> Zero]
  /\ sve_state = [t \in Task |-> Zeroes] /\ sve_buf = [t \in Task |-> 0]
  /\ sve_vl \in [Task -> Vl]
  /\ fpsimd_cpu = [t \in Task |-> None] /\ last_state = [c \in CPU |-> None]
  /\ regs \in [CPU -> {Zeroes}] /\ zcr \in [CPU -> Vl] /\ cpacr = [c \in CPU |-> FALSE]
  /\ neon_busy = [c \in CPU |-> FALSE]

-----------------------------------------------------------------------------
(* c executes task t at one of the labels ls.                              *)
At(c, t, ls) == cur[c] = t /\ t \in Task /\ pc[t] \in ls /\ ~ neon_busy[c]

Goto(t, l) == pc' = [pc EXCEPT ![t] = l]

NotRunning(t) == \A c \in CPU : cur[c] # t

(* The registers of c are those of its current task.                       *)
LiveOn(c) == cur[c] \in Task /\ ~ foreign[cur[c]]

(* fpsimd_save: the V registers go where last_state points, the Z          *)
(* registers to the current task, which is killed instead if the CPU is    *)
(* set to another vector length.                                           *)
SavedFpsimd(c) ==
  IF LiveOn(c) /\ ~ tif_sve[cur[c]]
  THEN [fpsimd_state EXCEPT ![last_state[c]] = regs[c][1]]
  ELSE fpsimd_state

SavedSve(c) ==
  IF LiveOn(c) /\ tif_sve[cur[c]] /\ zcr[c] = sve_vl[cur[c]]
  THEN [sve_state EXCEPT ![cur[c]] = regs[c]]
  ELSE sve_state

fpsimd_save(c) == fpsimd_state' = SavedFpsimd(c) /\ sve_state' = SavedSve(c)

(* task_fpsimd_load and fpsimd_bind_task_to_cpu, from the memory of t as   *)
(* this step leaves it.                                                    *)
LoadAndBind(c, t) ==
  /\ regs' = [regs EXCEPT ![c] = IF tif_sve'[t] THEN sve_state'[t]
                                                ELSE <<fpsimd_state'[t], Zero>>]
  /\ zcr' = IF tif_sve'[t] THEN [zcr EXCEPT ![c] = sve_vl[t]] ELSE zcr
  /\ last_state' = [last_state EXCEPT ![c] = t]
  /\ fpsimd_cpu' = [fpsimd_cpu EXCEPT ![t] = c]
  /\ cpacr' = [cpacr EXCEPT ![c] = tif_sve'[t]]
  /\ foreign' = [foreign EXCEPT ![t] = FALSE]

(* Mutant: the task is still taken to own the registers of a CPU.          *)
StillOwned(t, cpus) == cpus

(* fpsimd_flush_task_state: wherever the registers of t were loaded, they  *)
(* are not to be used again.                                               *)
fpsimd_flush_task_state(t, cpus) == [cpus EXCEPT ![t] = None]

(* sve_alloc(t) called by task s: clears the buffer, if there is one, for  *)
(* the vector length of s.                                                 *)
sve_alloc(t, s) ==
  IF sve_buf[t] = 0
  THEN [buf |-> sve_vl[t], kept |-> {Zeroes}]
  ELSE [buf |-> sve_buf[t],
        kept |-> IF sve_vl[s] >= sve_vl[t] THEN {Zeroes}
                 ELSE {Zero, sve_state[t][1]} \X {Zero, sve_state[t][2]}]

-----------------------------------------------------------------------------
(* A task in user mode.                                                    *)

(* An FPSIMD instruction: writing a V register clears the rest of its Z.   *)
UserFpsimd(c) ==
  /\ At(c, cur[c], {"user"})
  /\ \E v \in Val : regs' = [regs EXCEPT ![c] = <<v, Zero>>]
  /\ UNCHANGED <<cur, pc, flags, memory, owner, zcr, cpacr, neon_busy>>

(* An SVE instruction that the CPU does not trap.                          *)
UserSve(c) ==
  /\ At(c, cur[c], {"user"}) /\ "sve" \in Does[cur[c]] /\ cpacr[c]
  /\ \E r \in Regs : regs' = [regs EXCEPT ![c] = r]
  /\ UNCHANGED <<cur, pc, flags, memory, owner, zcr, cpacr, neon_busy>>

(* An interrupt or a fault.                                                *)
Interrupt(c) ==
  /\ At(c, cur[c], {"user"})
  /\ Goto(cur[c], "kernel")
  /\ UNCHANGED <<cur, flags, memory, owner, hw, neon_busy>>

(* Mutant: SVE stays allowed, although TIF_SVE is cleared.                 *)
SvcKeepsTrap(c) ==
  /\ At(c, cur[c], {"user"})
  /\ Goto(cur[c], "syscall")
  /\ tif_sve' = [tif_sve EXCEPT ![cur[c]] = FALSE]
  /\ cpacr' = cpacr
  /\ UNCHANGED <<cur, foreign, memory, owner, regs, zcr, neon_busy>>

(* el0_svc_handler: sve_user_discard, with interrupts masked.              *)
Svc(c) ==
  /\ At(c, cur[c], {"user"})
  /\ Goto(cur[c], "syscall")
  /\ tif_sve' = [tif_sve EXCEPT ![cur[c]] = FALSE]
  /\ cpacr' = [cpacr EXCEPT ![c] = FALSE]
  /\ UNCHANGED <<cur, foreign, memory, owner, regs, zcr, neon_busy>>

(* A trapped SVE instruction: do_sve_acc up to sve_alloc.                  *)
SveTrap(c) ==
  LET t == cur[c] IN
  /\ At(c, t, {"user"}) /\ "sve" \in Does[t] /\ ~ cpacr[c]
  /\ Goto(t, "sve_acc")
  /\ sve_buf' = [sve_buf EXCEPT ![t] = sve_alloc(t, t).buf]
  /\ \E r \in sve_alloc(t, t).kept : sve_state' = [sve_state EXCEPT ![t] = r]
  /\ UNCHANGED <<cur, flags, fpsimd_state, sve_vl, owner, hw, neon_busy>>

(* The rest of do_sve_acc: the V registers move to the Z registers in      *)
(* memory, and are loaded from there on the way out.                       *)
do_sve_acc(c) ==
  LET t == cur[c] IN
  /\ At(c, t, {"sve_acc"})
  /\ Goto(t, "kernel")
  /\ fpsimd_state' = SavedFpsimd(c)
  /\ sve_state' = [SavedSve(c) EXCEPT ![t] = <<fpsimd_state'[t], SavedSve(c)[t][2]>>]
  /\ fpsimd_cpu' = fpsimd_flush_task_state(t, fpsimd_cpu)
  /\ foreign' = [foreign EXCEPT ![t] = TRUE]
  /\ tif_sve' = [tif_sve EXCEPT ![t] = TRUE]
  /\ UNCHANGED <<cur, sve_buf, sve_vl, last_state, hw, neon_busy>>

-----------------------------------------------------------------------------
(* The way back to user mode: do_notify_resume and ret_to_user.            *)

(* fpsimd_restore_current_state, with interrupts on.                       *)
RestoreCurrentState(c) ==
  LET t == cur[c] IN
  /\ At(c, t, {"kernel", "syscall"}) /\ foreign[t]
  /\ Goto(t, "kernel")
  /\ UNCHANGED <<tif_sve, memory>>
  /\ LoadAndBind(c, t)
  /\ UNCHANGED <<cur, neon_busy>>

(* With interrupts masked, no flag in _TIF_WORK_MASK is set.               *)
RetToUser(c) ==
  LET t == cur[c] IN
  /\ At(c, t, {"kernel", "syscall"}) /\ ~ foreign[t]
  /\ Goto(t, "user")
  /\ UNCHANGED <<cur, flags, memory, owner, hw, neon_busy>>

(* setup_rt_frame: the registers are brought to memory                     *)
(* (fpsimd_signal_preserve_current_state: fpsimd_preserve_current_state,   *)
(* then sve_to_fpsimd) and copied to the stack from there, which may sleep.*)
SetupFrame(c) ==
  LET t == cur[c] IN
  /\ At(c, t, {"kernel", "syscall"}) /\ "signal" \in Does[t]
  /\ Goto(t, "frame_sync")
  /\ fpsimd_save(c)
  /\ UNCHANGED <<cur, flags, sve_buf, sve_vl, owner, hw, neon_busy>>

(* Mutant: the V registers are not brought up to date in memory.           *)
FrameNotSynced(c) ==
  /\ At(c, cur[c], {"frame_sync"})
  /\ Goto(cur[c], "frame")
  /\ UNCHANGED <<cur, flags, memory, owner, hw, neon_busy>>

FrameSync(c) ==
  LET t == cur[c] IN
  /\ At(c, t, {"frame_sync"})
  /\ Goto(t, "frame")
  /\ fpsimd_state' = IF tif_sve[t] THEN [fpsimd_state EXCEPT ![t] = sve_state[t][1]]
                                   ELSE fpsimd_state
  /\ UNCHANGED <<cur, flags, sve_state, sve_buf, sve_vl, owner, hw, neon_busy>>

FrameDone(c) ==
  /\ At(c, cur[c], {"frame"})
  /\ Goto(cur[c], "kernel")
  /\ UNCHANGED <<cur, flags, memory, owner, hw, neon_busy>>

-----------------------------------------------------------------------------
(* rt_sigreturn, with preemption enabled between the steps.                *)

(* A frame without SVE registers: restore_fpsimd_context, or the           *)
(* fpsimd_only case of restore_sve_fpsimd_context.                         *)
SigreturnFpsimd(c) ==
  LET t == cur[c] IN
  /\ At(c, t, {"syscall"}) /\ "sigreturn" \in Does[t]
  /\ Goto(t, "sigret_fpsimd")
  /\ tif_sve' = [tif_sve EXCEPT ![t] = FALSE]
  /\ UNCHANGED <<cur, foreign, memory, owner, hw, neon_busy>>

(* A frame with SVE registers: restore_sve_fpsimd_context first disowns    *)
(* the registers, so that a switch will not write them over the new ones.  *)
SigreturnFlush(c) ==
  LET t == cur[c] IN
  /\ At(c, t, {"syscall"}) /\ "sigreturn" \in Does[t]
  /\ Goto(t, "sigret_flush")
  /\ fpsimd_cpu' = fpsimd_flush_task_state(t, fpsimd_cpu)
  /\ UNCHANGED <<cur, flags, memory, last_state, hw, neon_busy>>

(* Mutant: the registers still count as those of the task.                 *)
SigreturnKeepsRegisters(c) ==
  /\ At(c, cur[c], {"sigret_flush"})
  /\ Goto(cur[c], "sigret_foreign")
  /\ UNCHANGED <<cur, flags, memory, owner, hw, neon_busy>>

SigreturnForeign(c) ==
  LET t == cur[c] IN
  /\ At(c, t, {"sigret_flush"})
  /\ Goto(t, "sigret_foreign")
  /\ foreign' = [foreign EXCEPT ![t] = TRUE]
  /\ UNCHANGED <<cur, tif_sve, memory, owner, hw, neon_busy>>

SigreturnAlloc(c) ==
  LET t == cur[c] IN
  /\ At(c, t, {"sigret_foreign"})
  /\ Goto(t, "sigret_copy")
  /\ sve_buf' = [sve_buf EXCEPT ![t] = sve_alloc(t, t).buf]
  /\ \E r \in sve_alloc(t, t).kept : sve_state' = [sve_state EXCEPT ![t] = r]
  /\ UNCHANGED <<cur, flags, fpsimd_state, sve_vl, owner, hw, neon_busy>>

(* Copying the Z registers, which may sleep, succeeds or stops half way.   *)
SigreturnCopy(c) ==
  LET t == cur[c] IN
  /\ At(c, t, {"sigret_copy"})
  /\ Goto(t, "sigret_copied") \/ Goto(t, "kernel")
  /\ \E r \in Regs : sve_state' = [sve_state EXCEPT ![t] = r]
  /\ UNCHANGED <<cur, flags, fpsimd_state, sve_buf, sve_vl, owner, hw, neon_busy>>

SigreturnSve(c) ==
  LET t == cur[c] IN
  /\ At(c, t, {"sigret_copied"})
  /\ Goto(t, "sigret_fpsimd")
  /\ tif_sve' = [tif_sve EXCEPT ![t] = TRUE]
  /\ UNCHANGED <<cur, foreign, memory, owner, hw, neon_busy>>

(* fpsimd_update_current_state.                                            *)
SigreturnUpdate(c) ==
  LET t == cur[c] IN
  /\ At(c, t, {"sigret_fpsimd"})
  /\ Goto(t, "kernel")
  /\ \E v \in Val :
       /\ fpsimd_state' = [fpsimd_state EXCEPT ![t] = v]
       /\ sve_state' = IF tif_sve[t] THEN [sve_state EXCEPT ![t] = <<v, sve_state[t][2]>>]
                                     ELSE sve_state
  /\ UNCHANGED <<tif_sve, sve_buf, sve_vl>>
  /\ LoadAndBind(c, t)
  /\ UNCHANGED <<cur, neon_busy>>

(* The V registers in the frame cannot be read.                            *)
SigreturnFault(c) ==
  /\ At(c, cur[c], {"sigret_fpsimd"})
  /\ Goto(cur[c], "kernel")
  /\ UNCHANGED <<cur, flags, memory, owner, hw, neon_busy>>

-----------------------------------------------------------------------------
(* Other system calls.                                                     *)

(* flush_old_exec is about to call flush_thread.                           *)
Exec(c) ==
  /\ At(c, cur[c], {"syscall"}) /\ "exec" \in Does[cur[c]]
  /\ Goto(cur[c], "exec")
  /\ UNCHANGED <<cur, flags, memory, owner, hw, neon_busy>>

(* Mutant: no default when there is no sve_vl_onexec.                      *)
FlushThreadNoDefault(c) ==
  LET t == cur[c] IN
  /\ At(c, t, {"exec"})
  /\ Goto(t, "kernel")
  /\ fpsimd_state' = [fpsimd_state EXCEPT ![t] = Zero]
  /\ fpsimd_cpu' = fpsimd_flush_task_state(t, fpsimd_cpu)
  /\ tif_sve' = [tif_sve EXCEPT ![t] = FALSE]
  /\ sve_buf' = [sve_buf EXCEPT ![t] = 0]
  /\ sve_state' = [sve_state EXCEPT ![t] = Zeroes]
  /\ \E vl \in Vl \cup {0} : sve_vl' = [sve_vl EXCEPT ![t] = vl]
  /\ foreign' = [foreign EXCEPT ![t] = TRUE]
  /\ UNCHANGED <<cur, last_state, hw, neon_busy>>

(* fpsimd_flush_thread; the new vector length is sve_vl_onexec or the      *)
(* default.                                                                *)
FlushThread(c) ==
  LET t == cur[c] IN
  /\ At(c, t, {"exec"})
  /\ Goto(t, "kernel")
  /\ fpsimd_state' = [fpsimd_state EXCEPT ![t] = Zero]
  /\ fpsimd_cpu' = fpsimd_flush_task_state(t, fpsimd_cpu)
  /\ tif_sve' = [tif_sve EXCEPT ![t] = FALSE]
  /\ sve_buf' = [sve_buf EXCEPT ![t] = 0]
  /\ sve_state' = [sve_state EXCEPT ![t] = Zeroes]
  /\ \E vl \in Vl : sve_vl' = [sve_vl EXCEPT ![t] = vl]
  /\ foreign' = [foreign EXCEPT ![t] = TRUE]
  /\ UNCHANGED <<cur, last_state, hw, neon_busy>>

(* arch_dup_task_struct and copy_thread; n may be the task_struct of a     *)
(* task that has exited, with what CPUs still remember of it.              *)
Fork(c, n) ==
  LET t == cur[c] IN
  /\ At(c, t, {"syscall"}) /\ "fork" \in Does[t] /\ pc[n] = "free"
  /\ Goto(n, "kernel")
  /\ fpsimd_state' = [SavedFpsimd(c) EXCEPT ![n] = SavedFpsimd(c)[t]]
  /\ sve_state' = SavedSve(c)
  /\ sve_buf' = [sve_buf EXCEPT ![n] = 0]
  /\ sve_vl' = [sve_vl EXCEPT ![n] = sve_vl[t]]
  /\ foreign' = [foreign EXCEPT ![n] = foreign[t]]
  /\ tif_sve' = [tif_sve EXCEPT ![n] = FALSE]
  /\ fpsimd_cpu' = fpsimd_flush_task_state(n, [fpsimd_cpu EXCEPT ![n] = fpsimd_cpu[t]])
  /\ UNCHANGED <<cur, last_state, hw, neon_busy>>

(* sve_set_vector_length of the current task, while softirqs are disabled: *)
(* what is in the Z registers beyond the V registers is given up.          *)
SetVl(c) ==
  LET t == cur[c] IN
  /\ At(c, t, {"syscall"}) /\ "set_vl" \in Does[t] /\ Vl # {sve_vl[t]}
  /\ Goto(t, "set_vl")
  /\ sve_state' = SavedSve(c)
  /\ fpsimd_state' = IF tif_sve[t]
                     THEN [SavedFpsimd(c) EXCEPT ![t] = sve_state'[t][1]]
                     ELSE SavedFpsimd(c)
  /\ foreign' = [foreign EXCEPT ![t] = TRUE]
  /\ fpsimd_cpu' = fpsimd_flush_task_state(t, fpsimd_cpu)
  /\ tif_sve' = [tif_sve EXCEPT ![t] = FALSE]
  /\ UNCHANGED <<cur, sve_buf, sve_vl, last_state, hw, neon_busy>>

(* The buffer is freed, so that the next use allocates the right size.     *)
SetVlFree(c) ==
  LET t == cur[c] IN
  /\ At(c, t, {"set_vl"})
  /\ Goto(t, "syscall")
  /\ sve_buf' = [sve_buf EXCEPT ![t] = 0]
  /\ sve_state' = [sve_state EXCEPT ![t] = Zeroes]
  /\ \E vl \in Vl \ {sve_vl[t]} : sve_vl' = [sve_vl EXCEPT ![t] = vl]
  /\ UNCHANGED <<cur, flags, fpsimd_state, owner, hw, neon_busy>>

Exit(c) ==
  /\ At(c, cur[c], {"kernel", "syscall"}) /\ "exit" \in Does[cur[c]]
  /\ Goto(cur[c], "exiting")
  /\ UNCHANGED <<cur, flags, memory, owner, hw, neon_busy>>

(* The last put_task_struct: fpsimd_release_task.  What the task_struct    *)
(* holds is lost; what last_state says of it is not.                       *)
Release(t) ==
  /\ pc[t] = "exiting" /\ NotRunning(t)
  /\ Goto(t, "free")
  /\ sve_buf' = [sve_buf EXCEPT ![t] = 0] /\ sve_state' = [sve_state EXCEPT ![t] = Zeroes]
  /\ fpsimd_state' = [fpsimd_state EXCEPT ![t] = Zero]
  /\ foreign' = [foreign EXCEPT ![t] = TRUE] /\ tif_sve' = [tif_sve EXCEPT ![t] = FALSE]
  /\ fpsimd_cpu' = [fpsimd_cpu EXCEPT ![t] = None]
  /\ UNCHANGED <<cur, sve_vl, last_state, hw, neon_busy>>

-----------------------------------------------------------------------------
(* ptrace.                                                                 *)

(* A traced task stops at a system call, or on the way out at a signal.    *)
TraceStop(c) ==
  LET t == cur[c] IN
  /\ Tracer \ {t} # {}
  /\ \/ At(c, t, {"syscall"}) /\ TraceCalls /\ Goto(t, "stop_call")
     \/ At(c, t, {"kernel", "syscall"}) /\ Goto(t, "stop_signal")
  /\ UNCHANGED <<cur, flags, memory, owner, hw, neon_busy>>

TraceCont(t) ==
  /\ \/ pc[t] = "stop_call" /\ Goto(t, "syscall")
     \/ pc[t] = "stop_signal" /\ Goto(t, "kernel")
  /\ UNCHANGED <<cur, flags, memory, owner, hw, neon_busy>>

(* The task on c works on t, which has stopped and left its CPU            *)
(* (ptrace_check_attach).                                                  *)
Traces(c, t) ==
  /\ cur[c] \in Tracer \ {t} /\ At(c, cur[c], {"syscall"})
  /\ pc[t] \in Stopped /\ NotRunning(t)

(* The V registers of t in memory, up to date (sve_sync_to_fpsimd).        *)
Synced(t) == IF tif_sve[t] THEN sve_state[t][1] ELSE fpsimd_state[t]

(* fpr_get, and fpr_set when the new registers cannot be read.             *)
FprGet(c, t) ==
  /\ Traces(c, t)
  /\ fpsimd_state' = [fpsimd_state EXCEPT ![t] = Synced(t)]
  /\ UNCHANGED <<cur, pc, flags, sve_state, sve_buf, sve_vl, owner, hw, neon_busy>>

fpr_set(c, t) ==
  /\ Traces(c, t)
  /\ \E v \in Val :
       /\ fpsimd_state' = [fpsimd_state EXCEPT ![t] = v]
       /\ sve_state' = IF tif_sve[t] THEN [sve_state EXCEPT ![t] = <<v, Zero>>] ELSE sve_state
  /\ fpsimd_cpu' = fpsimd_flush_task_state(t, fpsimd_cpu)
  /\ UNCHANGED <<cur, pc, flags, sve_buf, sve_vl, last_state, hw, neon_busy>>

(* sve_set: the vector length first.  A task whose length changes becomes  *)
(* one without SVE state (sve_set_vector_length); then nothing more, if    *)
(* the length asked for is not available (-EIO) ...                        *)
SveSetVl(c, t) ==
  /\ Traces(c, t)
  /\ \E vl \in Vl \ {sve_vl[t]} : sve_vl' = [sve_vl EXCEPT ![t] = vl]
  /\ fpsimd_state' = [fpsimd_state EXCEPT ![t] = Synced(t)]
  /\ tif_sve' = [tif_sve EXCEPT ![t] = FALSE]
  /\ sve_buf' = [sve_buf EXCEPT ![t] = 0] /\ sve_state' = [sve_state EXCEPT ![t] = Zeroes]
  /\ fpsimd_cpu' = fpsimd_flush_task_state(t, fpsimd_cpu)
  /\ UNCHANGED <<cur, pc, foreign, last_state, hw, neon_busy>>

(* ... or the V registers, and SVE off (SVE_PT_REGS_FPSIMD) ...            *)
SveSetFpsimd(c, t) ==
  /\ Traces(c, t)
  /\ \E vl \in Vl :
       /\ sve_vl' = [sve_vl EXCEPT ![t] = vl]
       /\ sve_buf' = [sve_buf EXCEPT ![t] = IF vl = sve_vl[t] THEN @ ELSE 0]
       /\ sve_state' = [sve_state EXCEPT ![t] = IF vl = sve_vl[t] THEN @ ELSE Zeroes]
  /\ \E v \in Val : fpsimd_state' = [fpsimd_state EXCEPT ![t] = v]
  /\ tif_sve' = [tif_sve EXCEPT ![t] = FALSE]
  /\ fpsimd_cpu' = fpsimd_flush_task_state(t, fpsimd_cpu)
  /\ UNCHANGED <<cur, pc, foreign, last_state, hw, neon_busy>>

(* ... or the Z registers: sve_alloc, fpsimd_sync_to_sve and TIF_SVE, then *)
(* the new registers, if the request holds any.                            *)
SveSetSve(c, t, full) ==
  /\ Traces(c, t)
  /\ \E vl \in Vl :
       LET same == vl = sve_vl[t]
           alloc == IF same THEN sve_alloc(t, cur[c]) ELSE [buf |-> vl, kept |-> {Zeroes}]
       IN /\ sve_vl' = [sve_vl EXCEPT ![t] = vl]
          /\ sve_buf' = [sve_buf EXCEPT ![t] = alloc.buf]
          /\ fpsimd_state' = [fpsimd_state EXCEPT ![t] = IF same THEN @ ELSE Synced(t)]
          /\ \E k \in alloc.kept, r \in Regs :
               sve_state' = [sve_state EXCEPT ![t] =
                               IF full THEN r
                               ELSE IF same /\ tif_sve[t] THEN k
                               ELSE <<Synced(t), k[2]>>]
  /\ tif_sve' = [tif_sve EXCEPT ![t] = TRUE]
  /\ fpsimd_cpu' = fpsimd_flush_task_state(t, fpsimd_cpu)
  /\ UNCHANGED <<cur, pc, foreign, last_state, hw, neon_busy>>

Trace(c, t) ==
  \/ FprGet(c, t) \/ fpr_set(c, t) \/ SveSetVl(c, t) \/ SveSetFpsimd(c, t)
  \/ \E full \in BOOLEAN : SveSetSve(c, t, full)

-----------------------------------------------------------------------------
(* What happens to a CPU.                                                  *)

(* Mutant: only the task is asked where its registers are.                 *)
SwitchTrustsTask(c, n) ==
  /\ ~ neon_busy[c] /\ n # cur[c]
  /\ cur[c] \in Task => pc[cur[c]] # "user"
  /\ n \in Task => pc[n] \in Kernel /\ NotRunning(n)
  /\ cur' = [cur EXCEPT ![c] = n]
  /\ fpsimd_save(c)
  /\ foreign' = IF n \in Task
                THEN [foreign EXCEPT ![n] = fpsimd_cpu[n] # c]
                ELSE foreign
  /\ UNCHANGED <<pc, tif_sve, sve_buf, sve_vl, owner, hw, neon_busy>>

(* Mutant: only the CPU is asked whose registers it has.                   *)
SwitchTrustsCpu(c, n) ==
  /\ ~ neon_busy[c] /\ n # cur[c]
  /\ cur[c] \in Task => pc[cur[c]] # "user"
  /\ n \in Task => pc[n] \in Kernel /\ NotRunning(n)
  /\ cur' = [cur EXCEPT ![c] = n]
  /\ fpsimd_save(c)
  /\ foreign' = IF n \in Task
                THEN [foreign EXCEPT ![n] = last_state[c] # n]
                ELSE foreign
  /\ UNCHANGED <<pc, tif_sve, sve_buf, sve_vl, owner, hw, neon_busy>>

(* fpsimd_thread_switch.  A task that exits or has stopped is not chosen.  *)
Switch(c, n) ==
  /\ ~ neon_busy[c] /\ n # cur[c]
  /\ cur[c] \in Task => pc[cur[c]] # "user"
  /\ n \in Task => pc[n] \in Kernel /\ NotRunning(n)
  /\ cur' = [cur EXCEPT ![c] = n]
  /\ fpsimd_save(c)
  /\ foreign' = IF n \in Task
                THEN [foreign EXCEPT ![n] = last_state[c] # n \/ fpsimd_cpu[n] # c]
                ELSE foreign
  /\ UNCHANGED <<pc, tif_sve, sve_buf, sve_vl, owner, hw, neon_busy>>

(* fpsimd_flush_cpu_state.                                                 *)
FlushCpuState(c) ==
  /\ last_state' = [last_state EXCEPT ![c] = None]
  /\ foreign' = IF cur[c] \in Task THEN [foreign EXCEPT ![cur[c]] = TRUE] ELSE foreign

InKernel(c) == cur[c] \in Task => pc[cur[c]] # "user"

(* Mutant: the registers are taken without being saved.                    *)
NeonBeginUnsaved(c) ==
  /\ InKernel(c) /\ ~ neon_busy[c]
  /\ neon_busy' = [neon_busy EXCEPT ![c] = TRUE]
  /\ UNCHANGED <<fpsimd_state, sve_state>>
  /\ FlushCpuState(c)
  /\ UNCHANGED <<cur, pc, tif_sve, sve_buf, sve_vl, fpsimd_cpu, hw>>

(* The kernel uses the registers, in the task or in a softirq; preemption  *)
(* is off until it is done.                                                *)
kernel_neon_begin(c) ==
  /\ InKernel(c) /\ ~ neon_busy[c]
  /\ neon_busy' = [neon_busy EXCEPT ![c] = TRUE]
  /\ fpsimd_save(c)
  /\ FlushCpuState(c)
  /\ UNCHANGED <<cur, pc, tif_sve, sve_buf, sve_vl, fpsimd_cpu, hw>>

NeonUse(c) ==
  /\ neon_busy[c]
  /\ \E r \in Noise : regs' = [regs EXCEPT ![c] = r]
  /\ UNCHANGED <<cur, pc, flags, memory, owner, zcr, cpacr, neon_busy>>

kernel_neon_end(c) ==
  /\ neon_busy[c]
  /\ neon_busy' = [neon_busy EXCEPT ![c] = FALSE]
  /\ UNCHANGED <<cur, pc, flags, memory, owner, hw>>

(* CPU_PM_ENTER, from the idle task or a task that suspends the system;    *)
(* the registers lose what they hold, CPACR_EL1 is restored.               *)
PmEnter(c) ==
  /\ cur[c] = None \/ At(c, cur[c], {"syscall"})
  /\ ~ neon_busy[c]
  /\ fpsimd_save(c)
  /\ FlushCpuState(c)
  /\ \E r \in Noise : regs' = [regs EXCEPT ![c] = r]
  /\ \E vl \in Vl : zcr' = [zcr EXCEPT ![c] = vl]
  /\ UNCHANGED <<cur, pc, tif_sve, sve_buf, sve_vl, fpsimd_cpu, cpacr, neon_busy>>

(* A CPU goes offline (fpsimd_cpu_dead) and comes back.                    *)
CpuDead(c) ==
  /\ cur[c] = None /\ ~ neon_busy[c]
  /\ last_state' = [last_state EXCEPT ![c] = None]
  /\ \E r \in Noise : regs' = [regs EXCEPT ![c] = r]
  /\ \E vl \in Vl : zcr' = [zcr EXCEPT ![c] = vl]
  /\ cpacr' = [cpacr EXCEPT ![c] = FALSE]
  /\ UNCHANGED <<cur, pc, flags, memory, fpsimd_cpu, neon_busy>>

-----------------------------------------------------------------------------
User(c) ==
  UserFpsimd(c) \/ UserSve(c) \/ Interrupt(c) \/ Svc(c) \/ SveTrap(c)

Call(c) ==
  \/ SigreturnFpsimd(c) \/ SigreturnFlush(c) \/ SigreturnForeign(c)
  \/ SigreturnAlloc(c) \/ SigreturnCopy(c) \/ SigreturnSve(c)
  \/ SigreturnUpdate(c) \/ SigreturnFault(c)
  \/ Exec(c) \/ FlushThread(c) \/ SetVl(c) \/ SetVlFree(c) \/ Exit(c)
  \/ \E n \in Task : Fork(c, n)

Resume(c) ==
  \/ do_sve_acc(c) \/ RestoreCurrentState(c) \/ RetToUser(c)
  \/ SetupFrame(c) \/ FrameSync(c) \/ FrameDone(c)

Cpu(c) ==
  \/ kernel_neon_begin(c) \/ NeonUse(c) \/ kernel_neon_end(c)
  \/ PmEnter(c) \/ CpuDead(c)
  \/ \E n \in Task \cup {None} : Switch(c, n)

Next ==
  \/ \E c \in CPU : \/ User(c) \/ Call(c) \/ Resume(c) \/ Cpu(c) \/ TraceStop(c)
                    \/ \E t \in Task : Trace(c, t)
  \/ \E t \in Task : Release(t) \/ TraceCont(t)

Spec == Init /\ [][Next]_vars

-----------------------------------------------------------------------------
(* Properties.                                                             *)

(* The shape of the state.                                                 *)
TypeOK ==
  /\ cur \in [CPU -> Task \cup {None}] /\ pc \in [Task -> Label]
  /\ foreign \in [Task -> BOOLEAN] /\ tif_sve \in [Task -> BOOLEAN]
  /\ fpsimd_state \in [Task -> Val] /\ sve_state \in [Task -> Regs]
  /\ sve_buf \in [Task -> Vl \cup {0}] /\ sve_vl \in [Task -> Vl]
  /\ fpsimd_cpu \in [Task -> CPU \cup {None}] /\ last_state \in [CPU -> Task \cup {None}]
  /\ regs \in [CPU -> Regs] /\ zcr \in [CPU -> Vl] /\ cpacr \in [CPU -> BOOLEAN]
  /\ neon_busy \in [CPU -> BOOLEAN]

(* What t has in memory, and what t would see in the registers r.          *)
Stored(t) == IF tif_sve[t] THEN sve_state[t] ELSE <<fpsimd_state[t], Zero>>
Seen(t, r) == IF tif_sve[t] THEN r ELSE <<r[1], Zero>>

Exists(t) == pc[t] \notin {"free", "exiting"}

(* The registers of t: on the CPU it runs on if they are there, else in    *)
(* memory.                                                                 *)
View(t) ==
  IF ~ Exists(t) THEN Zeroes
  ELSE IF \E c \in CPU : cur[c] = t /\ ~ foreign[t]
  THEN Seen(t, regs[CHOOSE c \in CPU : cur[c] = t])
  ELSE Stored(t)

Where(t) ==
  CASE ~ Exists(t) -> "none"
    [] pc[t] = "user" -> "user"
    [] pc[t] \in {"kernel", "sve_acc", "frame_sync", "frame"} -> "kernel"
    [] pc[t] \in {"syscall", "set_vl"} -> "call"
    [] OTHER -> "open"

Users == INSTANCE UserRegs WITH view <- [t \in Task |-> View(t)],
                                at <- [t \in Task |-> Where(t)]

(* A task has registers of its own, whatever CPU it runs on and whatever   *)
(* uses the registers meanwhile: lazy restoring in fpsimd.c is not seen.   *)
TasksOwnTheirRegisters == Users!Spec

(* When the registers are those of the current task, a save goes to that   *)
(* task and fits: fpsimd_save uses last_state for the V registers, the     *)
(* buffer of the task for the Z registers, and kills the task if the CPU   *)
(* has another vector length.                                              *)
SavesReachTheTask ==
  \A c \in CPU : LiveOn(c) =>
    /\ last_state[c] = cur[c]
    /\ tif_sve[cur[c]] => zcr[c] = sve_vl[cur[c]] /\ sve_buf[cur[c]] = sve_vl[cur[c]]

(* "SVE access shouldn't have trapped", nor may it be allowed when only    *)
(* the V registers are saved: in user mode the trap follows TIF_SVE.       *)
SveTrapFollowsFlag ==
  \A c \in CPU : cur[c] \in Task /\ pc[cur[c]] = "user" => cpacr[c] = tif_sve[cur[c]]

(* While a signal frame is written from memory, whatever happens to the    *)
(* task's CPU, memory holds the registers of the task.                     *)
FrameHoldsRegisters ==
  \A t \in Task : pc[t] = "frame" =>
    View(t) = <<fpsimd_state[t], IF tif_sve[t] THEN sve_state[t][2] ELSE Zero>>

(* "protection is needed to prevent a racing context switch from writing   *)
(* stale registers back over the new data": from sve_alloc until the       *)
(* registers are loaded, a switch, a softirq or a suspend that finds the   *)
(* task in restore_sve_fpsimd_context leaves its Z registers in memory     *)
(* alone.                                                                  *)
Loading(t) ==
  pc[t] \in {"sigret_copy", "sigret_copied"} \/ (pc[t] = "sigret_fpsimd" /\ tif_sve[t])

NewDataKept ==
  [][\A t \in Task : Loading(t) /\ pc'[t] = pc[t] => sve_state'[t] = sve_state[t]]_vars

(* "so that a short copyin leaves trailing registers unmodified": a        *)
(* request to sve_set without registers leaves the V registers alone.      *)
ShortCopyinKeeps ==
  [][\A c \in CPU, t \in Task : SveSetSve(c, t, FALSE) => View(t)'[1] = View(t)[1]]_vars

(* What the kernel has begun it goes on with.                              *)
FairSpec ==
  Spec /\ \A c \in CPU : WF_vars(kernel_neon_end(c)) /\ WF_vars(RestoreCurrentState(c))
                         /\ WF_vars(RetToUser(c))
=============================================================================
