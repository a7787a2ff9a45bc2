------------------------------ MODULE ExecLevel ------------------------------
(***************************************************************************)
(* At which exception level a task runs: the saved pstate that execve,     *)
(* fork, signals and ptrace write and the exception return loads.          *)
(*                                                                         *)
(* do_execve (fs/exec.c) sets bit 2 of a word on its stack for a file with *)
(* "tmp" after the second character of its name, before anything else of   *)
(* the exec happens.  The word, sp + 0x1C8, is the saved pstate or another *)
(* word, depending on the stack frames of the build and of the caller.     *)
(***************************************************************************)
EXTENDS Naturals

CONSTANTS Task

VARIABLES
  at,           \* what each task is doing
  pstate,       \* the mode bits of the pstate saved in its pt_regs
  mode,         \* the mode bits it executes user code with
  panicked,     \* bad_mode was called
  kept          \* history: the tasks that came back from a failed exec of a
                \* tmp file, and what they forked, up to a successful exec

vars == <<at, pstate, mode, panicked, kept>>

PSR_MODE_EL0t == 0
PSR_MODE_EL1t == 4
PSR_MODE_EL1h == 5
Mode == {PSR_MODE_EL0t, PSR_MODE_EL1t, PSR_MODE_EL1h}

Place == {"none", "user", "kernel", "exec", "exec_tmp", "kthread", "helper_exec"}

user_mode(p) == p % 16 = PSR_MODE_EL0t

Init ==
  /\ at \in [Task -> {"none", "user", "kthread"}]
  /\ pstate = [t \in Task |-> IF at[t] = "kthread" THEN PSR_MODE_EL1h ELSE PSR_MODE_EL0t]
  /\ mode = [t \in Task |-> PSR_MODE_EL0t]
  /\ panicked = FALSE
  /\ kept = {}

Move(t, from, to) ==
  /\ ~ panicked
  /\ at[t] = from
  /\ at' = [at EXCEPT ![t] = to]

(* Mutant: an addition instead of the OR.                                  *)
Or4Adds(p) == p + 4

Or4(p) == IF (p \div 4) % 2 = 1 THEN p ELSE p + 4

(* A native execve of a tmp file.                                          *)
DoExecveTmp(t) ==
  /\ Move(t, "kernel", "exec_tmp") \/ Move(t, "kthread", "helper_exec")
  /\ pstate' \in {pstate, [pstate EXCEPT ![t] = Or4(@)]}
  /\ UNCHANGED <<mode, panicked, kept>>

(* Any other name, execveat, and the compat calls.                         *)
DoExecve(t) ==
  /\ Move(t, "kernel", "exec") \/ Move(t, "kthread", "helper_exec")
  /\ UNCHANGED <<pstate, mode, panicked, kept>>

(* getname failed: do_execve reads the name through the error pointer, and *)
(* the fault in the kernel ends the task.                                  *)
DoExecveBadName(t) ==
  /\ Move(t, "kernel", "none")
  /\ UNCHANGED <<pstate, mode, panicked>>
  /\ kept' = kept \ {t}

(* Mutant: the saved mode is kept.                                         *)
StartThreadKeepsMode(t) == kept' = kept \ {t} /\ UNCHANGED pstate

(* start_thread clears the registers and sets the mode.                    *)
StartThread(t) ==
  /\ pstate' = [pstate EXCEPT ![t] = PSR_MODE_EL0t]
  /\ kept' = kept \ {t}

ExecSucceeds(t) ==
  /\ \E from \in {"exec", "exec_tmp", "helper_exec"} : Move(t, from, "kernel")
  /\ StartThread(t)
  /\ UNCHANGED <<mode, panicked>>

(* __do_execve_file returns an error: the frame stays as it is.            *)
ExecFails(t) ==
  /\ \/ Move(t, "exec", "kernel") /\ UNCHANGED kept
     \/ Move(t, "exec_tmp", "kernel") /\ kept' = kept \cup {t}
  /\ UNCHANGED <<pstate, mode, panicked>>

(* A user mode helper that cannot be executed exits.                       *)
HelperFails(t) ==
  /\ Move(t, "helper_exec", "none")
  /\ UNCHANGED <<pstate, mode, panicked, kept>>

(* copy_thread: the child of a user task starts with a copy of its frame.  *)
CopyThread(t, u) ==
  /\ at[t] = "kernel"
  /\ Move(u, "none", "kernel")
  /\ pstate' = [pstate EXCEPT ![u] = pstate[t]]
  /\ kept' = IF t \in kept THEN kept \cup {u} ELSE kept
  /\ UNCHANGED <<mode, panicked>>

(* A kernel thread has no user registers.                                  *)
CopyKernelThread(u) ==
  /\ Move(u, "none", "kthread")
  /\ pstate' = [pstate EXCEPT ![u] = PSR_MODE_EL1h]
  /\ UNCHANGED <<mode, panicked, kept>>

(* valid_native_regs: what is no valid user pstate becomes one.            *)
ForcedPstate(p) == IF user_mode(p) THEN p ELSE PSR_MODE_EL0t

(* handle_signal, after the signal frame was set up.                       *)
HandleSignal(t) ==
  /\ Move(t, "kernel", "kernel")
  /\ pstate' = [pstate EXCEPT ![t] = ForcedPstate(@)]
  /\ UNCHANGED <<mode, panicked, kept>>

RestoreSigframe(t, p) ==
  /\ Move(t, "kernel", "kernel")
  /\ pstate' = [pstate EXCEPT ![t] = ForcedPstate(p)]
  /\ UNCHANGED <<mode, panicked, kept>>

(* gpr_set refuses an invalid frame.                                       *)
GprSet(t, p) ==
  /\ Move(t, "kernel", "kernel")
  /\ user_mode(p)
  /\ pstate' = [pstate EXCEPT ![t] = p]
  /\ UNCHANGED <<mode, panicked, kept>>

RetToUser(t) ==
  /\ Move(t, "kernel", "user")
  /\ mode' = [mode EXCEPT ![t] = pstate[t]]
  /\ UNCHANGED <<pstate, panicked, kept>>

(* The vectors: kernel_entry 0 saves the frame of an exception from EL0;   *)
(* all four vectors for EL1t lead to bad_mode, which panics.               *)
Exception(t) ==
  /\ mode[t] # PSR_MODE_EL1t
  /\ Move(t, "user", "kernel")
  /\ pstate' = [pstate EXCEPT ![t] = mode[t]]
  /\ UNCHANGED <<mode, panicked, kept>>

BadMode(t) ==
  /\ ~ panicked
  /\ at[t] = "user" /\ mode[t] = PSR_MODE_EL1t
  /\ panicked' = TRUE
  /\ UNCHANGED <<at, pstate, mode, kept>>

Exit(t) ==
  /\ Move(t, "kernel", "none")
  /\ kept' = kept \ {t}
  /\ UNCHANGED <<pstate, mode, panicked>>

Next ==
  \/ \E t \in Task :
       \/ DoExecveTmp(t) \/ DoExecve(t) \/ DoExecveBadName(t)
       \/ ExecSucceeds(t) \/ ExecFails(t) \/ HelperFails(t)
       \/ CopyKernelThread(t) \/ \E u \in Task : CopyThread(t, u)
       \/ HandleSignal(t) \/ \E p \in Mode : RestoreSigframe(t, p) \/ GprSet(t, p)
       \/ RetToUser(t) \/ Exception(t) \/ BadMode(t) \/ Exit(t)

Spec == Init /\ [][Next]_vars

-----------------------------------------------------------------------------
(* The shape of the state.                                                 *)
TypeOK ==
  /\ at \in [Task -> Place]
  /\ pstate \in [Task -> Mode]
  /\ mode \in [Task -> Mode]
  /\ panicked \in BOOLEAN
  /\ kept \subseteq Task

(* Whatever do_execve writes, a program that was executed starts at EL0;   *)
(* user code runs at another level only in a task that came back from an   *)
(* exec of a tmp file that failed, or in its children, and then at EL1t.   *)
LevelFromFailedExec ==
  \A t \in Task :
    at[t] = "user" /\ mode[t] # PSR_MODE_EL0t => t \in kept /\ mode[t] = PSR_MODE_EL1t

(* "bad_mode handles the impossible case in the exception vector": no task *)
(* gets to run user code in a mode whose vectors are the invalid ones.     *)
BadModeImpossible == ~ panicked
=============================================================================
