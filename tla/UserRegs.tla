------------------------------ MODULE UserRegs ------------------------------
(***************************************************************************)
(* What kernel/fpsimd.c promises to user programs: every task has FPSIMD   *)
(* and SVE registers of its own.                                           *)
(*                                                                         *)
(* The registers of a task change by its own instructions in user mode.    *)
(* They survive interrupts, faults, switches, migration and the kernel's   *)
(* own use of the registers.  A system call may give up all but the V      *)
(* registers.  Only an operation whose purpose it is (sigreturn, execve, a *)
(* tracer) replaces them, and a new task gets the V registers of its       *)
(* parent.                                                                 *)
(***************************************************************************)
CONSTANTS Task, Val, Zero

VARIABLES
  view, \* the registers as each task sees them
  at    \* "none", "user", "kernel", "call", or "open": being replaced

uvars == <<view, at>>

Regs == Val \X Val

(* The part of the registers that a system call keeps.                     *)
FpsimdPart(r) == <<r[1], Zero>>

Init ==
  /\ view = [t \in Task |-> <<Zero, Zero>>]
  /\ at \in [Task -> {"none", "kernel"}]

(* The registers and the place of t become r and a, those of others stay.  *)
Becomes(t, r, a) ==
  /\ view' = [view EXCEPT ![t] = r]
  /\ at' = [at EXCEPT ![t] = a]

Compute(t) ==
  at[t] = "user" /\ \E r \in Regs : Becomes(t, r, "user")

Enter(t) ==
  at[t] = "user" /\ Becomes(t, view[t], "kernel")

Return(t) ==
  at[t] \in {"kernel", "call"} /\ \E a \in {"kernel", "user"} : Becomes(t, view[t], a)

SystemCall(t) ==
  at[t] \in {"user", "call"} /\ \E r \in {view[t], FpsimdPart(view[t])} : Becomes(t, r, "call")

Replace(t) ==
  /\ at[t] \in {"kernel", "call", "open"}
  /\ \E r \in Regs : \/ Becomes(t, r, "open")
                     \/ at[t] = "open" /\ \E a \in {"kernel", "call"} : Becomes(t, r, a)

Fork(p, n) ==
  at[p] = "call" /\ at[n] = "none" /\ Becomes(n, FpsimdPart(view[p]), "kernel")

Exit(t) ==
  at[t] \in {"kernel", "call"} /\ Becomes(t, <<Zero, Zero>>, "none")

Next ==
  \E t \in Task :
    \/ Compute(t) \/ Enter(t) \/ Return(t) \/ SystemCall(t) \/ Replace(t) \/ Exit(t)
    \/ \E n \in Task : Fork(t, n)

Spec == Init /\ [][Next]_uvars
=============================================================================
