--------------------------- MODULE ExecLevelProofs ---------------------------
(***************************************************************************)
(* LevelFromFailedExec for any set of tasks.                               *)
(*                                                                         *)
(* Inv follows the mode from the word do_execve writes to the exception    *)
(* return: inside the exec of a tmp file the saved mode may be EL1t; it    *)
(* leaves the exec only in a task of kept.                                 *)
(***************************************************************************)
EXTENDS ExecLevel, TLAPS

(* The mode a task may have once it is out of the exec.                    *)
Fit(t, p) == p = PSR_MODE_EL0t \/ (p = PSR_MODE_EL1t /\ t \in kept)

TaskInv(t) ==
  /\ at[t] = "user" => Fit(t, mode[t])
  /\ at[t] \in {"kernel", "exec"} => Fit(t, pstate[t])
  /\ at[t] = "exec_tmp" => pstate[t] \in {PSR_MODE_EL0t, PSR_MODE_EL1t}

Inv == TypeOK /\ \A t \in Task : TaskInv(t)

(* The OR gives EL1t for both user values, and keeps EL1h.                 *)
LEMMA Or4Modes ==
  ASSUME NEW p \in Mode
  PROVE  Or4(p) \in Mode /\ (p \in {PSR_MODE_EL0t, PSR_MODE_EL1t} => Or4(p) = PSR_MODE_EL1t)
  BY DEF Or4, Mode, PSR_MODE_EL0t, PSR_MODE_EL1t, PSR_MODE_EL1h

(* EL0t is the only mode valid_user_regs accepts.                          *)
LEMMA UserModes ==
  ASSUME NEW p \in Mode
  PROVE  (user_mode(p) => p = PSR_MODE_EL0t) /\ ForcedPstate(p) = PSR_MODE_EL0t
  BY DEF user_mode, ForcedPstate, Mode, PSR_MODE_EL0t, PSR_MODE_EL1t, PSR_MODE_EL1h

LEMMA ModesDiffer ==
  /\ PSR_MODE_EL0t \in Mode /\ PSR_MODE_EL1t \in Mode /\ PSR_MODE_EL1h \in Mode
  /\ PSR_MODE_EL0t # PSR_MODE_EL1t /\ PSR_MODE_EL1t # PSR_MODE_EL1h
  BY DEF Mode, PSR_MODE_EL0t, PSR_MODE_EL1t, PSR_MODE_EL1h

(* A step of one task keeps Inv if that task ends up fit, and nobody else  *)
(* leaves kept.                                                            *)
LEMMA StepKeeps ==
  ASSUME Inv, NEW t \in Task, TypeOK', TaskInv(t)',
         \A u \in Task \ {t} : /\ at'[u] = at[u] /\ pstate'[u] = pstate[u]
                               /\ mode'[u] = mode[u] /\ (u \in kept => u \in kept')
  PROVE  Inv'
  BY DEF Inv, TaskInv, Fit

LEMMA InitHolds == Init => Inv
<1>1. SUFFICES ASSUME Init PROVE Inv
  OBVIOUS
<1>2. TypeOK
  BY <1>1, ModesDiffer DEF Init, TypeOK, Place
<1>3. \A t \in Task : TaskInv(t)
  BY <1>1 DEF Init, TaskInv, Fit
<1>4. QED
  BY <1>2, <1>3 DEF Inv

(* One step of one task; CopyThread is a step of the child.                *)
LEMMA TaskStep ==
  ASSUME Inv, NEW t \in Task,
         \/ DoExecveTmp(t) \/ DoExecve(t) \/ DoExecveBadName(t)
         \/ ExecSucceeds(t) \/ ExecFails(t) \/ HelperFails(t) \/ CopyKernelThread(t)
         \/ HandleSignal(t) \/ (\E p \in Mode : RestoreSigframe(t, p) \/ GprSet(t, p))
         \/ RetToUser(t) \/ Exception(t) \/ BadMode(t) \/ Exit(t)
         \/ \E p \in Task : CopyThread(p, t)
  PROVE  Inv'
<1>1. TypeOK /\ TaskInv(t) /\ pstate[t] \in Mode /\ mode[t] \in Mode
  BY DEF Inv, TypeOK
<1>2. CASE DoExecveTmp(t)
  <2>1. TypeOK'
    BY <1>1, <1>2, Or4Modes DEF DoExecveTmp, Move, TypeOK, Place
  <2>2. TaskInv(t)'
    BY <1>1, <1>2, Or4Modes DEF DoExecveTmp, Move, TypeOK, TaskInv, Fit
  <2>3. QED
    BY <1>2, <2>1, <2>2, StepKeeps DEF DoExecveTmp, Move, Inv, TypeOK
<1>3. CASE DoExecve(t) \/ HelperFails(t) \/ ExecFails(t)
  <2>1. TypeOK'
    BY <1>1, <1>3 DEF DoExecve, HelperFails, ExecFails, Move, TypeOK, Place
  <2>2. TaskInv(t)'
    BY <1>1, <1>3 DEF DoExecve, HelperFails, ExecFails, Move, TypeOK, TaskInv, Fit
  <2>3. QED
    BY <1>3, <2>1, <2>2, StepKeeps DEF DoExecve, HelperFails, ExecFails, Move, Inv, TypeOK
<1>4. CASE DoExecveBadName(t) \/ Exit(t)
  <2>1. TypeOK'
    BY <1>1, <1>4 DEF DoExecveBadName, Exit, Move, TypeOK, Place
  <2>2. TaskInv(t)'
    BY <1>1, <1>4 DEF DoExecveBadName, Exit, Move, TypeOK, TaskInv
  <2>3. QED
    BY <1>4, <2>1, <2>2, StepKeeps DEF DoExecveBadName, Exit, Move, Inv, TypeOK
<1>5. CASE ExecSucceeds(t) \/ CopyKernelThread(t)
  <2>1. TypeOK'
    BY <1>1, <1>5, ModesDiffer
    DEF ExecSucceeds, StartThread, CopyKernelThread, Move, TypeOK, Place
  <2>2. TaskInv(t)'
    BY <1>1, <1>5 DEF ExecSucceeds, StartThread, CopyKernelThread, Move, TypeOK, TaskInv, Fit
  <2>3. QED
    BY <1>5, <2>1, <2>2, StepKeeps
    DEF ExecSucceeds, StartThread, CopyKernelThread, Move, Inv, TypeOK
<1>6. CASE HandleSignal(t) \/ (\E p \in Mode : RestoreSigframe(t, p) \/ GprSet(t, p))
  <2>1. /\ Move(t, "kernel", "kernel") /\ pstate' = [pstate EXCEPT ![t] = PSR_MODE_EL0t]
        /\ UNCHANGED <<mode, panicked, kept>>
    BY <1>1, <1>6, UserModes DEF HandleSignal, RestoreSigframe, GprSet, TypeOK
  <2>2. TypeOK'
    BY <1>1, <2>1, ModesDiffer DEF Move, TypeOK, Place
  <2>3. TaskInv(t)'
    BY <1>1, <2>1 DEF Move, TypeOK, TaskInv, Fit
  <2>4. QED
    BY <2>1, <2>2, <2>3, StepKeeps DEF Move, Inv, TypeOK
<1>7. CASE RetToUser(t) \/ Exception(t)
  <2>1. TypeOK'
    BY <1>1, <1>7 DEF RetToUser, Exception, Move, TypeOK, Place
  <2>2. TaskInv(t)'
    BY <1>1, <1>7 DEF RetToUser, Exception, Move, TypeOK, TaskInv, Fit
  <2>3. QED
    BY <1>7, <2>1, <2>2, StepKeeps DEF RetToUser, Exception, Move, Inv, TypeOK
<1>8. CASE BadMode(t)
  BY <1>1, <1>8 DEF BadMode, Inv, TypeOK, TaskInv, Fit
<1>9. CASE \E p \in Task : CopyThread(p, t)
  <2>1. PICK p \in Task : CopyThread(p, t)
    BY <1>9
  <2>2. TypeOK' /\ pstate[p] \in Mode /\ TaskInv(p)
    BY <1>1, <2>1 DEF CopyThread, Move, Inv, TypeOK, Place
  <2>3. TaskInv(t)'
    BY <1>1, <2>1, <2>2 DEF CopyThread, Move, TypeOK, TaskInv, Fit
  <2>4. QED
    BY <2>1, <2>2, <2>3, StepKeeps DEF CopyThread, Move, Inv, TypeOK
<1>10. QED
  BY <1>2, <1>3, <1>4, <1>5, <1>6, <1>7, <1>8, <1>9

LEMMA NextKeeps == Inv /\ [Next]_vars => Inv'
<1>1. SUFFICES ASSUME Inv, [Next]_vars PROVE Inv'
  OBVIOUS
<1>2. CASE UNCHANGED vars
  BY <1>1, <1>2 DEF vars, Inv, TypeOK, TaskInv, Fit
<1>3. CASE Next
  BY <1>1, <1>3, TaskStep DEF Next
<1>4. QED
  BY <1>1, <1>2, <1>3

(* Whatever word do_execve writes, the saved and the running mode of every *)
(* task are one of EL0t, EL1t and EL1h: the OR makes no other.             *)
THEOREM LevelTypeCorrect == Spec => []TypeOK
<1>1. Inv => TypeOK
  BY DEF Inv
<1>2. QED
  BY <1>1, InitHolds, NextKeeps, PTL DEF Spec

(* Whatever word do_execve writes, user code runs at EL1t only in a task   *)
(* that came back from a failed exec of a tmp file, or in a descendant,    *)
(* and at EL1h in none.                                                    *)
THEOREM LevelAlwaysFromFailedExec == Spec => []LevelFromFailedExec
<1>1. Inv => LevelFromFailedExec
  BY DEF Inv, TaskInv, Fit, LevelFromFailedExec
<1>2. QED
  BY <1>1, InitHolds, NextKeeps, PTL DEF Spec
=============================================================================
