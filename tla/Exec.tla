-------------------------------- MODULE Exec --------------------------------
(***************************************************************************)
(* execve as fs/exec.c runs it: the threads of one process, any of which   *)
(* may call it, and another process that may share their fs_struct.        *)
(*                                                                         *)
(* The credentials are guarded by signal->cred_guard_mutex, the sharing of *)
(* the fs_struct is frozen by fs->in_exec, and de_thread waits for all     *)
(* other threads through signal->group_exit_task and notify_count.  A      *)
(* thread that dumps core (fs/coredump.c) uses group_exit_task as well,    *)
(* and stops its whole group, or every process that shares the mm.         *)
(* Signals, clone and exit are kernel/ code outside this tree: they are    *)
(* modelled by what fs/exec.c and fs/coredump.c rely on.                   *)
(***************************************************************************)
EXTENDS Integers, FiniteSets

CONSTANTS
  Thread,         \* the task_structs of the thread group
  NoThread        \* a null task pointer

ASSUME ThreadAssumption == IsFiniteSet(Thread) /\ NoThread \notin Thread

VARIABLES
  pc,               \* where each thread is; "user" outside execve
  leader,           \* group_leader
  cred_guard_mutex, \* the thread holding it
  group_exit_task,
  notify_count,
  group_exit,       \* signal->flags has SIGNAL_GROUP_EXIT
  fatal,            \* the threads with SIGKILL (or a forced SIGSEGV) pending
                    \* that have not begun to exit
  woken,            \* the threads that wake_up_process reached in their sleep
  core_state,       \* mm->core_state: the mm of the group is being dumped
  sighand_shared,   \* a task outside the group shares the sighand_struct
  in_exec,          \* fs->in_exec
  fs_sharer,        \* the process outside the group that shares fs
  in_execve,        \* the threads with current->in_execve
  bprm,             \* what each thread's linux_binprm owns
  displaced,        \* the threads whose files_struct was unshared
  no_return         \* history: the threads that have called flush_old_exec,
                    \* until their exec succeeds or another one starts

groupVars == <<leader, group_exit_task, notify_count>>
signalVars == <<group_exit, fatal, woken, core_state>>
fsVars == <<in_exec, fs_sharer, in_execve>>
bprmVars == <<cred_guard_mutex, bprm, displaced, no_return>>
vars == <<pc, groupVars, signalVars, sighand_shared, fsVars, bprmVars>>

(* bprm->cred, bprm->mm, and the LSM_UNSAFE_SHARE bit of bprm->unsafe.     *)
Bprm == [cred : BOOLEAN, mm : BOOLEAN, unsafe_share : BOOLEAN]
NoBprm == [cred |-> FALSE, mm |-> FALSE, unsafe_share |-> FALSE]

Exited    == {"zombie", "gone"}
DeThreads == {"wait_threads", "sleep_threads", "wait_leader", "sleep_leader"}
Marked    == {"prepare", "load_binary", "no_thread_group", "exec_mmap",
              "setup_new_exec", "start_thread", "out_unmark"} \cup DeThreads
Label     == {"user", "prepare_creds", "check_unsafe", "out_free", "coredump", "exiting"}
               \cup Exited \cup Marked

Live      == {t \in Thread : pc[t] \notin Exited}

(* The threads with an mm: do_exit lets go of it before the thread is gone.*)
WithMm    == {t \in Live : pc[t] # "exiting"}
Others(t) == {u \in Thread \ {t} : pc[u] # "gone"}

Init ==
  /\ pc \in [Thread -> {"user", "gone"}]
  /\ leader \in Live
  /\ cred_guard_mutex = NoThread
  /\ group_exit_task = NoThread
  /\ notify_count = 0
  /\ group_exit = FALSE
  /\ fatal = {}
  /\ woken = {}
  /\ core_state = FALSE
  /\ sighand_shared \in BOOLEAN
  /\ in_exec = FALSE
  /\ fs_sharer \in {"none", "user"}
  /\ in_execve = {}
  /\ bprm = [t \in Thread |-> NoBprm]
  /\ displaced = {}
  /\ no_return = {}

Goto(t, from, to) ==
  /\ pc[t] = from
  /\ pc' = [pc EXCEPT ![t] = to]

-----------------------------------------------------------------------------
(* __do_execve_file up to the binary handler.                              *)

(* unshare_files copies the table only if somebody else uses it.  The      *)
(* failures before this point leave no trace and are not steps.            *)
Execve(t) ==
  /\ Goto(t, "user", "prepare_creds")
  /\ t \notin fatal
  /\ displaced' = IF Live = {t} THEN displaced ELSE displaced \cup {t}
  /\ no_return' = no_return \ {t}
  /\ UNCHANGED <<groupVars, signalVars, sighand_shared, fsVars, cred_guard_mutex, bprm>>

PrepareBprmCreds(t) ==
  /\ Goto(t, "prepare_creds", "check_unsafe")
  /\ cred_guard_mutex = NoThread
  /\ cred_guard_mutex' = t
  /\ bprm' = [bprm EXCEPT ![t].cred = TRUE]
  /\ UNCHANGED <<groupVars, signalVars, sighand_shared, fsVars, displaced, no_return>>

(* Mutant: goto out_unmark.                                                *)
PrepareBprmCredsFailsUnmarks(t) ==
  /\ Goto(t, "prepare_creds", "out_unmark")
  /\ UNCHANGED <<groupVars, signalVars, sighand_shared, fsVars, bprmVars>>

(* mutex_lock_interruptible was interrupted by some signal, or the mutex   *)
(* was taken and released because there was no memory for the credentials. *)
PrepareBprmCredsFails(t) ==
  /\ Goto(t, "prepare_creds", "out_free")
  /\ UNCHANGED <<groupVars, signalVars, sighand_shared, fsVars, bprmVars>>

(* p->fs->users, and how many of them are threads of this group.           *)
FsUsers == Cardinality(Live) + (IF fs_sharer = "none" THEN 0 ELSE 1)
NFs     == Cardinality(Live)

(* check_unsafe_exec, under fs->lock.                                      *)
CheckUnsafeExec(t) ==
  /\ Goto(t, "check_unsafe", "prepare")
  /\ IF FsUsers > NFs
     THEN bprm' = [bprm EXCEPT ![t].unsafe_share = TRUE] /\ UNCHANGED in_exec
     ELSE in_exec' = TRUE /\ UNCHANGED bprm
  /\ in_execve' = in_execve \cup {t}
  /\ UNCHANGED <<groupVars, signalVars, sighand_shared, fs_sharer, cred_guard_mutex,
                 displaced, no_return>>

(* The file is opened, bprm_mm_init makes an mm, the strings are copied.   *)
Prepare(t) ==
  /\ Goto(t, "prepare", "load_binary")
  /\ bprm' = [bprm EXCEPT ![t].mm = TRUE]
  /\ UNCHANGED <<groupVars, signalVars, sighand_shared, fsVars, cred_guard_mutex,
                 displaced, no_return>>

(* search_binary_handler raises a SEGV if load_binary failed with bprm->mm *)
(* already given to the task; the label out drops an mm still owned.       *)
HandlerFails(t, from) ==
  /\ Goto(t, from, "out_unmark")
  /\ fatal' = IF bprm[t].mm THEN fatal ELSE fatal \cup {t}
  /\ bprm' = [bprm EXCEPT ![t].mm = FALSE]

(* No file, no mm, or bad strings: no handler was called.                  *)
PrepareFails(t) ==
  /\ Goto(t, "prepare", "out_unmark")
  /\ UNCHANGED <<groupVars, signalVars, sighand_shared, fsVars, bprmVars>>

(* No handler recognises the image, or one refuses it.                     *)
LoadBinaryFails(t) ==
  /\ HandlerFails(t, "load_binary")
  /\ UNCHANGED <<groupVars, group_exit, woken, core_state, sighand_shared, fsVars,
                 cred_guard_mutex, displaced, no_return>>

-----------------------------------------------------------------------------
(* de_thread, the first half of flush_old_exec.                            *)

FlushOldExec(t) ==
  /\ pc[t] = "load_binary"
  /\ no_return' = no_return \cup {t}
  /\ UNCHANGED <<leader, group_exit, core_state, sighand_shared, fsVars, cred_guard_mutex,
                 displaced>>

(* thread_group_empty: nobody to wait for.                                 *)
DeThreadAlone(t) ==
  /\ FlushOldExec(t)
  /\ Others(t) = {}
  /\ Goto(t, "load_binary", "no_thread_group")
  /\ UNCHANGED <<group_exit_task, notify_count, fatal, woken, bprm>>

(* signal_group_exit: another group action is in progress.                 *)
DeThreadBusy(t) ==
  /\ FlushOldExec(t)
  /\ Others(t) # {}
  /\ group_exit \/ group_exit_task # NoThread
  /\ HandlerFails(t, "load_binary")
  /\ UNCHANGED <<group_exit_task, notify_count, woken>>

(* Mutant: one thread too few whoever calls.                               *)
NotifyCountOneLess(t) == Cardinality(Others(t)) - 1

(* zap_other_threads counts every other thread; a thread that is not the   *)
(* leader does not wait for the leader here.                               *)
NotifyCount(t) == Cardinality(Others(t)) - (IF t = leader THEN 0 ELSE 1)

DeThreadZap(t) ==
  /\ FlushOldExec(t)
  /\ Others(t) # {}
  /\ ~ group_exit /\ group_exit_task = NoThread
  /\ Goto(t, "load_binary", "wait_threads")
  /\ group_exit_task' = t
  /\ notify_count' = NotifyCount(t)
  /\ fatal' = fatal \cup (Others(t) \cap WithMm)
  /\ UNCHANGED <<woken, bprm>>

(* A thread sets its state before it lets go of the lock: a wake-up that   *)
(* follows its look at the condition finds it asleep.                      *)
Sleep(t, from, to) == Goto(t, from, to) /\ UNCHANGED woken
Asleep == {t \in Thread : pc[t] \in {"sleep_threads", "sleep_leader"}}

(* Mutant: the count is not reset.                                         *)
GroupExitKeepsCount ==
  /\ group_exit_task' = NoThread
  /\ UNCHANGED notify_count

GroupExitDone ==
  /\ group_exit_task' = NoThread
  /\ notify_count' = 0

WaitThreads(t) ==
  /\ pc[t] = "wait_threads"
  /\ \/ /\ notify_count # 0
        /\ Sleep(t, "wait_threads", "sleep_threads")
        /\ UNCHANGED <<group_exit_task, notify_count>>
     \/ /\ notify_count = 0 /\ t # leader
        /\ Goto(t, "wait_threads", "wait_leader")
        /\ UNCHANGED <<group_exit_task, notify_count, woken>>
     \/ /\ notify_count = 0 /\ t = leader
        /\ Goto(t, "wait_threads", "no_thread_group")
        /\ GroupExitDone
        /\ UNCHANGED woken
  /\ UNCHANGED <<leader, group_exit, fatal, core_state, sighand_shared, fsVars, bprmVars>>

(* Mutant: the leader is not asked to report its exit.                     *)
LeaderStillRunningUntold(t) ==
  /\ pc[leader] # "zombie"
  /\ Sleep(t, "wait_leader", "sleep_leader")
  /\ UNCHANGED <<leader, group_exit_task, notify_count>>

(* notify_count = -1 tells exit_notify to wake the group_exit_task.        *)
LeaderStillRunning(t) ==
  /\ pc[leader] # "zombie"
  /\ Sleep(t, "wait_leader", "sleep_leader")
  /\ notify_count' = -1
  /\ UNCHANGED <<leader, group_exit_task>>

(* The thread takes over the identity of the leader and releases it.       *)
BecomeLeader(t) ==
  /\ pc[t] = "wait_leader" /\ pc[leader] = "zombie"
  /\ pc' = [pc EXCEPT ![t] = "no_thread_group", ![leader] = "gone"]
  /\ leader' = t
  /\ GroupExitDone
  /\ UNCHANGED woken

WaitLeader(t) ==
  /\ pc[t] = "wait_leader"
  /\ LeaderStillRunning(t) \/ BecomeLeader(t)
  /\ UNCHANGED <<group_exit, fatal, core_state, sighand_shared, fsVars, bprmVars>>

(* schedule() returns: back to the loop, unless the thread was killed.     *)
WakeUp(t) ==
  /\ t \in woken
  /\ t \notin fatal
  /\ Goto(t, "sleep_threads", "wait_threads") \/ Goto(t, "sleep_leader", "wait_leader")
  /\ woken' = woken \ {t}
  /\ UNCHANGED <<groupVars, group_exit, fatal, core_state, sighand_shared, fsVars, bprmVars>>

(* Mutant: the label killed leaves group_exit_task behind.                 *)
KilledForgets(t) ==
  /\ t \in fatal
  /\ HandlerFails(t, "sleep_threads") \/ HandlerFails(t, "sleep_leader")
  /\ woken' = woken \ {t}
  /\ UNCHANGED <<groupVars, group_exit, core_state, sighand_shared, fsVars,
                 cred_guard_mutex, displaced, no_return>>

(* A fatal signal ends the sleep, or does not let schedule() begin it.     *)
Killed(t) ==
  /\ t \in fatal
  /\ HandlerFails(t, "sleep_threads") \/ HandlerFails(t, "sleep_leader")
  /\ GroupExitDone
  /\ woken' = woken \ {t}
  /\ UNCHANGED <<leader, group_exit, core_state, sighand_shared, fsVars,
                 cred_guard_mutex, displaced, no_return>>

-----------------------------------------------------------------------------
(* From the end of de_thread to the new program.                           *)

(* A sighand_struct shared with a task outside the group is replaced.      *)
NoThreadGroup(t) ==
  /\ Goto(t, "no_thread_group", "exec_mmap")
  /\ sighand_shared' = FALSE
  /\ UNCHANGED <<groupVars, signalVars, fsVars, bprmVars>>

NoSighandMemory(t) ==
  /\ sighand_shared
  /\ HandlerFails(t, "no_thread_group")
  /\ UNCHANGED <<groupVars, group_exit, woken, core_state, sighand_shared, fsVars,
                 cred_guard_mutex, displaced, no_return>>

(* Mutant: bprm->mm is not cleared.                                        *)
ExecMmapKeepsMm(t) ==
  /\ Goto(t, "exec_mmap", "setup_new_exec")
  /\ ~ core_state
  /\ UNCHANGED <<groupVars, signalVars, sighand_shared, fsVars, bprmVars>>

(* The task runs on the new mm from here on.                               *)
ExecMmap(t) ==
  /\ Goto(t, "exec_mmap", "setup_new_exec")
  /\ ~ core_state
  /\ bprm' = [bprm EXCEPT ![t].mm = FALSE]
  /\ UNCHANGED <<groupVars, signalVars, sighand_shared, fsVars, cred_guard_mutex,
                 displaced, no_return>>

ExecMmapInterrupted(t) ==
  /\ core_state
  /\ HandlerFails(t, "exec_mmap")
  /\ UNCHANGED <<groupVars, group_exit, woken, core_state, sighand_shared, fsVars,
                 cred_guard_mutex, displaced, no_return>>

(* Mutant: bprm->cred is not cleared.                                      *)
InstallExecCredsKept(t) ==
  /\ Goto(t, "setup_new_exec", "start_thread")
  /\ cred_guard_mutex' = NoThread
  /\ UNCHANGED <<groupVars, signalVars, sighand_shared, fsVars, bprm, displaced, no_return>>

InstallExecCreds(t) ==
  /\ Goto(t, "setup_new_exec", "start_thread")
  /\ bprm' = [bprm EXCEPT ![t].cred = FALSE]
  /\ cred_guard_mutex' = NoThread
  /\ UNCHANGED <<groupVars, signalVars, sighand_shared, fsVars, displaced, no_return>>

(* The image cannot be mapped.  The ELF handler installs the credentials   *)
(* first; binfmt_elf_fdpic, binfmt_flat and binfmt_aout can fail before.   *)
LateFailure(t) ==
  /\ HandlerFails(t, "setup_new_exec") \/ HandlerFails(t, "start_thread")
  /\ UNCHANGED <<groupVars, group_exit, woken, core_state, sighand_shared, fsVars,
                 cred_guard_mutex, displaced, no_return>>

(* free_bprm: a cred still owned means that the mutex is still held.       *)
FreeBprm(t) ==
  /\ bprm' = [bprm EXCEPT ![t] = NoBprm]
  /\ cred_guard_mutex' = IF bprm[t].cred THEN NoThread ELSE cred_guard_mutex
  /\ displaced' = displaced \ {t}

(* execve succeeded.                                                       *)
Succeed(t) ==
  /\ Goto(t, "start_thread", "user")
  /\ in_exec' = FALSE
  /\ in_execve' = in_execve \ {t}
  /\ FreeBprm(t)
  /\ no_return' = no_return \ {t}
  /\ UNCHANGED <<groupVars, signalVars, sighand_shared, fs_sharer>>

OutUnmark(t) ==
  /\ Goto(t, "out_unmark", "out_free")
  /\ in_exec' = FALSE
  /\ in_execve' = in_execve \ {t}
  /\ UNCHANGED <<groupVars, signalVars, sighand_shared, fs_sharer, bprmVars>>

OutFree(t) ==
  /\ Goto(t, "out_free", "user")
  /\ FreeBprm(t)
  /\ UNCHANGED <<groupVars, signalVars, sighand_shared, fsVars, no_return>>

-----------------------------------------------------------------------------
(* Core dumps.                                                             *)

(* zap_process: SIGKILL for the threads given, of those with an mm.        *)
ZapProcess(threads) == fatal' = fatal \cup (threads \cap WithMm)

(* coredump_wait and zap_threads: a signal makes d dump core, unless there *)
(* is a dump already or signal_group_exit.  SIGNAL_GROUP_EXIT is not set.  *)
CoreDump(d) ==
  /\ Goto(d, "user", "coredump")
  /\ ~ core_state
  /\ ~ group_exit /\ group_exit_task = NoThread
  /\ core_state' = TRUE
  /\ group_exit_task' = d
  /\ ZapProcess(Thread \ {d})
  /\ UNCHANGED <<leader, notify_count, group_exit, woken, sighand_shared, fsVars, bprmVars>>

(* Every other thread that has the mm is on its way out, in exit_mm.       *)
AllStopped(d) == \A t \in WithMm \ {d} : pc[t] = "user"

(* coredump_finish, after which d exits as everybody else.                 *)
CoreDumpDone(d) ==
  /\ Goto(d, "coredump", "user")
  /\ AllStopped(d)
  /\ core_state' = FALSE
  /\ group_exit_task' = NoThread
  /\ group_exit' = TRUE
  /\ fatal' = fatal \cup {d}
  /\ UNCHANGED <<leader, notify_count, woken, sighand_shared, fsVars, bprmVars>>

(* The loop of zap_threads over the other processes, run by one that has   *)
(* the same mm as this group; it does not look at signal_group_exit.       *)
SharerDumps ==
  /\ ~ core_state
  /\ WithMm # {}
  /\ \A t \in Thread : pc[t] \notin {"setup_new_exec", "start_thread"}
  /\ core_state' = TRUE
  /\ group_exit' = TRUE
  /\ ZapProcess(Thread)
  /\ UNCHANGED <<pc, groupVars, woken, sighand_shared, fsVars, bprmVars>>

SharerDumpDone ==
  /\ core_state
  /\ \A t \in Thread : pc[t] # "coredump"
  /\ AllStopped(NoThread)
  /\ core_state' = FALSE
  /\ UNCHANGED <<pc, groupVars, group_exit, fatal, woken, sighand_shared, fsVars, bprmVars>>

-----------------------------------------------------------------------------
(* What fs/exec.c and fs/coredump.c rely on outside this tree.             *)

(* do_exit up to exit_mm, which waits for the end of a dump.               *)
ExitMm(t) ==
  /\ Goto(t, "user", "exiting")
  /\ ~ core_state
  /\ fatal' = fatal \ {t}
  /\ no_return' = no_return \ {t}
  /\ UNCHANGED <<groupVars, group_exit, woken, core_state, sighand_shared, fsVars,
                 cred_guard_mutex, bprm, displaced>>

(* The rest of do_exit.  A thread other than the leader is released at     *)
(* once and counts down notify_count; the leader stays a zombie while      *)
(* there are others.                                                       *)
Exit(t) ==
  /\ Goto(t, "exiting", IF t = leader THEN "zombie" ELSE "gone")
  /\ notify_count' = IF t # leader /\ notify_count > 0 THEN notify_count - 1 ELSE notify_count
  /\ woken' = IF \/ t # leader /\ notify_count = 1
                 \/ t = leader /\ notify_count < 0
              THEN woken \cup ({group_exit_task} \cap Asleep) ELSE woken
  /\ UNCHANGED <<leader, group_exit_task, group_exit, fatal, core_state, sighand_shared,
                 fsVars, bprmVars>>

(* complete_signal: a fatal signal for the whole group.                    *)
KillGroup ==
  /\ ~ group_exit
  /\ group_exit' = TRUE
  /\ fatal' = fatal \cup WithMm
  /\ UNCHANGED <<pc, groupVars, woken, core_state, sighand_shared, fsVars, bprmVars>>

MayClone(t) == pc[t] = "user" /\ t \notin fatal

(* clone with CLONE_THREAD and CLONE_FS: copy_fs refuses during an exec.   *)
CloneThread(t, u) ==
  /\ MayClone(t)
  /\ ~ in_exec
  /\ Goto(u, "gone", "user")
  /\ UNCHANGED <<groupVars, signalVars, sighand_shared, fsVars, bprmVars>>

(* clone of another process with CLONE_FS.                                 *)
CloneProcess(t) ==
  /\ MayClone(t)
  /\ ~ in_exec /\ fs_sharer = "none"
  /\ fs_sharer' = "user"
  /\ UNCHANGED <<pc, groupVars, signalVars, sighand_shared, in_exec, in_execve, bprmVars>>

SharerVars == <<pc, groupVars, signalVars, sighand_shared, in_execve, bprmVars>>

SharerLeaves ==
  /\ fs_sharer = "user"
  /\ fs_sharer' = "none"
  /\ UNCHANGED <<in_exec, SharerVars>>

(* The other process calls execve, and its check_unsafe_exec finds that fs *)
(* is shared; it ends by clearing in_exec all the same.                    *)
SharerExec ==
  /\ fs_sharer = "user" /\ Live # {}
  /\ fs_sharer' = "exec"
  /\ UNCHANGED <<in_exec, SharerVars>>

SharerExecEnds ==
  /\ fs_sharer = "exec"
  /\ fs_sharer' = "user"
  /\ in_exec' = FALSE
  /\ UNCHANGED SharerVars

-----------------------------------------------------------------------------
(* The steps a thread takes by itself once it has called execve, and the   *)
(* end of its core dump.                                                   *)
Proceed(t) ==
  \/ PrepareBprmCreds(t) \/ CheckUnsafeExec(t)
  \/ Prepare(t) \/ PrepareFails(t) \/ LoadBinaryFails(t)
  \/ DeThreadAlone(t) \/ DeThreadBusy(t) \/ DeThreadZap(t)
  \/ WaitThreads(t) \/ WaitLeader(t) \/ WakeUp(t) \/ Killed(t)
  \/ NoThreadGroup(t) \/ NoSighandMemory(t) \/ ExecMmap(t) \/ ExecMmapInterrupted(t)
  \/ InstallExecCreds(t) \/ LateFailure(t) \/ Succeed(t)
  \/ OutUnmark(t) \/ OutFree(t) \/ CoreDumpDone(t)

Next ==
  \/ \E t \in Thread : Execve(t) \/ PrepareBprmCredsFails(t) \/ Proceed(t) \/ CoreDump(t)
  \/ \E t \in Thread : ExitMm(t) \/ Exit(t) \/ CloneProcess(t)
  \/ \E t, u \in Thread : CloneThread(t, u)
  \/ KillGroup \/ SharerDumps \/ SharerDumpDone
  \/ SharerLeaves \/ SharerExec \/ SharerExecEnds

Spec == Init /\ [][Next]_vars

(* What prepare_bprm_creds does in the end to a thread that waits for the  *)
(* mutex; a signal that is not fatal need not come.                        *)
MutexWaitEnds(t) ==
  \/ PrepareBprmCreds(t)
  \/ (t \in fatal \/ cred_guard_mutex = NoThread) /\ PrepareBprmCredsFails(t)

(* A thread in the kernel keeps going, a killed thread exits when it gets  *)
(* back to user mode, a dump ends once everybody has stopped for it, and a *)
(* mutex hands itself to its waiters in turn.                              *)
FairSpec ==
  /\ Spec
  /\ WF_vars(SharerDumpDone)
  /\ \A t \in Thread : /\ WF_vars(Proceed(t)) /\ WF_vars(Exit(t))
                       /\ WF_vars(t \in fatal /\ ExitMm(t))
                       /\ SF_vars(MutexWaitEnds(t))

-----------------------------------------------------------------------------
(* Properties.                                                             *)

(* The shape of the state; a count is left only to a waiting de_thread.    *)
TypeOK ==
  /\ pc \in [Thread -> Label]
  /\ leader \in Thread
  /\ cred_guard_mutex \in Thread \cup {NoThread}
  /\ group_exit_task \in Thread \cup {NoThread}
  /\ notify_count \in -1 .. Cardinality(Thread)
  /\ group_exit_task = NoThread => notify_count = 0
  /\ group_exit \in BOOLEAN /\ core_state \in BOOLEAN
  /\ fatal \subseteq WithMm /\ woken \subseteq Asleep
  /\ sighand_shared \in BOOLEAN
  /\ in_exec \in BOOLEAN
  /\ fs_sharer \in {"none", "user", "exec"}
  /\ in_execve = {t \in Thread : pc[t] \in Marked}
  /\ bprm \in [Thread -> Bprm]
  /\ displaced \subseteq WithMm /\ no_return \subseteq WithMm

(* cred_guard_mutex is held by exactly the thread whose bprm owns prepared *)
(* credentials, so that install_exec_creds and free_bprm together unlock   *)
(* it once on every path, the error paths of all handlers included.        *)
MutexFollowsCred ==
  \A t \in Thread : bprm[t].cred <=> cred_guard_mutex = t

(* What check_unsafe_exec found out about the sharing of fs stays true     *)
(* until the exec is over: nobody else's exec clears the mark, and nobody  *)
(* outside the group comes to share the fs_struct.                         *)
MarkKept ==
  \A t \in Thread :
    pc[t] \in Marked \ {"out_unmark"} /\ ~ bprm[t].unsafe_share =>
      in_exec /\ fs_sharer = "none"

(* de_thread returns only when the caller is the leader and the last       *)
(* thread: the new mm and credentials are never given to a group in which  *)
(* another thread still runs (BUG_ON(!thread_group_leader(tsk))).          *)
AloneAfterDeThread ==
  \A t \in Thread :
    pc[t] \in {"no_thread_group", "exec_mmap", "setup_new_exec", "start_thread"} =>
      leader = t /\ Others(t) = {}

(* group_exit_task, which de_thread and core dumps share, points to the    *)
(* one thread that waits in de_thread or dumps core and is cleared on      *)
(* every way out; notify_count is the number of threads that de_thread     *)
(* waits for, and 0 during a dump, so that no exit wakes the dumper.       *)
DeThreadAccounts ==
  \A t \in Thread :
    /\ group_exit_task = t <=> pc[t] \in DeThreads \cup {"coredump"}
    /\ pc[t] = "coredump" => notify_count = 0
    /\ pc[t] \in {"wait_threads", "sleep_threads"} =>
         notify_count = Cardinality(Others(t) \ {leader})

(* A thread that gets back to its old program after flush_old_exec failed  *)
(* is about to die, with one exception: there was no memory for a private  *)
(* sighand_struct.  In particular nobody runs on a half built image.       *)
FatalUnlessNoMemory ==
  \A t \in no_return : pc[t] = "user" /\ t \notin fatal => sighand_shared

(* Every execve and every core dump ends: no wake-up of de_thread is lost, *)
(* threads that wait for the mutex do not keep the thread that waits for   *)
(* their exit, and a dump and a de_thread do not wait for each other.      *)
ExecEnds ==
  \A t \in Thread : pc[t] \notin {"user"} \cup Exited ~> pc[t] \in {"user"} \cup Exited
=============================================================================
