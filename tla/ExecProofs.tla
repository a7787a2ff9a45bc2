----------------------------- MODULE ExecProofs -----------------------------
(***************************************************************************)
(* The invariants of execve for any number of threads.                     *)
(*                                                                         *)
(* Inv adds to them what each label says of the thread that is there: when *)
(* its bprm owns credentials and an mm, whom it still has beside it, and   *)
(* that whoever is beside a thread that waits in de_thread or dumps core   *)
(* is about to die, so that no new thread is cloned.                       *)
(***************************************************************************)
EXTENDS Exec, FiniteSetTheorems, TLAPS

USE ZenonT(10)

(* The labels between prepare_bprm_creds and install_exec_creds; after     *)
(* de_thread; before flush_old_exec; on the way back.                      *)
Credited == {"check_unsafe", "prepare", "load_binary", "no_thread_group", "exec_mmap",
             "setup_new_exec"} \cup DeThreads
Last     == {"no_thread_group", "exec_mmap", "setup_new_exec", "start_thread"}
Before   == {"prepare_creds", "check_unsafe", "prepare", "load_binary"}
Back     == {"user", "out_unmark", "out_free"}

BprmInv(t) ==
  /\ bprm[t].cred <=> cred_guard_mutex = t
  /\ pc[t] \in Credited => bprm[t].cred
  /\ pc[t] \in {"user", "prepare_creds", "start_thread", "coredump", "exiting"} \cup Exited
       => ~ bprm[t].cred
  /\ pc[t] \in {"setup_new_exec", "start_thread"} => ~ bprm[t].mm
  /\ pc[t] \in {"user", "coredump"} => t \notin displaced

(* A thread whose credentials are installed has nobody beside it, nor has  *)
(* it after an error that came too late to keep them.                      *)
Alone(t) == pc[t] \in Last \/ (pc[t] = "out_unmark" /\ ~ bprm[t].cred)

WaitInv(t) ==
  /\ group_exit_task = t <=> pc[t] \in DeThreads \cup {"coredump"}
  /\ pc[t] = "coredump" => notify_count = 0
  /\ pc[t] \in {"wait_threads", "sleep_threads"} =>
       notify_count = Cardinality(Others(t) \ {leader})
  /\ pc[t] \in {"wait_leader", "sleep_leader"} => t # leader /\ Others(t) \subseteq {leader}
  /\ pc[t] \in DeThreads \cup {"coredump"} => Others(t) \cap WithMm \subseteq fatal
  /\ Alone(t) => Others(t) = {}

MarkInv(t) ==
  pc[t] \in Marked \ {"out_unmark"} /\ ~ bprm[t].unsafe_share =>
    in_exec /\ fs_sharer = "none"

ReturnInv(t) ==
  t \in no_return =>
    pc[t] \notin Before /\ (pc[t] \in Back => t \in fatal \/ sighand_shared)

ThreadInv(t) == BprmInv(t) /\ WaitInv(t) /\ MarkInv(t) /\ ReturnInv(t)

Dumping == \E t \in Thread : pc[t] = "coredump"

GroupInv ==
  /\ pc[leader] # "gone"
  /\ core_state => group_exit \/ Dumping
  /\ group_exit => WithMm \subseteq fatal

Inv == TypeOK /\ GroupInv /\ \A t \in Thread : ThreadInv(t)

-----------------------------------------------------------------------------
(* What a step of t in execve may change.                                  *)
Local(t, l) ==
  /\ {pc[t], l} \subseteq Label \ ({"coredump", "exiting"} \cup Exited)
  /\ pc' = [pc EXCEPT ![t] = l]
  /\ leader' = leader /\ group_exit' = group_exit /\ core_state' = core_state
  /\ fs_sharer' = fs_sharer /\ fatal \subseteq fatal'
  /\ \A u \in Thread \ {t} : bprm'[u] = bprm[u]
  /\ no_return' \ {t} = no_return \ {t} /\ displaced' \ {t} = displaced \ {t}
  /\ sighand_shared' = sighand_shared \/ pc[t] = "no_thread_group"
  /\ in_exec' = in_exec \/ in_exec' = TRUE \/ pc[t] \in {"start_thread", "out_unmark"}
  /\ \/ cred_guard_mutex' = cred_guard_mutex
     \/ {cred_guard_mutex, cred_guard_mutex'} \subseteq {t, NoThread}
  /\ \/ group_exit_task' = group_exit_task /\ notify_count' = notify_count
     \/ {group_exit_task, group_exit_task'} \subseteq {t, NoThread}

LEMMA LocalSame ==
  ASSUME TypeOK, NEW t \in Thread, NEW l, Local(t, l)
  PROVE  /\ pc'[t] = l /\ \A u \in Thread \ {t} : pc'[u] = pc[u]
         /\ Live' = Live /\ WithMm' = WithMm /\ \A u \in Thread : Others(u)' = Others(u)
<1>1. /\ pc'[t] = l /\ \A u \in Thread \ {t} : pc'[u] = pc[u]
  BY DEF TypeOK, Local
<1>2. \A u \in Thread : /\ pc'[u] \in Exited <=> pc[u] \in Exited
                        /\ pc'[u] = "gone" <=> pc[u] = "gone"
                        /\ pc'[u] = "exiting" <=> pc[u] = "exiting"
  BY <1>1 DEF Local, Exited
<1>3. Live' = Live /\ WithMm' = WithMm
  BY <1>2 DEF Live, WithMm
<1>4. \A u \in Thread : Others(u)' = Others(u)
  BY <1>2 DEF Others
<1>5. QED
  BY <1>1, <1>3, <1>4

(* The leader is there as long as there is anybody.                        *)
LEMMA LeaderBeside ==
  ASSUME Inv, NEW t \in Thread
  PROVE  t # leader => leader \in Others(t)
  BY DEF Inv, TypeOK, GroupInv, Others

(* It does not disturb the others.                                         *)
LEMMA LocalOthers ==
  ASSUME Inv, NEW t \in Thread, NEW l, Local(t, l), NEW u \in Thread, u # t
  PROVE  ThreadInv(u)'
<1>1. /\ pc'[u] = pc[u] /\ bprm'[u] = bprm[u] /\ WithMm' = WithMm
      /\ Others(u)' = Others(u)
  BY LocalSame DEF Inv, Local
<1>2. ThreadInv(t) /\ ThreadInv(u) /\ t # NoThread /\ u # NoThread
  BY ThreadAssumption DEF Inv
<1>3. t \in Others(u) /\ (pc[u] # "gone" => u \in Others(t))
  BY DEF Others, Local, Exited
<1>4. BprmInv(u)'
  BY <1>1, <1>2 DEF ThreadInv, BprmInv, Local
<1>5. WaitInv(u)'
  <2>1. group_exit_task' = u <=> group_exit_task = u
    BY <1>2 DEF Local
  <2>2. group_exit_task = u => notify_count' = notify_count
    BY <1>2 DEF Local
  <2>3. pc[u] \in {"wait_threads", "sleep_threads", "coredump"} => group_exit_task = u
    BY <1>2 DEF ThreadInv, WaitInv, DeThreads
  <2>4. leader' = leader /\ fatal \subseteq fatal'
    BY DEF Local
  <2>5. QED
    BY <1>1, <1>2, <2>1, <2>2, <2>3, <2>4 DEF ThreadInv, WaitInv, Alone
<1>6. MarkInv(u)'
  <2>1. CASE in_exec' = in_exec \/ in_exec' = TRUE
    BY <1>1, <1>2, <2>1 DEF ThreadInv, MarkInv, Local
  <2>2. CASE pc[t] \in {"start_thread", "out_unmark"}
    <3>1. pc[u] # "gone" => bprm[t].cred
      BY <1>2, <1>3, <2>2 DEF ThreadInv, WaitInv, Alone, Last
    <3>2. ~ bprm[u].cred \/ ~ bprm[t].cred
      BY <1>2 DEF ThreadInv, BprmInv
    <3>3. pc[u] # "start_thread"
      BY <1>2, <1>3 DEF ThreadInv, WaitInv, Alone, Last
    <3>4. pc[u] \notin Marked \ {"out_unmark"}
      BY <1>2, <3>1, <3>2, <3>3 DEF ThreadInv, BprmInv, Marked, Credited, DeThreads
    <3>5. QED
      BY <1>1, <3>4 DEF MarkInv
  <2>3. QED
    BY <2>1, <2>2 DEF Local
<1>7. ReturnInv(u)'
  <2>1. u \in no_return' <=> u \in no_return
    BY DEF Local
  <2>2. pc[t] = "no_thread_group" => pc[u] = "gone"
    BY <1>2, <1>3 DEF ThreadInv, WaitInv, Alone, Last
  <2>3. QED
    BY <1>1, <1>2, <2>1, <2>2 DEF ThreadInv, ReturnInv, Back, Local
<1>8. QED
  BY <1>4, <1>5, <1>6, <1>7 DEF ThreadInv

LEMMA LocalGroup ==
  ASSUME Inv, NEW t \in Thread, NEW l, Local(t, l)
  PROVE  GroupInv'
<1>1. /\ pc'[t] = l /\ \A u \in Thread \ {t} : pc'[u] = pc[u]
      /\ WithMm' = WithMm
  BY LocalSame DEF Inv
<1>2. Dumping' <=> Dumping
  BY <1>1 DEF Dumping, Local
<1>3. QED
  BY <1>1, <1>2 DEF Inv, TypeOK, GroupInv, Local, Exited

(* So only t itself and the types are left to look at.                     *)
LEMMA LocalKeeps ==
  ASSUME Inv, NEW t \in Thread, NEW l, Local(t, l), TypeOK', ThreadInv(t)'
  PROVE  Inv'
  BY LocalOthers, LocalGroup DEF Inv

(* What setting a field of its bprm does.                                  *)
Typed == bprm' \in [Thread -> Bprm]
Kept(t) == Typed /\ \A u \in Thread \ {t} : bprm'[u] = bprm[u]

LEMMA SetCred ==
  ASSUME TypeOK, NEW t \in Thread, NEW v \in BOOLEAN, bprm' = [bprm EXCEPT ![t].cred = v]
  PROVE  /\ Kept(t) /\ bprm'[t].cred = v /\ bprm'[t].mm = bprm[t].mm
         /\ bprm'[t].unsafe_share = bprm[t].unsafe_share
<1>1. bprm \in [Thread -> Bprm] /\ bprm[t] \in Bprm
  BY DEF TypeOK
<1>2. bprm' = [bprm EXCEPT ![t] = [bprm[t] EXCEPT !.cred = v]]
  BY SMT
<1>3. [bprm[t] EXCEPT !.cred = v] \in Bprm
  BY <1>1, SMT DEF Bprm
<1>4. Kept(t) /\ bprm'[t] = [bprm[t] EXCEPT !.cred = v]
  BY <1>1, <1>2, <1>3 DEF Kept, Typed
<1>5. QED
  BY <1>1, <1>4, SMT DEF Bprm

LEMMA SetMm ==
  ASSUME TypeOK, NEW t \in Thread, NEW v \in BOOLEAN, bprm' = [bprm EXCEPT ![t].mm = v]
  PROVE  /\ Kept(t) /\ bprm'[t].mm = v /\ bprm'[t].cred = bprm[t].cred
         /\ bprm'[t].unsafe_share = bprm[t].unsafe_share
<1>1. bprm \in [Thread -> Bprm] /\ bprm[t] \in Bprm
  BY DEF TypeOK
<1>2. bprm' = [bprm EXCEPT ![t] = [bprm[t] EXCEPT !.mm = v]]
  BY SMT
<1>3. [bprm[t] EXCEPT !.mm = v] \in Bprm
  BY <1>1, SMT DEF Bprm
<1>4. Kept(t) /\ bprm'[t] = [bprm[t] EXCEPT !.mm = v]
  BY <1>1, <1>2, <1>3 DEF Kept, Typed
<1>5. QED
  BY <1>1, <1>4, SMT DEF Bprm

LEMMA SetShare ==
  ASSUME TypeOK, NEW t \in Thread, NEW v \in BOOLEAN, bprm' = [bprm EXCEPT ![t].unsafe_share = v]
  PROVE  /\ Kept(t) /\ bprm'[t].unsafe_share = v /\ bprm'[t].cred = bprm[t].cred
         /\ bprm'[t].mm = bprm[t].mm
<1>1. bprm \in [Thread -> Bprm] /\ bprm[t] \in Bprm
  BY DEF TypeOK
<1>2. bprm' = [bprm EXCEPT ![t] = [bprm[t] EXCEPT !.unsafe_share = v]]
  BY SMT
<1>3. [bprm[t] EXCEPT !.unsafe_share = v] \in Bprm
  BY <1>1, SMT DEF Bprm
<1>4. Kept(t) /\ bprm'[t] = [bprm[t] EXCEPT !.unsafe_share = v]
  BY <1>1, <1>2, <1>3 DEF Kept, Typed
<1>5. QED
  BY <1>1, <1>4, SMT DEF Bprm

LEMMA ExecveKeeps ==
  ASSUME Inv, NEW t \in Thread, Execve(t)
  PROVE  Inv'
<1>1. pc[t] = "user" /\ pc' = [pc EXCEPT ![t] = "prepare_creds"]
  BY DEF Execve, Goto
<1>2. /\ Kept(t)
      /\ bprm'[t].cred = bprm[t].cred /\ bprm'[t].mm = bprm[t].mm
      /\ bprm'[t].unsafe_share = bprm[t].unsafe_share
  BY SetCred, SetMm, SetShare DEF Execve, Goto, Inv, TypeOK, Bprm, bprmVars, Kept, Typed
<1>3. Local(t, "prepare_creds")
  BY <1>1, <1>2, ThreadAssumption
  DEF Execve, Goto, Inv, ThreadInv, BprmInv, WaitInv, Local, Kept, Label, Marked, Exited,
      Credited, DeThreads, groupVars, signalVars, fsVars, bprmVars
<1>4. /\ pc'[t] = "prepare_creds" /\ \A u \in Thread \ {t} : pc'[u] = pc[u]
      /\ Live' = Live /\ WithMm' = WithMm /\ \A u \in Thread : Others(u)' = Others(u)
  BY <1>3, LocalSame DEF Inv
<1>5. TypeOK'
  <2>1. displaced' \subseteq WithMm /\ no_return' \subseteq WithMm
    BY <1>1 DEF Execve, Inv, TypeOK, Live, WithMm, Asleep, Exited
  <2>2. in_execve' = {u \in Thread : pc'[u] \in Marked}
    BY <1>1, <1>4 DEF Execve, Inv, TypeOK, fsVars, Marked, DeThreads
  <2>3. woken' \subseteq Asleep'
    BY <1>1, <1>4 DEF Execve, Inv, TypeOK, Asleep, signalVars
  <2>4. QED
    BY <1>1, <1>2, <1>4, <2>1, <2>2, <2>3
    DEF Execve, Kept, Typed, Inv, TypeOK, Label, groupVars, signalVars, fsVars
<1>6. BprmInv(t)'
  BY <1>1, <1>2, <1>4, ThreadAssumption
  DEF Execve, Goto, Inv, ThreadInv, BprmInv, Credited, DeThreads, Exited, bprmVars
<1>7. WaitInv(t)'
  BY <1>1, <1>2, <1>4
  DEF Execve, Goto, Inv, ThreadInv, BprmInv, WaitInv, Alone, Last, Credited, DeThreads,
      groupVars, signalVars, bprmVars
<1>8. MarkInv(t)'
  BY <1>1, <1>2, <1>4 DEF Execve, Goto, Inv, ThreadInv, MarkInv, Marked, DeThreads, fsVars
<1>9. ReturnInv(t)'
  BY <1>1, <1>2, <1>4
  DEF Execve, Goto, Inv, GroupInv, ThreadInv, BprmInv, ReturnInv, Before, Back, Live, WithMm,
      Exited, signalVars, bprmVars
<1>10. QED
  BY <1>3, <1>5, <1>6, <1>7, <1>8, <1>9, LocalKeeps DEF ThreadInv

LEMMA PrepareBprmCredsKeeps ==
  ASSUME Inv, NEW t \in Thread, PrepareBprmCreds(t)
  PROVE  Inv'
<1>1. pc[t] = "prepare_creds" /\ pc' = [pc EXCEPT ![t] = "check_unsafe"]
  BY DEF PrepareBprmCreds, Goto
<1>2. /\ Kept(t)
      /\ bprm'[t].cred = TRUE /\ bprm'[t].mm = bprm[t].mm
      /\ bprm'[t].unsafe_share = bprm[t].unsafe_share
  BY SetCred, SetMm, SetShare
  DEF PrepareBprmCreds, Goto, Inv, TypeOK, Bprm, bprmVars, Kept, Typed
<1>3. Local(t, "check_unsafe")
  BY <1>1, <1>2, ThreadAssumption
  DEF PrepareBprmCreds, Goto, Inv, ThreadInv, BprmInv, WaitInv, Local, Kept, Label,
      Marked, Exited, Credited, DeThreads, groupVars, signalVars, fsVars, bprmVars
<1>4. /\ pc'[t] = "check_unsafe" /\ \A u \in Thread \ {t} : pc'[u] = pc[u]
      /\ Live' = Live /\ WithMm' = WithMm /\ \A u \in Thread : Others(u)' = Others(u)
  BY <1>3, LocalSame DEF Inv
<1>5. TypeOK'
  <2>1. in_execve' = {u \in Thread : pc'[u] \in Marked}
    BY <1>1, <1>4 DEF PrepareBprmCreds, Goto, Inv, TypeOK, fsVars, Marked, DeThreads
  <2>2. /\ fatal' \subseteq WithMm /\ woken' \subseteq Asleep' /\ displaced' \subseteq WithMm
        /\ no_return' \subseteq WithMm
    BY <1>1, <1>4
    DEF PrepareBprmCreds, Goto, Inv, TypeOK, Live, WithMm, Asleep, Exited, DeThreads,
        signalVars, bprmVars
  <2>3. notify_count' \in -1 .. Cardinality(Thread)
    BY DEF PrepareBprmCreds, Goto, Inv, TypeOK, groupVars
  <2>4. /\ pc' \in [Thread -> Label] /\ leader' \in Thread
        /\ cred_guard_mutex' \in Thread \cup {NoThread}
        /\ group_exit_task' \in Thread \cup {NoThread}
    BY <1>1
    DEF PrepareBprmCreds, Goto, Inv, TypeOK, Label, Marked, DeThreads, groupVars, bprmVars
  <2>5. /\ group_exit' \in BOOLEAN /\ core_state' \in BOOLEAN /\ sighand_shared' \in BOOLEAN
        /\ in_exec' \in BOOLEAN /\ fs_sharer' \in {"none", "user", "exec"}
    BY DEF PrepareBprmCreds, Goto, Inv, TypeOK, signalVars, fsVars
  <2>6. group_exit_task' = NoThread => notify_count' = 0
    BY <1>1, ThreadAssumption
    DEF PrepareBprmCreds, Goto, Inv, TypeOK, ThreadInv, WaitInv, DeThreads, groupVars
  <2>7. QED
    BY <1>2, <1>4, <2>1, <2>2, <2>3, <2>4, <2>5, <2>6 DEF Kept, Typed, TypeOK
<1>6. BprmInv(t)'
  BY <1>1, <1>2, <1>4, ThreadAssumption
  DEF PrepareBprmCreds, Goto, Inv, ThreadInv, BprmInv, Credited, DeThreads, Exited, bprmVars
<1>7. WaitInv(t)'
  BY <1>1, <1>2, <1>4
  DEF PrepareBprmCreds, Goto, Inv, ThreadInv, BprmInv, WaitInv, Alone, Last, Credited,
      DeThreads, groupVars, signalVars, bprmVars
<1>8. MarkInv(t)'
  BY <1>1, <1>2, <1>4
  DEF PrepareBprmCreds, Goto, Inv, ThreadInv, MarkInv, Marked, DeThreads, fsVars
<1>9. ReturnInv(t)'
  BY <1>1, <1>2, <1>4
  DEF PrepareBprmCreds, Goto, Inv, GroupInv, ThreadInv, BprmInv, ReturnInv, Before, Back,
      Live, WithMm, Exited, signalVars, bprmVars
<1>10. QED
  BY <1>3, <1>5, <1>6, <1>7, <1>8, <1>9, LocalKeeps DEF ThreadInv

LEMMA PrepareBprmCredsFailsKeeps ==
  ASSUME Inv, NEW t \in Thread, PrepareBprmCredsFails(t)
  PROVE  Inv'
<1>1. pc[t] = "prepare_creds" /\ pc' = [pc EXCEPT ![t] = "out_free"]
  BY DEF PrepareBprmCredsFails, Goto
<1>2. /\ Kept(t)
      /\ bprm'[t].cred = bprm[t].cred /\ bprm'[t].mm = bprm[t].mm
      /\ bprm'[t].unsafe_share = bprm[t].unsafe_share
  BY SetCred, SetMm, SetShare
  DEF PrepareBprmCredsFails, Goto, Inv, TypeOK, Bprm, bprmVars, Kept, Typed
<1>3. Local(t, "out_free")
  BY <1>1, <1>2, ThreadAssumption
  DEF PrepareBprmCredsFails, Goto, Inv, ThreadInv, BprmInv, WaitInv, Local, Kept, Label,
      Marked, Exited, Credited, DeThreads, groupVars, signalVars, fsVars, bprmVars
<1>4. /\ pc'[t] = "out_free" /\ \A u \in Thread \ {t} : pc'[u] = pc[u]
      /\ Live' = Live /\ WithMm' = WithMm /\ \A u \in Thread : Others(u)' = Others(u)
  BY <1>3, LocalSame DEF Inv
<1>5. TypeOK'
  <2>1. in_execve' = {u \in Thread : pc'[u] \in Marked}
    BY <1>1, <1>4 DEF PrepareBprmCredsFails, Goto, Inv, TypeOK, fsVars, Marked, DeThreads
  <2>2. /\ fatal' \subseteq WithMm /\ woken' \subseteq Asleep' /\ displaced' \subseteq WithMm
        /\ no_return' \subseteq WithMm
    BY <1>1, <1>4
    DEF PrepareBprmCredsFails, Goto, Inv, TypeOK, Live, WithMm, Asleep, Exited, DeThreads,
        signalVars, bprmVars
  <2>3. notify_count' \in -1 .. Cardinality(Thread)
    BY DEF PrepareBprmCredsFails, Goto, Inv, TypeOK, groupVars
  <2>4. /\ pc' \in [Thread -> Label] /\ leader' \in Thread
        /\ cred_guard_mutex' \in Thread \cup {NoThread}
        /\ group_exit_task' \in Thread \cup {NoThread}
    BY <1>1
    DEF PrepareBprmCredsFails, Goto, Inv, TypeOK, Label, Marked, DeThreads, groupVars,
        bprmVars
  <2>5. /\ group_exit' \in BOOLEAN /\ core_state' \in BOOLEAN /\ sighand_shared' \in BOOLEAN
        /\ in_exec' \in BOOLEAN /\ fs_sharer' \in {"none", "user", "exec"}
    BY DEF PrepareBprmCredsFails, Goto, Inv, TypeOK, signalVars, fsVars
  <2>6. group_exit_task' = NoThread => notify_count' = 0
    BY <1>1, ThreadAssumption
    DEF PrepareBprmCredsFails, Goto, Inv, TypeOK, ThreadInv, WaitInv, DeThreads, groupVars
  <2>7. QED
    BY <1>2, <1>4, <2>1, <2>2, <2>3, <2>4, <2>5, <2>6 DEF Kept, Typed, TypeOK
<1>6. BprmInv(t)'
  BY <1>1, <1>2, <1>4, ThreadAssumption
  DEF PrepareBprmCredsFails, Goto, Inv, ThreadInv, BprmInv, Credited, DeThreads, Exited,
      bprmVars
<1>7. WaitInv(t)'
  BY <1>1, <1>2, <1>4
  DEF PrepareBprmCredsFails, Goto, Inv, ThreadInv, BprmInv, WaitInv, Alone, Last,
      Credited, DeThreads, groupVars, signalVars, bprmVars
<1>8. MarkInv(t)'
  BY <1>1, <1>2, <1>4
  DEF PrepareBprmCredsFails, Goto, Inv, ThreadInv, MarkInv, Marked, DeThreads, fsVars
<1>9. ReturnInv(t)'
  BY <1>1, <1>2, <1>4
  DEF PrepareBprmCredsFails, Goto, Inv, GroupInv, ThreadInv, BprmInv, ReturnInv, Before,
      Back, Live, WithMm, Exited, signalVars, bprmVars
<1>10. QED
  BY <1>3, <1>5, <1>6, <1>7, <1>8, <1>9, LocalKeeps DEF ThreadInv

LEMMA PrepareKeeps ==
  ASSUME Inv, NEW t \in Thread, Prepare(t)
  PROVE  Inv'
<1>1. pc[t] = "prepare" /\ pc' = [pc EXCEPT ![t] = "load_binary"]
  BY DEF Prepare, Goto
<1>2. /\ Kept(t)
      /\ bprm'[t].cred = bprm[t].cred /\ bprm'[t].mm = TRUE
      /\ bprm'[t].unsafe_share = bprm[t].unsafe_share
  BY SetCred, SetMm, SetShare DEF Prepare, Goto, Inv, TypeOK, Bprm, bprmVars, Kept, Typed
<1>3. Local(t, "load_binary")
  BY <1>1, <1>2, ThreadAssumption
  DEF Prepare, Goto, Inv, ThreadInv, BprmInv, WaitInv, Local, Kept, Label, Marked, Exited,
      Credited, DeThreads, groupVars, signalVars, fsVars, bprmVars
<1>4. /\ pc'[t] = "load_binary" /\ \A u \in Thread \ {t} : pc'[u] = pc[u]
      /\ Live' = Live /\ WithMm' = WithMm /\ \A u \in Thread : Others(u)' = Others(u)
  BY <1>3, LocalSame DEF Inv
<1>5. TypeOK'
  <2>1. in_execve' = {u \in Thread : pc'[u] \in Marked}
    BY <1>1, <1>4 DEF Prepare, Goto, Inv, TypeOK, fsVars, Marked, DeThreads
  <2>2. /\ fatal' \subseteq WithMm /\ woken' \subseteq Asleep' /\ displaced' \subseteq WithMm
        /\ no_return' \subseteq WithMm
    BY <1>1
    DEF Prepare, Goto, Inv, TypeOK, Live, WithMm, Asleep, Exited, DeThreads, signalVars,
        bprmVars
  <2>3. notify_count' \in -1 .. Cardinality(Thread)
    BY DEF Prepare, Goto, Inv, TypeOK, groupVars
  <2>4. /\ pc' \in [Thread -> Label] /\ leader' \in Thread
        /\ cred_guard_mutex' \in Thread \cup {NoThread}
        /\ group_exit_task' \in Thread \cup {NoThread}
    BY <1>1 DEF Prepare, Goto, Inv, TypeOK, Label, Marked, DeThreads, groupVars, bprmVars
  <2>5. /\ group_exit' \in BOOLEAN /\ core_state' \in BOOLEAN /\ sighand_shared' \in BOOLEAN
        /\ in_exec' \in BOOLEAN /\ fs_sharer' \in {"none", "user", "exec"}
    BY DEF Prepare, Goto, Inv, TypeOK, signalVars, fsVars
  <2>6. group_exit_task' = NoThread => notify_count' = 0
    BY <1>1, ThreadAssumption
    DEF Prepare, Goto, Inv, TypeOK, ThreadInv, WaitInv, DeThreads, groupVars
  <2>7. QED
    BY <1>2, <1>4, <2>1, <2>2, <2>3, <2>4, <2>5, <2>6 DEF Kept, Typed, TypeOK
<1>6. BprmInv(t)'
  BY <1>1, <1>2, <1>4, ThreadAssumption
  DEF Prepare, Goto, Inv, ThreadInv, BprmInv, Credited, DeThreads, Exited, bprmVars
<1>7. WaitInv(t)'
  BY <1>1, <1>2, <1>4
  DEF Prepare, Goto, Inv, ThreadInv, BprmInv, WaitInv, Alone, Last, Credited, DeThreads,
      groupVars, signalVars, bprmVars
<1>8. MarkInv(t)'
  BY <1>1, <1>2, <1>4 DEF Prepare, Goto, Inv, ThreadInv, MarkInv, Marked, DeThreads, fsVars
<1>9. ReturnInv(t)'
  BY <1>1, <1>2, <1>4
  DEF Prepare, Goto, Inv, GroupInv, ThreadInv, BprmInv, ReturnInv, Before, Back, Live, WithMm,
      Exited, signalVars, bprmVars
<1>10. QED
  BY <1>3, <1>5, <1>6, <1>7, <1>8, <1>9, LocalKeeps DEF ThreadInv

LEMMA PrepareFailsKeeps ==
  ASSUME Inv, NEW t \in Thread, PrepareFails(t)
  PROVE  Inv'
<1>1. pc[t] = "prepare" /\ pc' = [pc EXCEPT ![t] = "out_unmark"]
  BY DEF PrepareFails, Goto
<1>2. /\ Kept(t)
      /\ bprm'[t].cred = bprm[t].cred /\ bprm'[t].mm = bprm[t].mm
      /\ bprm'[t].unsafe_share = bprm[t].unsafe_share
  BY SetCred, SetMm, SetShare
  DEF PrepareFails, Goto, Inv, TypeOK, Bprm, bprmVars, Kept, Typed
<1>3. Local(t, "out_unmark")
  BY <1>1, <1>2, ThreadAssumption
  DEF PrepareFails, Goto, Inv, ThreadInv, BprmInv, WaitInv, Local, Kept, Label, Marked,
      Exited, Credited, DeThreads, groupVars, signalVars, fsVars, bprmVars
<1>4. /\ pc'[t] = "out_unmark" /\ \A u \in Thread \ {t} : pc'[u] = pc[u]
      /\ Live' = Live /\ WithMm' = WithMm /\ \A u \in Thread : Others(u)' = Others(u)
  BY <1>3, LocalSame DEF Inv
<1>5. TypeOK'
  <2>1. in_execve' = {u \in Thread : pc'[u] \in Marked}
    BY <1>1, <1>4 DEF PrepareFails, Goto, Inv, TypeOK, fsVars, Marked, DeThreads
  <2>2. /\ fatal' \subseteq WithMm /\ woken' \subseteq Asleep' /\ displaced' \subseteq WithMm
        /\ no_return' \subseteq WithMm
    BY <1>1, <1>4
    DEF PrepareFails, Goto, Inv, TypeOK, Live, WithMm, Asleep, Exited, DeThreads,
        signalVars, bprmVars
  <2>3. notify_count' \in -1 .. Cardinality(Thread)
    BY DEF PrepareFails, Goto, Inv, TypeOK, groupVars
  <2>4. /\ pc' \in [Thread -> Label] /\ leader' \in Thread
        /\ cred_guard_mutex' \in Thread \cup {NoThread}
        /\ group_exit_task' \in Thread \cup {NoThread}
    BY <1>1
    DEF PrepareFails, Goto, Inv, TypeOK, Label, Marked, DeThreads, groupVars, bprmVars
  <2>5. /\ group_exit' \in BOOLEAN /\ core_state' \in BOOLEAN /\ sighand_shared' \in BOOLEAN
        /\ in_exec' \in BOOLEAN /\ fs_sharer' \in {"none", "user", "exec"}
    BY DEF PrepareFails, Goto, Inv, TypeOK, signalVars, fsVars
  <2>6. group_exit_task' = NoThread => notify_count' = 0
    BY <1>1, ThreadAssumption
    DEF PrepareFails, Goto, Inv, TypeOK, ThreadInv, WaitInv, DeThreads, groupVars
  <2>7. QED
    BY <1>2, <1>4, <2>1, <2>2, <2>3, <2>4, <2>5, <2>6 DEF Kept, Typed, TypeOK
<1>6. BprmInv(t)'
  BY <1>1, <1>2, <1>4, ThreadAssumption
  DEF PrepareFails, Goto, Inv, ThreadInv, BprmInv, Credited, DeThreads, Exited, bprmVars
<1>7. WaitInv(t)'
  BY <1>1, <1>2, <1>4
  DEF PrepareFails, Goto, Inv, ThreadInv, BprmInv, WaitInv, Alone, Last, Credited,
      DeThreads, groupVars, signalVars, bprmVars
<1>8. MarkInv(t)'
  BY <1>1, <1>2, <1>4
  DEF PrepareFails, Goto, Inv, ThreadInv, MarkInv, Marked, DeThreads, fsVars
<1>9. ReturnInv(t)'
  BY <1>1, <1>2, <1>4
  DEF PrepareFails, Goto, Inv, GroupInv, ThreadInv, BprmInv, ReturnInv, Before, Back,
      Live, WithMm, Exited, signalVars, bprmVars
<1>10. QED
  BY <1>3, <1>5, <1>6, <1>7, <1>8, <1>9, LocalKeeps DEF ThreadInv

LEMMA LoadBinaryFailsKeeps ==
  ASSUME Inv, NEW t \in Thread, LoadBinaryFails(t)
  PROVE  Inv'
<1>1. pc[t] = "load_binary" /\ pc' = [pc EXCEPT ![t] = "out_unmark"]
  BY DEF LoadBinaryFails, HandlerFails, Goto
<1>2. /\ Kept(t)
      /\ bprm'[t].cred = bprm[t].cred /\ bprm'[t].mm = FALSE
      /\ bprm'[t].unsafe_share = bprm[t].unsafe_share
  BY SetCred, SetMm, SetShare
  DEF LoadBinaryFails, HandlerFails, Goto, Inv, TypeOK, Bprm, bprmVars, Kept, Typed
<1>3. Local(t, "out_unmark")
  BY <1>1, <1>2, ThreadAssumption
  DEF LoadBinaryFails, HandlerFails, Goto, Inv, ThreadInv, BprmInv, WaitInv, Local, Kept,
      Label, Marked, Exited, Credited, DeThreads, groupVars, signalVars, fsVars, bprmVars
<1>4. /\ pc'[t] = "out_unmark" /\ \A u \in Thread \ {t} : pc'[u] = pc[u]
      /\ Live' = Live /\ WithMm' = WithMm /\ \A u \in Thread : Others(u)' = Others(u)
  BY <1>3, LocalSame DEF Inv
<1>5. TypeOK'
  <2>1. in_execve' = {u \in Thread : pc'[u] \in Marked}
    BY <1>1, <1>4
    DEF LoadBinaryFails, HandlerFails, Goto, Inv, TypeOK, fsVars, Marked, DeThreads
  <2>2. /\ fatal' \subseteq WithMm /\ woken' \subseteq Asleep' /\ displaced' \subseteq WithMm
        /\ no_return' \subseteq WithMm
    BY <1>1, <1>4
    DEF LoadBinaryFails, HandlerFails, Goto, Inv, TypeOK, Live, WithMm, Asleep, Exited, DeThreads,
        signalVars, bprmVars
  <2>3. notify_count' \in -1 .. Cardinality(Thread)
    BY DEF LoadBinaryFails, HandlerFails, Goto, Inv, TypeOK, groupVars
  <2>4. /\ pc' \in [Thread -> Label] /\ leader' \in Thread
        /\ cred_guard_mutex' \in Thread \cup {NoThread}
        /\ group_exit_task' \in Thread \cup {NoThread}
    BY <1>1
    DEF LoadBinaryFails, HandlerFails, Goto, Inv, TypeOK, Label, Marked, DeThreads,
        groupVars, bprmVars
  <2>5. /\ group_exit' \in BOOLEAN /\ core_state' \in BOOLEAN /\ sighand_shared' \in BOOLEAN
        /\ in_exec' \in BOOLEAN /\ fs_sharer' \in {"none", "user", "exec"}
    BY DEF LoadBinaryFails, HandlerFails, Goto, Inv, TypeOK, signalVars, fsVars
  <2>6. group_exit_task' = NoThread => notify_count' = 0
    BY <1>1, ThreadAssumption
    DEF LoadBinaryFails, HandlerFails, Goto, Inv, TypeOK, ThreadInv, WaitInv, DeThreads,
        groupVars
  <2>7. QED
    BY <1>2, <1>4, <2>1, <2>2, <2>3, <2>4, <2>5, <2>6 DEF Kept, Typed, TypeOK
<1>6. BprmInv(t)'
  BY <1>1, <1>2, <1>4, ThreadAssumption
  DEF LoadBinaryFails, HandlerFails, Goto, Inv, ThreadInv, BprmInv, Credited, DeThreads,
      Exited, bprmVars
<1>7. WaitInv(t)'
  BY <1>1, <1>2, <1>4
  DEF LoadBinaryFails, HandlerFails, Goto, Inv, ThreadInv, BprmInv, WaitInv, Alone, Last,
      Credited, DeThreads, groupVars, signalVars, bprmVars
<1>8. MarkInv(t)'
  BY <1>1, <1>2, <1>4
  DEF LoadBinaryFails, HandlerFails, Goto, Inv, ThreadInv, MarkInv, Marked, DeThreads,
      fsVars
<1>9. ReturnInv(t)'
  BY <1>1, <1>2, <1>4
  DEF LoadBinaryFails, HandlerFails, Goto, Inv, GroupInv, ThreadInv, BprmInv, ReturnInv,
      Before, Back, Live, WithMm, Exited, signalVars, bprmVars
<1>10. QED
  BY <1>3, <1>5, <1>6, <1>7, <1>8, <1>9, LocalKeeps DEF ThreadInv

LEMMA NoThreadGroupKeeps ==
  ASSUME Inv, NEW t \in Thread, NoThreadGroup(t)
  PROVE  Inv'
<1>1. pc[t] = "no_thread_group" /\ pc' = [pc EXCEPT ![t] = "exec_mmap"]
  BY DEF NoThreadGroup, Goto
<1>2. /\ Kept(t)
      /\ bprm'[t].cred = bprm[t].cred /\ bprm'[t].mm = bprm[t].mm
      /\ bprm'[t].unsafe_share = bprm[t].unsafe_share
  BY SetCred, SetMm, SetShare
  DEF NoThreadGroup, Goto, Inv, TypeOK, Bprm, bprmVars, Kept, Typed
<1>3. Local(t, "exec_mmap")
  BY <1>1, <1>2, ThreadAssumption
  DEF NoThreadGroup, Goto, Inv, ThreadInv, BprmInv, WaitInv, Local, Kept, Label, Marked,
      Exited, Credited, DeThreads, groupVars, signalVars, fsVars, bprmVars
<1>4. /\ pc'[t] = "exec_mmap" /\ \A u \in Thread \ {t} : pc'[u] = pc[u]
      /\ Live' = Live /\ WithMm' = WithMm /\ \A u \in Thread : Others(u)' = Others(u)
  BY <1>3, LocalSame DEF Inv
<1>5. TypeOK'
  <2>1. in_execve' = {u \in Thread : pc'[u] \in Marked}
    BY <1>1, <1>4 DEF NoThreadGroup, Goto, Inv, TypeOK, fsVars, Marked, DeThreads
  <2>2. /\ fatal' \subseteq WithMm /\ woken' \subseteq Asleep' /\ displaced' \subseteq WithMm
        /\ no_return' \subseteq WithMm
    BY <1>1, <1>4
    DEF NoThreadGroup, Goto, Inv, TypeOK, Live, WithMm, Asleep, Exited, DeThreads,
        signalVars, bprmVars
  <2>3. notify_count' \in -1 .. Cardinality(Thread)
    BY DEF NoThreadGroup, Goto, Inv, TypeOK, groupVars
  <2>4. /\ pc' \in [Thread -> Label] /\ leader' \in Thread
        /\ cred_guard_mutex' \in Thread \cup {NoThread}
        /\ group_exit_task' \in Thread \cup {NoThread}
    BY <1>1
    DEF NoThreadGroup, Goto, Inv, TypeOK, Label, Marked, DeThreads, groupVars, bprmVars
  <2>5. /\ group_exit' \in BOOLEAN /\ core_state' \in BOOLEAN /\ sighand_shared' \in BOOLEAN
        /\ in_exec' \in BOOLEAN /\ fs_sharer' \in {"none", "user", "exec"}
    BY DEF NoThreadGroup, Goto, Inv, TypeOK, signalVars, fsVars
  <2>6. group_exit_task' = NoThread => notify_count' = 0
    BY <1>1, ThreadAssumption
    DEF NoThreadGroup, Goto, Inv, TypeOK, ThreadInv, WaitInv, DeThreads, groupVars
  <2>7. QED
    BY <1>2, <1>4, <2>1, <2>2, <2>3, <2>4, <2>5, <2>6 DEF Kept, Typed, TypeOK
<1>6. BprmInv(t)'
  BY <1>1, <1>2, <1>4, ThreadAssumption
  DEF NoThreadGroup, Goto, Inv, ThreadInv, BprmInv, Credited, DeThreads, Exited, bprmVars
<1>7. WaitInv(t)'
  <2>1. WaitInv(t) /\ UNCHANGED groupVars
    BY DEF NoThreadGroup, Inv, ThreadInv
  <2>2. QED
    BY <1>1, <1>4, <2>1 DEF WaitInv, Alone, Last, DeThreads, groupVars
<1>8. MarkInv(t)'
  BY <1>1, <1>2, <1>4
  DEF NoThreadGroup, Goto, Inv, ThreadInv, MarkInv, Marked, DeThreads, fsVars
<1>9. ReturnInv(t)'
  BY <1>1, <1>2, <1>4
  DEF NoThreadGroup, Goto, Inv, GroupInv, ThreadInv, BprmInv, ReturnInv, Before, Back,
      Live, WithMm, Exited, signalVars, bprmVars
<1>10. QED
  BY <1>3, <1>5, <1>6, <1>7, <1>8, <1>9, LocalKeeps DEF ThreadInv

LEMMA NoSighandMemoryKeeps ==
  ASSUME Inv, NEW t \in Thread, NoSighandMemory(t)
  PROVE  Inv'
<1>1. pc[t] = "no_thread_group" /\ pc' = [pc EXCEPT ![t] = "out_unmark"]
  BY DEF NoSighandMemory, HandlerFails, Goto
<1>2. /\ Kept(t)
      /\ bprm'[t].cred = bprm[t].cred /\ bprm'[t].mm = FALSE
      /\ bprm'[t].unsafe_share = bprm[t].unsafe_share
  BY SetCred, SetMm, SetShare
  DEF NoSighandMemory, HandlerFails, Goto, Inv, TypeOK, Bprm, bprmVars, Kept, Typed
<1>3. Local(t, "out_unmark")
  BY <1>1, <1>2, ThreadAssumption
  DEF NoSighandMemory, HandlerFails, Goto, Inv, ThreadInv, BprmInv, WaitInv, Local, Kept,
      Label, Marked, Exited, Credited, DeThreads, groupVars, signalVars, fsVars, bprmVars
<1>4. /\ pc'[t] = "out_unmark" /\ \A u \in Thread \ {t} : pc'[u] = pc[u]
      /\ Live' = Live /\ WithMm' = WithMm /\ \A u \in Thread : Others(u)' = Others(u)
  BY <1>3, LocalSame DEF Inv
<1>5. TypeOK'
  <2>1. in_execve' = {u \in Thread : pc'[u] \in Marked}
    BY <1>1, <1>4
    DEF NoSighandMemory, HandlerFails, Goto, Inv, TypeOK, fsVars, Marked, DeThreads
  <2>2. /\ fatal' \subseteq WithMm /\ woken' \subseteq Asleep' /\ displaced' \subseteq WithMm
        /\ no_return' \subseteq WithMm
    BY <1>1, <1>4
    DEF NoSighandMemory, HandlerFails, Goto, Inv, TypeOK, Live, WithMm, Asleep, Exited, DeThreads,
        signalVars, bprmVars
  <2>3. notify_count' \in -1 .. Cardinality(Thread)
    BY DEF NoSighandMemory, HandlerFails, Goto, Inv, TypeOK, groupVars
  <2>4. /\ pc' \in [Thread -> Label] /\ leader' \in Thread
        /\ cred_guard_mutex' \in Thread \cup {NoThread}
        /\ group_exit_task' \in Thread \cup {NoThread}
    BY <1>1
    DEF NoSighandMemory, HandlerFails, Goto, Inv, TypeOK, Label, Marked, DeThreads,
        groupVars, bprmVars
  <2>5. /\ group_exit' \in BOOLEAN /\ core_state' \in BOOLEAN /\ sighand_shared' \in BOOLEAN
        /\ in_exec' \in BOOLEAN /\ fs_sharer' \in {"none", "user", "exec"}
    BY DEF NoSighandMemory, HandlerFails, Goto, Inv, TypeOK, signalVars, fsVars
  <2>6. group_exit_task' = NoThread => notify_count' = 0
    BY <1>1, ThreadAssumption
    DEF NoSighandMemory, HandlerFails, Goto, Inv, TypeOK, ThreadInv, WaitInv, DeThreads,
        groupVars
  <2>7. QED
    BY <1>2, <1>4, <2>1, <2>2, <2>3, <2>4, <2>5, <2>6 DEF Kept, Typed, TypeOK
<1>6. BprmInv(t)'
  BY <1>1, <1>2, <1>4, ThreadAssumption
  DEF NoSighandMemory, HandlerFails, Goto, Inv, ThreadInv, BprmInv, Credited, DeThreads,
      Exited, bprmVars
<1>7. WaitInv(t)'
  BY <1>1, <1>2, <1>4
  DEF NoSighandMemory, HandlerFails, Goto, Inv, ThreadInv, BprmInv, WaitInv, Alone, Last,
      Credited, DeThreads, groupVars, signalVars, bprmVars
<1>8. MarkInv(t)'
  BY <1>1, <1>2, <1>4
  DEF NoSighandMemory, HandlerFails, Goto, Inv, ThreadInv, MarkInv, Marked, DeThreads,
      fsVars
<1>9. ReturnInv(t)'
  BY <1>1, <1>2, <1>4
  DEF NoSighandMemory, HandlerFails, Goto, Inv, GroupInv, ThreadInv, BprmInv, ReturnInv,
      Before, Back, Live, WithMm, Exited, signalVars, bprmVars
<1>10. QED
  BY <1>3, <1>5, <1>6, <1>7, <1>8, <1>9, LocalKeeps DEF ThreadInv

LEMMA ExecMmapKeeps ==
  ASSUME Inv, NEW t \in Thread, ExecMmap(t)
  PROVE  Inv'
<1>1. pc[t] = "exec_mmap" /\ pc' = [pc EXCEPT ![t] = "setup_new_exec"]
  BY DEF ExecMmap, Goto
<1>2. /\ Kept(t)
      /\ bprm'[t].cred = bprm[t].cred /\ bprm'[t].mm = FALSE
      /\ bprm'[t].unsafe_share = bprm[t].unsafe_share
  BY SetCred, SetMm, SetShare DEF ExecMmap, Goto, Inv, TypeOK, Bprm, bprmVars, Kept, Typed
<1>3. Local(t, "setup_new_exec")
  BY <1>1, <1>2, ThreadAssumption
  DEF ExecMmap, Goto, Inv, ThreadInv, BprmInv, WaitInv, Local, Kept, Label, Marked,
      Exited, Credited, DeThreads, groupVars, signalVars, fsVars, bprmVars
<1>4. /\ pc'[t] = "setup_new_exec" /\ \A u \in Thread \ {t} : pc'[u] = pc[u]
      /\ Live' = Live /\ WithMm' = WithMm /\ \A u \in Thread : Others(u)' = Others(u)
  BY <1>3, LocalSame DEF Inv
<1>5. TypeOK'
  <2>1. in_execve' = {u \in Thread : pc'[u] \in Marked}
    BY <1>1, <1>4 DEF ExecMmap, Goto, Inv, TypeOK, fsVars, Marked, DeThreads
  <2>2. /\ fatal' \subseteq WithMm /\ woken' \subseteq Asleep' /\ displaced' \subseteq WithMm
        /\ no_return' \subseteq WithMm
    BY <1>1
    DEF ExecMmap, Goto, Inv, TypeOK, Live, WithMm, Asleep, Exited, DeThreads, signalVars,
        bprmVars
  <2>3. notify_count' \in -1 .. Cardinality(Thread)
    BY DEF ExecMmap, Goto, Inv, TypeOK, groupVars
  <2>4. /\ pc' \in [Thread -> Label] /\ leader' \in Thread
        /\ cred_guard_mutex' \in Thread \cup {NoThread}
        /\ group_exit_task' \in Thread \cup {NoThread}
    BY <1>1 DEF ExecMmap, Goto, Inv, TypeOK, Label, Marked, DeThreads, groupVars, bprmVars
  <2>5. /\ group_exit' \in BOOLEAN /\ core_state' \in BOOLEAN /\ sighand_shared' \in BOOLEAN
        /\ in_exec' \in BOOLEAN /\ fs_sharer' \in {"none", "user", "exec"}
    BY DEF ExecMmap, Goto, Inv, TypeOK, signalVars, fsVars
  <2>6. group_exit_task' = NoThread => notify_count' = 0
    BY <1>1, ThreadAssumption
    DEF ExecMmap, Goto, Inv, TypeOK, ThreadInv, WaitInv, DeThreads, groupVars
  <2>7. QED
    BY <1>2, <1>4, <2>1, <2>2, <2>3, <2>4, <2>5, <2>6 DEF Kept, Typed, TypeOK
<1>6. BprmInv(t)'
  BY <1>1, <1>2, <1>4, ThreadAssumption
  DEF ExecMmap, Goto, Inv, ThreadInv, BprmInv, Credited, DeThreads, Exited, bprmVars
<1>7. WaitInv(t)'
  BY <1>1, <1>2, <1>4
  DEF ExecMmap, Goto, Inv, ThreadInv, BprmInv, WaitInv, Alone, Last, Credited, DeThreads,
      groupVars, signalVars, bprmVars
<1>8. MarkInv(t)'
  BY <1>1, <1>2, <1>4 DEF ExecMmap, Goto, Inv, ThreadInv, MarkInv, Marked, DeThreads, fsVars
<1>9. ReturnInv(t)'
  BY <1>1, <1>2, <1>4
  DEF ExecMmap, Goto, Inv, GroupInv, ThreadInv, BprmInv, ReturnInv, Before, Back, Live, WithMm,
      Exited, signalVars, bprmVars
<1>10. QED
  BY <1>3, <1>5, <1>6, <1>7, <1>8, <1>9, LocalKeeps DEF ThreadInv

LEMMA ExecMmapInterruptedKeeps ==
  ASSUME Inv, NEW t \in Thread, ExecMmapInterrupted(t)
  PROVE  Inv'
<1>1. pc[t] = "exec_mmap" /\ pc' = [pc EXCEPT ![t] = "out_unmark"]
  BY DEF ExecMmapInterrupted, HandlerFails, Goto
<1>2. /\ Kept(t)
      /\ bprm'[t].cred = bprm[t].cred /\ bprm'[t].mm = FALSE
      /\ bprm'[t].unsafe_share = bprm[t].unsafe_share
  BY SetCred, SetMm, SetShare
  DEF ExecMmapInterrupted, HandlerFails, Goto, Inv, TypeOK, Bprm, bprmVars, Kept, Typed
<1>3. Local(t, "out_unmark")
  BY <1>1, <1>2, ThreadAssumption
  DEF ExecMmapInterrupted, HandlerFails, Goto, Inv, ThreadInv, BprmInv, WaitInv, Local,
      Kept, Label, Marked, Exited, Credited, DeThreads, groupVars, signalVars, fsVars,
      bprmVars
<1>4. /\ pc'[t] = "out_unmark" /\ \A u \in Thread \ {t} : pc'[u] = pc[u]
      /\ Live' = Live /\ WithMm' = WithMm /\ \A u \in Thread : Others(u)' = Others(u)
  BY <1>3, LocalSame DEF Inv
<1>5. TypeOK'
  <2>1. in_execve' = {u \in Thread : pc'[u] \in Marked}
    BY <1>1, <1>4
    DEF ExecMmapInterrupted, HandlerFails, Goto, Inv, TypeOK, fsVars, Marked, DeThreads
  <2>2. /\ fatal' \subseteq WithMm /\ woken' \subseteq Asleep' /\ displaced' \subseteq WithMm
        /\ no_return' \subseteq WithMm
    BY <1>1, <1>4
    DEF ExecMmapInterrupted, HandlerFails, Goto, Inv, TypeOK, Live, WithMm, Asleep,
        Exited, DeThreads, signalVars, bprmVars
  <2>3. notify_count' \in -1 .. Cardinality(Thread)
    BY DEF ExecMmapInterrupted, HandlerFails, Goto, Inv, TypeOK, groupVars
  <2>4. /\ pc' \in [Thread -> Label] /\ leader' \in Thread
        /\ cred_guard_mutex' \in Thread \cup {NoThread}
        /\ group_exit_task' \in Thread \cup {NoThread}
    BY <1>1
    DEF ExecMmapInterrupted, HandlerFails, Goto, Inv, TypeOK, Label, Marked, DeThreads,
        groupVars, bprmVars
  <2>5. /\ group_exit' \in BOOLEAN /\ core_state' \in BOOLEAN /\ sighand_shared' \in BOOLEAN
        /\ in_exec' \in BOOLEAN /\ fs_sharer' \in {"none", "user", "exec"}
    BY DEF ExecMmapInterrupted, HandlerFails, Goto, Inv, TypeOK, signalVars, fsVars
  <2>6. group_exit_task' = NoThread => notify_count' = 0
    BY <1>1, ThreadAssumption
    DEF ExecMmapInterrupted, HandlerFails, Goto, Inv, TypeOK, ThreadInv, WaitInv,
        DeThreads, groupVars
  <2>7. QED
    BY <1>2, <1>4, <2>1, <2>2, <2>3, <2>4, <2>5, <2>6 DEF Kept, Typed, TypeOK
<1>6. BprmInv(t)'
  BY <1>1, <1>2, <1>4, ThreadAssumption
  DEF ExecMmapInterrupted, HandlerFails, Goto, Inv, ThreadInv, BprmInv, Credited,
      DeThreads, Exited, bprmVars
<1>7. WaitInv(t)'
  BY <1>1, <1>2, <1>4
  DEF ExecMmapInterrupted, HandlerFails, Goto, Inv, ThreadInv, BprmInv, WaitInv, Alone,
      Last, Credited, DeThreads, groupVars, signalVars, bprmVars
<1>8. MarkInv(t)'
  BY <1>1, <1>2, <1>4
  DEF ExecMmapInterrupted, HandlerFails, Goto, Inv, ThreadInv, MarkInv, Marked, DeThreads,
      fsVars
<1>9. ReturnInv(t)'
  <2>1. Others(t) = {} /\ t \in WithMm
    BY <1>1 DEF Inv, ThreadInv, WaitInv, Alone, Last, Live, WithMm, Exited
  <2>2. ~ Dumping
    BY <1>1, <2>1 DEF Dumping, Others
  <2>3. t \in fatal'
    BY <2>1, <2>2 DEF ExecMmapInterrupted, HandlerFails, Inv, GroupInv
  <2>4. QED
    BY <1>4, <2>3 DEF ReturnInv, Before, Back
<1>10. QED
  BY <1>3, <1>5, <1>6, <1>7, <1>8, <1>9, LocalKeeps DEF ThreadInv

LEMMA InstallExecCredsKeeps ==
  ASSUME Inv, NEW t \in Thread, InstallExecCreds(t)
  PROVE  Inv'
<1>1. pc[t] = "setup_new_exec" /\ pc' = [pc EXCEPT ![t] = "start_thread"]
  BY DEF InstallExecCreds, Goto
<1>2. /\ Kept(t)
      /\ bprm'[t].cred = FALSE /\ bprm'[t].mm = bprm[t].mm
      /\ bprm'[t].unsafe_share = bprm[t].unsafe_share
  BY SetCred, SetMm, SetShare
  DEF InstallExecCreds, Goto, Inv, TypeOK, Bprm, bprmVars, Kept, Typed
<1>3. Local(t, "start_thread")
  BY <1>1, <1>2, ThreadAssumption
  DEF InstallExecCreds, Goto, Inv, ThreadInv, BprmInv, WaitInv, Local, Kept, Label,
      Marked, Exited, Credited, DeThreads, groupVars, signalVars, fsVars, bprmVars
<1>4. /\ pc'[t] = "start_thread" /\ \A u \in Thread \ {t} : pc'[u] = pc[u]
      /\ Live' = Live /\ WithMm' = WithMm /\ \A u \in Thread : Others(u)' = Others(u)
  BY <1>3, LocalSame DEF Inv
<1>5. TypeOK'
  <2>1. in_execve' = {u \in Thread : pc'[u] \in Marked}
    BY <1>1, <1>4 DEF InstallExecCreds, Goto, Inv, TypeOK, fsVars, Marked, DeThreads
  <2>2. /\ fatal' \subseteq WithMm /\ woken' \subseteq Asleep' /\ displaced' \subseteq WithMm
        /\ no_return' \subseteq WithMm
    BY <1>1, <1>4
    DEF InstallExecCreds, Goto, Inv, TypeOK, Live, WithMm, Asleep, Exited, DeThreads,
        signalVars, bprmVars
  <2>3. notify_count' \in -1 .. Cardinality(Thread)
    BY DEF InstallExecCreds, Goto, Inv, TypeOK, groupVars
  <2>4. /\ pc' \in [Thread -> Label] /\ leader' \in Thread
        /\ cred_guard_mutex' \in Thread \cup {NoThread}
        /\ group_exit_task' \in Thread \cup {NoThread}
    BY <1>1
    DEF InstallExecCreds, Goto, Inv, TypeOK, Label, Marked, DeThreads, groupVars, bprmVars
  <2>5. /\ group_exit' \in BOOLEAN /\ core_state' \in BOOLEAN /\ sighand_shared' \in BOOLEAN
        /\ in_exec' \in BOOLEAN /\ fs_sharer' \in {"none", "user", "exec"}
    BY DEF InstallExecCreds, Goto, Inv, TypeOK, signalVars, fsVars
  <2>6. group_exit_task' = NoThread => notify_count' = 0
    BY <1>1, ThreadAssumption
    DEF InstallExecCreds, Goto, Inv, TypeOK, ThreadInv, WaitInv, DeThreads, groupVars
  <2>7. QED
    BY <1>2, <1>4, <2>1, <2>2, <2>3, <2>4, <2>5, <2>6 DEF Kept, Typed, TypeOK
<1>6. BprmInv(t)'
  BY <1>1, <1>2, <1>4, ThreadAssumption
  DEF InstallExecCreds, Goto, Inv, ThreadInv, BprmInv, Credited, DeThreads, Exited, bprmVars
<1>7. WaitInv(t)'
  BY <1>1, <1>2, <1>4
  DEF InstallExecCreds, Goto, Inv, ThreadInv, BprmInv, WaitInv, Alone, Last, Credited,
      DeThreads, groupVars, signalVars, bprmVars
<1>8. MarkInv(t)'
  BY <1>1, <1>2, <1>4
  DEF InstallExecCreds, Goto, Inv, ThreadInv, MarkInv, Marked, DeThreads, fsVars
<1>9. ReturnInv(t)'
  BY <1>1, <1>2, <1>4
  DEF InstallExecCreds, Goto, Inv, GroupInv, ThreadInv, BprmInv, ReturnInv, Before, Back,
      Live, WithMm, Exited, signalVars, bprmVars
<1>10. QED
  BY <1>3, <1>5, <1>6, <1>7, <1>8, <1>9, LocalKeeps DEF ThreadInv

LEMMA LateFailureKeeps ==
  ASSUME Inv, NEW t \in Thread, LateFailure(t)
  PROVE  Inv'
<1>1. pc[t] \in {"setup_new_exec", "start_thread"} /\ pc' = [pc EXCEPT ![t] = "out_unmark"]
  BY DEF LateFailure, HandlerFails, Goto
<1>2. /\ Kept(t)
      /\ bprm'[t].cred = bprm[t].cred /\ bprm'[t].mm = FALSE
      /\ bprm'[t].unsafe_share = bprm[t].unsafe_share
  BY SetCred, SetMm, SetShare
  DEF LateFailure, HandlerFails, Goto, Inv, TypeOK, Bprm, bprmVars, Kept, Typed
<1>3. Local(t, "out_unmark")
  BY <1>1, <1>2, ThreadAssumption
  DEF LateFailure, HandlerFails, Goto, Inv, ThreadInv, BprmInv, WaitInv, Local, Kept,
      Label, Marked, Exited, Credited, DeThreads, groupVars, signalVars, fsVars, bprmVars
<1>4. /\ pc'[t] = "out_unmark" /\ \A u \in Thread \ {t} : pc'[u] = pc[u]
      /\ Live' = Live /\ WithMm' = WithMm /\ \A u \in Thread : Others(u)' = Others(u)
  BY <1>3, LocalSame DEF Inv
<1>5. TypeOK'
  <2>1. in_execve' = {u \in Thread : pc'[u] \in Marked}
    BY <1>1, <1>4
    DEF LateFailure, HandlerFails, Goto, Inv, TypeOK, fsVars, Marked, DeThreads
  <2>2. /\ fatal' \subseteq WithMm /\ woken' \subseteq Asleep' /\ displaced' \subseteq WithMm
        /\ no_return' \subseteq WithMm
    BY <1>1, <1>4
    DEF LateFailure, HandlerFails, Goto, Inv, TypeOK, Live, WithMm, Asleep, Exited,
        DeThreads, signalVars, bprmVars
  <2>3. notify_count' \in -1 .. Cardinality(Thread)
    BY DEF LateFailure, HandlerFails, Goto, Inv, TypeOK, groupVars
  <2>4. /\ pc' \in [Thread -> Label] /\ leader' \in Thread
        /\ cred_guard_mutex' \in Thread \cup {NoThread}
        /\ group_exit_task' \in Thread \cup {NoThread}
    BY <1>1
    DEF LateFailure, HandlerFails, Goto, Inv, TypeOK, Label, Marked, DeThreads, groupVars,
        bprmVars
  <2>5. /\ group_exit' \in BOOLEAN /\ core_state' \in BOOLEAN /\ sighand_shared' \in BOOLEAN
        /\ in_exec' \in BOOLEAN /\ fs_sharer' \in {"none", "user", "exec"}
    BY DEF LateFailure, HandlerFails, Goto, Inv, TypeOK, signalVars, fsVars
  <2>6. group_exit_task' = NoThread => notify_count' = 0
    BY <1>1, ThreadAssumption
    DEF LateFailure, HandlerFails, Goto, Inv, TypeOK, ThreadInv, WaitInv, DeThreads,
        groupVars
  <2>7. QED
    BY <1>2, <1>4, <2>1, <2>2, <2>3, <2>4, <2>5, <2>6 DEF Kept, Typed, TypeOK
<1>6. BprmInv(t)'
  BY <1>1, <1>2, <1>4, ThreadAssumption
  DEF LateFailure, HandlerFails, Goto, Inv, ThreadInv, BprmInv, Credited, DeThreads,
      Exited, bprmVars
<1>7. WaitInv(t)'
  BY <1>1, <1>2, <1>4
  DEF LateFailure, HandlerFails, Goto, Inv, ThreadInv, BprmInv, WaitInv, Alone, Last,
      Credited, DeThreads, groupVars, signalVars, bprmVars
<1>8. MarkInv(t)'
  BY <1>1, <1>2, <1>4
  DEF LateFailure, HandlerFails, Goto, Inv, ThreadInv, MarkInv, Marked, DeThreads, fsVars
<1>9. ReturnInv(t)'
  BY <1>1, <1>2, <1>4
  DEF LateFailure, HandlerFails, Goto, Inv, GroupInv, ThreadInv, BprmInv, ReturnInv,
      Before, Back, Live, WithMm, Exited, signalVars, bprmVars
<1>10. QED
  BY <1>3, <1>5, <1>6, <1>7, <1>8, <1>9, LocalKeeps DEF ThreadInv

LEMMA SucceedKeeps ==
  ASSUME Inv, NEW t \in Thread, Succeed(t)
  PROVE  Inv'
<1>1. pc[t] = "start_thread" /\ pc' = [pc EXCEPT ![t] = "user"]
  BY DEF Succeed, FreeBprm, NoBprm, Goto
<1>2. /\ Kept(t)
      /\ bprm'[t].cred = FALSE /\ bprm'[t].mm = FALSE
      /\ bprm'[t].unsafe_share = FALSE
  BY SetCred, SetMm, SetShare
  DEF Succeed, FreeBprm, NoBprm, Goto, Inv, TypeOK, Bprm, bprmVars, Kept, Typed
<1>3. Local(t, "user")
  BY <1>1, <1>2, ThreadAssumption
  DEF Succeed, FreeBprm, NoBprm, Goto, Inv, ThreadInv, BprmInv, WaitInv, Local, Kept,
      Label, Marked, Exited, Credited, DeThreads, groupVars, signalVars, fsVars, bprmVars
<1>4. /\ pc'[t] = "user" /\ \A u \in Thread \ {t} : pc'[u] = pc[u]
      /\ Live' = Live /\ WithMm' = WithMm /\ \A u \in Thread : Others(u)' = Others(u)
  BY <1>3, LocalSame DEF Inv
<1>5. TypeOK'
  <2>1. in_execve' = {u \in Thread : pc'[u] \in Marked}
    BY <1>1, <1>4
    DEF Succeed, FreeBprm, NoBprm, Goto, Inv, TypeOK, fsVars, Marked, DeThreads
  <2>2. /\ fatal' \subseteq WithMm /\ woken' \subseteq Asleep' /\ displaced' \subseteq WithMm
        /\ no_return' \subseteq WithMm
    BY <1>1, <1>4
    DEF Succeed, FreeBprm, NoBprm, Goto, Inv, TypeOK, Live, WithMm, Asleep, Exited,
        DeThreads, signalVars, bprmVars
  <2>3. notify_count' \in -1 .. Cardinality(Thread)
    BY DEF Succeed, FreeBprm, NoBprm, Goto, Inv, TypeOK, groupVars
  <2>4. /\ pc' \in [Thread -> Label] /\ leader' \in Thread
        /\ cred_guard_mutex' \in Thread \cup {NoThread}
        /\ group_exit_task' \in Thread \cup {NoThread}
    BY <1>1
    DEF Succeed, FreeBprm, NoBprm, Goto, Inv, TypeOK, Label, Marked, DeThreads, groupVars,
        bprmVars
  <2>5. /\ group_exit' \in BOOLEAN /\ core_state' \in BOOLEAN /\ sighand_shared' \in BOOLEAN
        /\ in_exec' \in BOOLEAN /\ fs_sharer' \in {"none", "user", "exec"}
    BY DEF Succeed, FreeBprm, NoBprm, Goto, Inv, TypeOK, signalVars, fsVars
  <2>6. group_exit_task' = NoThread => notify_count' = 0
    BY <1>1, ThreadAssumption
    DEF Succeed, FreeBprm, NoBprm, Goto, Inv, TypeOK, ThreadInv, WaitInv, DeThreads,
        groupVars
  <2>7. QED
    BY <1>2, <1>4, <2>1, <2>2, <2>3, <2>4, <2>5, <2>6 DEF Kept, Typed, TypeOK
<1>6. BprmInv(t)'
  BY <1>1, <1>2, <1>4, ThreadAssumption
  DEF Succeed, FreeBprm, NoBprm, Goto, Inv, ThreadInv, BprmInv, Credited, DeThreads,
      Exited, bprmVars
<1>7. WaitInv(t)'
  BY <1>1, <1>2, <1>4
  DEF Succeed, FreeBprm, NoBprm, Goto, Inv, ThreadInv, BprmInv, WaitInv, Alone, Last,
      Credited, DeThreads, groupVars, signalVars, bprmVars
<1>8. MarkInv(t)'
  BY <1>1, <1>2, <1>4
  DEF Succeed, FreeBprm, NoBprm, Goto, Inv, ThreadInv, MarkInv, Marked, DeThreads, fsVars
<1>9. ReturnInv(t)'
  BY <1>1, <1>2, <1>4
  DEF Succeed, FreeBprm, NoBprm, Goto, Inv, GroupInv, ThreadInv, BprmInv, ReturnInv,
      Before, Back, Live, WithMm, Exited, signalVars, bprmVars
<1>10. QED
  BY <1>3, <1>5, <1>6, <1>7, <1>8, <1>9, LocalKeeps DEF ThreadInv

LEMMA OutUnmarkKeeps ==
  ASSUME Inv, NEW t \in Thread, OutUnmark(t)
  PROVE  Inv'
<1>1. pc[t] = "out_unmark" /\ pc' = [pc EXCEPT ![t] = "out_free"]
  BY DEF OutUnmark, Goto
<1>2. /\ Kept(t)
      /\ bprm'[t].cred = bprm[t].cred /\ bprm'[t].mm = bprm[t].mm
      /\ bprm'[t].unsafe_share = bprm[t].unsafe_share
  BY SetCred, SetMm, SetShare DEF OutUnmark, Goto, Inv, TypeOK, Bprm, bprmVars, Kept, Typed
<1>3. Local(t, "out_free")
  BY <1>1, <1>2, ThreadAssumption
  DEF OutUnmark, Goto, Inv, ThreadInv, BprmInv, WaitInv, Local, Kept, Label, Marked,
      Exited, Credited, DeThreads, groupVars, signalVars, fsVars, bprmVars
<1>4. /\ pc'[t] = "out_free" /\ \A u \in Thread \ {t} : pc'[u] = pc[u]
      /\ Live' = Live /\ WithMm' = WithMm /\ \A u \in Thread : Others(u)' = Others(u)
  BY <1>3, LocalSame DEF Inv
<1>5. TypeOK'
  <2>1. in_execve' = {u \in Thread : pc'[u] \in Marked}
    BY <1>1, <1>4 DEF OutUnmark, Goto, Inv, TypeOK, fsVars, Marked, DeThreads
  <2>2. /\ fatal' \subseteq WithMm /\ woken' \subseteq Asleep' /\ displaced' \subseteq WithMm
        /\ no_return' \subseteq WithMm
    BY <1>1
    DEF OutUnmark, Goto, Inv, TypeOK, Live, WithMm, Asleep, Exited, DeThreads, signalVars,
        bprmVars
  <2>3. notify_count' \in -1 .. Cardinality(Thread)
    BY DEF OutUnmark, Goto, Inv, TypeOK, groupVars
  <2>4. /\ pc' \in [Thread -> Label] /\ leader' \in Thread
        /\ cred_guard_mutex' \in Thread \cup {NoThread}
        /\ group_exit_task' \in Thread \cup {NoThread}
    BY <1>1 DEF OutUnmark, Goto, Inv, TypeOK, Label, Marked, DeThreads, groupVars, bprmVars
  <2>5. /\ group_exit' \in BOOLEAN /\ core_state' \in BOOLEAN /\ sighand_shared' \in BOOLEAN
        /\ in_exec' \in BOOLEAN /\ fs_sharer' \in {"none", "user", "exec"}
    BY DEF OutUnmark, Goto, Inv, TypeOK, signalVars, fsVars
  <2>6. group_exit_task' = NoThread => notify_count' = 0
    BY <1>1, ThreadAssumption
    DEF OutUnmark, Goto, Inv, TypeOK, ThreadInv, WaitInv, DeThreads, groupVars
  <2>7. QED
    BY <1>2, <1>4, <2>1, <2>2, <2>3, <2>4, <2>5, <2>6 DEF Kept, Typed, TypeOK
<1>6. BprmInv(t)'
  BY <1>1, <1>2, <1>4, ThreadAssumption
  DEF OutUnmark, Goto, Inv, ThreadInv, BprmInv, Credited, DeThreads, Exited, bprmVars
<1>7. WaitInv(t)'
  BY <1>1, <1>2, <1>4
  DEF OutUnmark, Goto, Inv, ThreadInv, BprmInv, WaitInv, Alone, Last, Credited, DeThreads,
      groupVars, signalVars, bprmVars
<1>8. MarkInv(t)'
  BY <1>1, <1>2, <1>4
  DEF OutUnmark, Goto, Inv, ThreadInv, MarkInv, Marked, DeThreads, fsVars
<1>9. ReturnInv(t)'
  BY <1>1, <1>2, <1>4
  DEF OutUnmark, Goto, Inv, GroupInv, ThreadInv, BprmInv, ReturnInv, Before, Back, Live, WithMm,
      Exited, signalVars, bprmVars
<1>10. QED
  BY <1>3, <1>5, <1>6, <1>7, <1>8, <1>9, LocalKeeps DEF ThreadInv

LEMMA OutFreeKeeps ==
  ASSUME Inv, NEW t \in Thread, OutFree(t)
  PROVE  Inv'
<1>1. pc[t] = "out_free" /\ pc' = [pc EXCEPT ![t] = "user"]
  BY DEF OutFree, FreeBprm, NoBprm, Goto
<1>2. /\ Kept(t)
      /\ bprm'[t].cred = FALSE /\ bprm'[t].mm = FALSE
      /\ bprm'[t].unsafe_share = FALSE
  BY SetCred, SetMm, SetShare
  DEF OutFree, FreeBprm, NoBprm, Goto, Inv, TypeOK, Bprm, bprmVars, Kept, Typed
<1>3. Local(t, "user")
  BY <1>1, <1>2, ThreadAssumption
  DEF OutFree, FreeBprm, NoBprm, Goto, Inv, ThreadInv, BprmInv, WaitInv, Local, Kept,
      Label, Marked, Exited, Credited, DeThreads, groupVars, signalVars, fsVars, bprmVars
<1>4. /\ pc'[t] = "user" /\ \A u \in Thread \ {t} : pc'[u] = pc[u]
      /\ Live' = Live /\ WithMm' = WithMm /\ \A u \in Thread : Others(u)' = Others(u)
  BY <1>3, LocalSame DEF Inv
<1>5. TypeOK'
  <2>1. in_execve' = {u \in Thread : pc'[u] \in Marked}
    BY <1>1, <1>4
    DEF OutFree, FreeBprm, NoBprm, Goto, Inv, TypeOK, fsVars, Marked, DeThreads
  <2>2. /\ fatal' \subseteq WithMm /\ woken' \subseteq Asleep' /\ displaced' \subseteq WithMm
        /\ no_return' \subseteq WithMm
    BY <1>1, <1>4
    DEF OutFree, FreeBprm, NoBprm, Goto, Inv, TypeOK, Live, WithMm, Asleep, Exited,
        DeThreads, signalVars, bprmVars
  <2>3. notify_count' \in -1 .. Cardinality(Thread)
    BY DEF OutFree, FreeBprm, NoBprm, Goto, Inv, TypeOK, groupVars
  <2>4. /\ pc' \in [Thread -> Label] /\ leader' \in Thread
        /\ cred_guard_mutex' \in Thread \cup {NoThread}
        /\ group_exit_task' \in Thread \cup {NoThread}
    BY <1>1
    DEF OutFree, FreeBprm, NoBprm, Goto, Inv, TypeOK, Label, Marked, DeThreads, groupVars,
        bprmVars
  <2>5. /\ group_exit' \in BOOLEAN /\ core_state' \in BOOLEAN /\ sighand_shared' \in BOOLEAN
        /\ in_exec' \in BOOLEAN /\ fs_sharer' \in {"none", "user", "exec"}
    BY DEF OutFree, FreeBprm, NoBprm, Goto, Inv, TypeOK, signalVars, fsVars
  <2>6. group_exit_task' = NoThread => notify_count' = 0
    BY <1>1, ThreadAssumption
    DEF OutFree, FreeBprm, NoBprm, Goto, Inv, TypeOK, ThreadInv, WaitInv, DeThreads,
        groupVars
  <2>7. QED
    BY <1>2, <1>4, <2>1, <2>2, <2>3, <2>4, <2>5, <2>6 DEF Kept, Typed, TypeOK
<1>6. BprmInv(t)'
  BY <1>1, <1>2, <1>4, ThreadAssumption
  DEF OutFree, FreeBprm, NoBprm, Goto, Inv, ThreadInv, BprmInv, Credited, DeThreads,
      Exited, bprmVars
<1>7. WaitInv(t)'
  BY <1>1, <1>2, <1>4
  DEF OutFree, FreeBprm, NoBprm, Goto, Inv, ThreadInv, BprmInv, WaitInv, Alone, Last,
      Credited, DeThreads, groupVars, signalVars, bprmVars
<1>8. MarkInv(t)'
  BY <1>1, <1>2, <1>4
  DEF OutFree, FreeBprm, NoBprm, Goto, Inv, ThreadInv, MarkInv, Marked, DeThreads, fsVars
<1>9. ReturnInv(t)'
  BY <1>1, <1>2, <1>4
  DEF OutFree, FreeBprm, NoBprm, Goto, Inv, GroupInv, ThreadInv, BprmInv, ReturnInv,
      Before, Back, Live, WithMm, Exited, signalVars, bprmVars
<1>10. QED
  BY <1>3, <1>5, <1>6, <1>7, <1>8, <1>9, LocalKeeps DEF ThreadInv

LEMMA OthersCounted ==
  ASSUME NEW t \in Thread
  PROVE  /\ IsFiniteSet(Others(t)) /\ Cardinality(Others(t)) \in Nat
         /\ Cardinality(Others(t)) <= Cardinality(Thread)
         /\ IsFiniteSet(Others(t) \ {leader})
         /\ Cardinality(Others(t) \ {leader}) =
              Cardinality(Others(t)) - (IF leader \in Others(t) THEN 1 ELSE 0)
         /\ Cardinality(Others(t) \ {leader}) = 0 => Others(t) \subseteq {leader}
<1>1. IsFiniteSet(Others(t)) /\ Cardinality(Others(t)) <= Cardinality(Thread)
  BY ThreadAssumption, FS_Subset DEF Others
<1>2. Cardinality(Others(t)) \in Nat
  BY <1>1, FS_CardinalityType
<1>3. /\ IsFiniteSet(Others(t) \ {leader})
      /\ Cardinality(Others(t) \ {leader}) =
           IF leader \in Others(t) THEN Cardinality(Others(t)) - 1 ELSE Cardinality(Others(t))
  BY <1>1, FS_RemoveElement
<1>4. Cardinality(Others(t) \ {leader}) = 0 => Others(t) \ {leader} = {}
  BY <1>3, FS_EmptySet
<1>5. QED
  BY <1>1, <1>2, <1>3, <1>4, SMT

LEMMA CheckUnsafeExecKeeps ==
  ASSUME Inv, NEW t \in Thread, CheckUnsafeExec(t)
  PROVE  Inv'
<1>1. pc[t] = "check_unsafe" /\ pc' = [pc EXCEPT ![t] = "prepare"]
  BY DEF CheckUnsafeExec, Goto
<1>2. /\ Kept(t)
      /\ bprm'[t].cred = bprm[t].cred /\ bprm'[t].mm = bprm[t].mm
      /\ bprm'[t].unsafe_share = (bprm[t].unsafe_share \/ fs_sharer # "none")
  <2>1. Cardinality(Live) \in Nat
    BY ThreadAssumption, FS_Subset, FS_CardinalityType DEF Live
  <2>2. FsUsers > NFs <=> fs_sharer # "none"
    BY <2>1, SMT DEF FsUsers, NFs
  <2>3. CASE fs_sharer # "none"
    BY <2>2, <2>3, SetShare DEF CheckUnsafeExec, Inv
  <2>4. CASE fs_sharer = "none"
    BY <2>2, <2>4 DEF CheckUnsafeExec, Inv, TypeOK, Bprm, Kept, Typed
  <2>5. QED
    BY <2>3, <2>4
<1>3. Local(t, "prepare")
  BY <1>1, <1>2, ThreadAssumption
  DEF CheckUnsafeExec, Goto, Inv, ThreadInv, BprmInv, WaitInv, Local, Kept, Label, Marked,
      Exited, Credited, DeThreads, groupVars, signalVars, fsVars, bprmVars
<1>4. /\ pc'[t] = "prepare" /\ \A u \in Thread \ {t} : pc'[u] = pc[u]
      /\ Live' = Live /\ WithMm' = WithMm /\ \A u \in Thread : Others(u)' = Others(u)
  BY <1>3, LocalSame DEF Inv
<1>5. TypeOK'
  <2>1. in_execve' = {u \in Thread : pc'[u] \in Marked}
    BY <1>1, <1>4 DEF CheckUnsafeExec, Goto, Inv, TypeOK, fsVars, Marked, DeThreads
  <2>2. /\ fatal' \subseteq WithMm /\ woken' \subseteq Asleep' /\ displaced' \subseteq WithMm
        /\ no_return' \subseteq WithMm
    BY <1>1, <1>4
    DEF CheckUnsafeExec, Goto, Inv, TypeOK, Live, WithMm, Asleep, Exited, DeThreads,
        signalVars, bprmVars
  <2>3. notify_count' \in -1 .. Cardinality(Thread)
    BY DEF CheckUnsafeExec, Goto, Inv, TypeOK, groupVars
  <2>4. /\ pc' \in [Thread -> Label] /\ leader' \in Thread
        /\ cred_guard_mutex' \in Thread \cup {NoThread}
        /\ group_exit_task' \in Thread \cup {NoThread}
    BY <1>1
    DEF CheckUnsafeExec, Goto, Inv, TypeOK, Label, Marked, DeThreads, groupVars, bprmVars
  <2>5. /\ group_exit' \in BOOLEAN /\ core_state' \in BOOLEAN /\ sighand_shared' \in BOOLEAN
        /\ in_exec' \in BOOLEAN /\ fs_sharer' \in {"none", "user", "exec"}
    BY DEF CheckUnsafeExec, Goto, Inv, TypeOK, signalVars, fsVars
  <2>6. group_exit_task' = NoThread => notify_count' = 0
    BY <1>1, ThreadAssumption
    DEF CheckUnsafeExec, Goto, Inv, TypeOK, ThreadInv, WaitInv, DeThreads, groupVars
  <2>7. QED
    BY <1>2, <1>4, <2>1, <2>2, <2>3, <2>4, <2>5, <2>6 DEF Kept, Typed, TypeOK
<1>6. BprmInv(t)'
  BY <1>1, <1>2, <1>4, ThreadAssumption
  DEF CheckUnsafeExec, Goto, Inv, ThreadInv, BprmInv, Credited, DeThreads, Exited, bprmVars
<1>7. WaitInv(t)'
  BY <1>1, <1>2, <1>4
  DEF CheckUnsafeExec, Goto, Inv, ThreadInv, BprmInv, WaitInv, Alone, Last, Credited,
      DeThreads, groupVars, signalVars, bprmVars
<1>8. MarkInv(t)'
  <2>1. Cardinality(Live) \in Nat
    BY ThreadAssumption, FS_Subset, FS_CardinalityType DEF Live
  <2>2. fs_sharer = "none" => ~ (FsUsers > NFs)
    BY <2>1, SMT DEF FsUsers, NFs
  <2>3. QED
    BY <1>2, <1>4, <2>2 DEF CheckUnsafeExec, MarkInv
<1>9. ReturnInv(t)'
  BY <1>1, <1>2, <1>4
  DEF CheckUnsafeExec, Goto, Inv, GroupInv, ThreadInv, BprmInv, ReturnInv, Before, Back,
      Live, WithMm, Exited, signalVars, bprmVars
<1>10. QED
  BY <1>3, <1>5, <1>6, <1>7, <1>8, <1>9, LocalKeeps DEF ThreadInv

LEMMA DeThreadAloneKeeps ==
  ASSUME Inv, NEW t \in Thread, DeThreadAlone(t)
  PROVE  Inv'
<1>1. pc[t] = "load_binary" /\ pc' = [pc EXCEPT ![t] = "no_thread_group"]
  BY DEF DeThreadAlone, FlushOldExec, Goto
<1>2. /\ Kept(t)
      /\ bprm'[t].cred = bprm[t].cred /\ bprm'[t].mm = bprm[t].mm
      /\ bprm'[t].unsafe_share = bprm[t].unsafe_share
  BY SetCred, SetMm, SetShare
  DEF DeThreadAlone, FlushOldExec, Goto, Inv, TypeOK, Bprm, bprmVars, Kept, Typed
<1>3. Local(t, "no_thread_group")
  BY <1>1, <1>2, ThreadAssumption
  DEF DeThreadAlone, FlushOldExec, Goto, Inv, ThreadInv, BprmInv, WaitInv, Local, Kept,
      Label, Marked, Exited, Credited, DeThreads, groupVars, signalVars, fsVars, bprmVars
<1>4. /\ pc'[t] = "no_thread_group" /\ \A u \in Thread \ {t} : pc'[u] = pc[u]
      /\ Live' = Live /\ WithMm' = WithMm /\ \A u \in Thread : Others(u)' = Others(u)
  BY <1>3, LocalSame DEF Inv
<1>5. TypeOK'
  <2>1. in_execve' = {u \in Thread : pc'[u] \in Marked}
    BY <1>1, <1>4
    DEF DeThreadAlone, FlushOldExec, Goto, Inv, TypeOK, fsVars, Marked, DeThreads
  <2>2. /\ fatal' \subseteq WithMm /\ woken' \subseteq Asleep' /\ displaced' \subseteq WithMm
        /\ no_return' \subseteq WithMm
    BY <1>1, <1>4
    DEF DeThreadAlone, FlushOldExec, Goto, Inv, TypeOK, Live, WithMm, Asleep, Exited, DeThreads,
        signalVars, bprmVars
  <2>3. notify_count' \in -1 .. Cardinality(Thread)
    BY DEF DeThreadAlone, FlushOldExec, Goto, Inv, TypeOK, groupVars
  <2>4. /\ pc' \in [Thread -> Label] /\ leader' \in Thread
        /\ cred_guard_mutex' \in Thread \cup {NoThread}
        /\ group_exit_task' \in Thread \cup {NoThread}
    BY <1>1
    DEF DeThreadAlone, FlushOldExec, Goto, Inv, TypeOK, Label, Marked, DeThreads,
        groupVars, bprmVars
  <2>5. /\ group_exit' \in BOOLEAN /\ core_state' \in BOOLEAN /\ sighand_shared' \in BOOLEAN
        /\ in_exec' \in BOOLEAN /\ fs_sharer' \in {"none", "user", "exec"}
    BY DEF DeThreadAlone, FlushOldExec, Goto, Inv, TypeOK, signalVars, fsVars
  <2>6. group_exit_task' = NoThread => notify_count' = 0
    BY <1>1, ThreadAssumption
    DEF DeThreadAlone, FlushOldExec, Goto, Inv, TypeOK, ThreadInv, WaitInv, DeThreads,
        groupVars
  <2>7. QED
    BY <1>2, <1>4, <2>1, <2>2, <2>3, <2>4, <2>5, <2>6 DEF Kept, Typed, TypeOK
<1>6. BprmInv(t)'
  BY <1>1, <1>2, <1>4, ThreadAssumption
  DEF DeThreadAlone, FlushOldExec, Goto, Inv, ThreadInv, BprmInv, Credited, DeThreads,
      Exited, bprmVars
<1>7. WaitInv(t)'
  BY <1>1, <1>2, <1>4
  DEF DeThreadAlone, FlushOldExec, Goto, Inv, ThreadInv, BprmInv, WaitInv, Alone, Last,
      Credited, DeThreads, groupVars, signalVars, bprmVars
<1>8. MarkInv(t)'
  BY <1>1, <1>2, <1>4
  DEF DeThreadAlone, FlushOldExec, Goto, Inv, ThreadInv, MarkInv, Marked, DeThreads,
      fsVars
<1>9. ReturnInv(t)'
  BY <1>1, <1>2, <1>4
  DEF DeThreadAlone, FlushOldExec, Goto, Inv, GroupInv, ThreadInv, BprmInv, ReturnInv,
      Before, Back, Live, WithMm, Exited, signalVars, bprmVars
<1>10. QED
  BY <1>3, <1>5, <1>6, <1>7, <1>8, <1>9, LocalKeeps DEF ThreadInv

LEMMA DeThreadBusyKeeps ==
  ASSUME Inv, NEW t \in Thread, DeThreadBusy(t)
  PROVE  Inv'
<1>1. pc[t] = "load_binary" /\ pc' = [pc EXCEPT ![t] = "out_unmark"]
  BY DEF DeThreadBusy, FlushOldExec, HandlerFails, Goto
<1>2. /\ Kept(t)
      /\ bprm'[t].cred = bprm[t].cred /\ bprm'[t].mm = FALSE
      /\ bprm'[t].unsafe_share = bprm[t].unsafe_share
  BY SetCred, SetMm, SetShare
  DEF DeThreadBusy, FlushOldExec, HandlerFails, Goto, Inv, TypeOK, Bprm, bprmVars, Kept,
      Typed
<1>3. Local(t, "out_unmark")
  BY <1>1, <1>2, ThreadAssumption
  DEF DeThreadBusy, FlushOldExec, HandlerFails, Goto, Inv, ThreadInv, BprmInv, WaitInv,
      Local, Kept, Label, Marked, Exited, Credited, DeThreads, groupVars, signalVars,
      fsVars, bprmVars
<1>4. /\ pc'[t] = "out_unmark" /\ \A u \in Thread \ {t} : pc'[u] = pc[u]
      /\ Live' = Live /\ WithMm' = WithMm /\ \A u \in Thread : Others(u)' = Others(u)
  BY <1>3, LocalSame DEF Inv
<1>5. TypeOK'
  <2>1. in_execve' = {u \in Thread : pc'[u] \in Marked}
    BY <1>1, <1>4
    DEF DeThreadBusy, FlushOldExec, HandlerFails, Goto, Inv, TypeOK, fsVars, Marked,
        DeThreads
  <2>2. /\ fatal' \subseteq WithMm /\ woken' \subseteq Asleep' /\ displaced' \subseteq WithMm
        /\ no_return' \subseteq WithMm
    BY <1>1, <1>4
    DEF DeThreadBusy, FlushOldExec, HandlerFails, Goto, Inv, TypeOK, Live, WithMm, Asleep, Exited,
        DeThreads, signalVars, bprmVars
  <2>3. notify_count' \in -1 .. Cardinality(Thread)
    BY DEF DeThreadBusy, FlushOldExec, HandlerFails, Goto, Inv, TypeOK, groupVars
  <2>4. /\ pc' \in [Thread -> Label] /\ leader' \in Thread
        /\ cred_guard_mutex' \in Thread \cup {NoThread}
        /\ group_exit_task' \in Thread \cup {NoThread}
    BY <1>1
    DEF DeThreadBusy, FlushOldExec, HandlerFails, Goto, Inv, TypeOK, Label, Marked,
        DeThreads, groupVars, bprmVars
  <2>5. /\ group_exit' \in BOOLEAN /\ core_state' \in BOOLEAN /\ sighand_shared' \in BOOLEAN
        /\ in_exec' \in BOOLEAN /\ fs_sharer' \in {"none", "user", "exec"}
    BY DEF DeThreadBusy, FlushOldExec, HandlerFails, Goto, Inv, TypeOK, signalVars, fsVars
  <2>6. group_exit_task' = NoThread => notify_count' = 0
    BY <1>1, ThreadAssumption
    DEF DeThreadBusy, FlushOldExec, HandlerFails, Goto, Inv, TypeOK, ThreadInv, WaitInv,
        DeThreads, groupVars
  <2>7. QED
    BY <1>2, <1>4, <2>1, <2>2, <2>3, <2>4, <2>5, <2>6 DEF Kept, Typed, TypeOK
<1>6. BprmInv(t)'
  BY <1>1, <1>2, <1>4, ThreadAssumption
  DEF DeThreadBusy, FlushOldExec, HandlerFails, Goto, Inv, ThreadInv, BprmInv, Credited,
      DeThreads, Exited, bprmVars
<1>7. WaitInv(t)'
  BY <1>1, <1>2, <1>4
  DEF DeThreadBusy, FlushOldExec, HandlerFails, Goto, Inv, ThreadInv, BprmInv, WaitInv,
      Alone, Last, Credited, DeThreads, groupVars, signalVars, bprmVars
<1>8. MarkInv(t)'
  BY <1>1, <1>2, <1>4
  DEF DeThreadBusy, FlushOldExec, HandlerFails, Goto, Inv, ThreadInv, MarkInv, Marked,
      DeThreads, fsVars
<1>9. ReturnInv(t)'
  <2>1. t \in Live
    BY <1>1 DEF Live, Exited
  <2>2. t \in WithMm /\ (group_exit => t \in fatal)
    BY <1>1, <2>1 DEF Inv, GroupInv, WithMm
  <2>3. ASSUME group_exit_task # NoThread PROVE t \in fatal
    <3>1. PICK u \in Thread : group_exit_task = u
      BY <2>3 DEF Inv, TypeOK
    <3>2. pc[u] \in DeThreads \cup {"coredump"} /\ Others(u) \cap WithMm \subseteq fatal
      BY <3>1 DEF Inv, ThreadInv, WaitInv
    <3>3. t \in Others(u)
      BY <1>1, <3>2 DEF Others, DeThreads
    <3>4. QED
      BY <2>2, <3>2, <3>3
  <2>4. t \in fatal'
    BY <2>2, <2>3 DEF DeThreadBusy, HandlerFails
  <2>5. QED
    BY <1>4, <2>4 DEF ReturnInv, Before, Back
<1>10. QED
  BY <1>3, <1>5, <1>6, <1>7, <1>8, <1>9, LocalKeeps DEF ThreadInv

LEMMA DeThreadZapKeeps ==
  ASSUME Inv, NEW t \in Thread, DeThreadZap(t)
  PROVE  Inv'
<1>1. pc[t] = "load_binary" /\ pc' = [pc EXCEPT ![t] = "wait_threads"]
  BY DEF DeThreadZap, FlushOldExec, Goto
<1>2. /\ Kept(t)
      /\ bprm'[t].cred = bprm[t].cred /\ bprm'[t].mm = bprm[t].mm
      /\ bprm'[t].unsafe_share = bprm[t].unsafe_share
  BY SetCred, SetMm, SetShare
  DEF DeThreadZap, FlushOldExec, Goto, Inv, TypeOK, Bprm, bprmVars, Kept, Typed
<1>3. Local(t, "wait_threads")
  BY <1>1, <1>2, ThreadAssumption
  DEF DeThreadZap, FlushOldExec, Goto, Inv, ThreadInv, BprmInv, WaitInv, Local, Kept,
      Label, Marked, Exited, Credited, DeThreads, groupVars, signalVars, fsVars, bprmVars
<1>4. /\ pc'[t] = "wait_threads" /\ \A u \in Thread \ {t} : pc'[u] = pc[u]
      /\ Live' = Live /\ WithMm' = WithMm /\ \A u \in Thread : Others(u)' = Others(u)
  BY <1>3, LocalSame DEF Inv
<1>5. TypeOK'
  <2>1. in_execve' = {u \in Thread : pc'[u] \in Marked}
    BY <1>1, <1>4
    DEF DeThreadZap, FlushOldExec, Goto, Inv, TypeOK, fsVars, Marked, DeThreads
  <2>2. /\ fatal' \subseteq WithMm /\ woken' \subseteq Asleep' /\ displaced' \subseteq WithMm
        /\ no_return' \subseteq WithMm
    BY <1>1, <1>4
    DEF DeThreadZap, FlushOldExec, Goto, Inv, TypeOK, Live, WithMm, Asleep, Exited,
        DeThreads, signalVars, bprmVars
  <2>3. notify_count' \in -1 .. Cardinality(Thread)
    <3>1. t # leader => leader \in Others(t)
      BY LeaderBeside
    <3>2. Cardinality(Thread) \in Nat
      BY ThreadAssumption, FS_CardinalityType
    <3>3. /\ Cardinality(Others(t)) \in Nat /\ Cardinality(Others(t)) <= Cardinality(Thread)
      BY OthersCounted
    <3>4. QED
      BY <3>1, <3>2, <3>3, SMT DEF DeThreadZap, NotifyCount
  <2>4. /\ pc' \in [Thread -> Label] /\ leader' \in Thread
        /\ cred_guard_mutex' \in Thread \cup {NoThread}
        /\ group_exit_task' \in Thread \cup {NoThread}
    BY <1>1
    DEF DeThreadZap, FlushOldExec, Goto, Inv, TypeOK, Label, Marked, DeThreads, groupVars,
        bprmVars
  <2>5. /\ group_exit' \in BOOLEAN /\ core_state' \in BOOLEAN /\ sighand_shared' \in BOOLEAN
        /\ in_exec' \in BOOLEAN /\ fs_sharer' \in {"none", "user", "exec"}
    BY DEF DeThreadZap, FlushOldExec, Goto, Inv, TypeOK, signalVars, fsVars
  <2>6. group_exit_task' = NoThread => notify_count' = 0
    BY <1>1, ThreadAssumption
    DEF DeThreadZap, FlushOldExec, Goto, Inv, TypeOK, ThreadInv, WaitInv, DeThreads,
        groupVars
  <2>7. QED
    BY <1>2, <1>4, <2>1, <2>2, <2>3, <2>4, <2>5, <2>6 DEF Kept, Typed, TypeOK
<1>6. BprmInv(t)'
  BY <1>1, <1>2, <1>4, ThreadAssumption
  DEF DeThreadZap, FlushOldExec, Goto, Inv, ThreadInv, BprmInv, Credited, DeThreads,
      Exited, bprmVars
<1>7. WaitInv(t)'
  <2>1. t = leader => leader \notin Others(t)
    BY DEF Others
  <2>2. notify_count' = Cardinality(Others(t) \ {leader})
    <3>1. notify_count' = Cardinality(Others(t)) - (IF leader \in Others(t) THEN 1 ELSE 0)
      BY <2>1, LeaderBeside, SMT DEF DeThreadZap, NotifyCount
    <3>2. QED
      BY <3>1, OthersCounted
  <2>3. QED
    BY <1>4, <2>2 DEF DeThreadZap, FlushOldExec, WaitInv, Alone, Last, DeThreads
<1>8. MarkInv(t)'
  BY <1>1, <1>2, <1>4
  DEF DeThreadZap, FlushOldExec, Goto, Inv, ThreadInv, MarkInv, Marked, DeThreads, fsVars
<1>9. ReturnInv(t)'
  BY <1>1, <1>2, <1>4
  DEF DeThreadZap, FlushOldExec, Goto, Inv, GroupInv, ThreadInv, BprmInv, ReturnInv,
      Before, Back, Live, WithMm, Exited, signalVars, bprmVars
<1>10. QED
  BY <1>3, <1>5, <1>6, <1>7, <1>8, <1>9, LocalKeeps DEF ThreadInv

LEMMA WaitThreadsSleepKeeps ==
  ASSUME Inv, NEW t \in Thread, WaitThreads(t), notify_count # 0
  PROVE  Inv'
<1>1. pc[t] = "wait_threads" /\ pc' = [pc EXCEPT ![t] = "sleep_threads"]
  BY DEF WaitThreads, Sleep, GroupExitDone, Goto
<1>2. /\ Kept(t)
      /\ bprm'[t].cred = bprm[t].cred /\ bprm'[t].mm = bprm[t].mm
      /\ bprm'[t].unsafe_share = bprm[t].unsafe_share
  BY SetCred, SetMm, SetShare
  DEF WaitThreads, Sleep, GroupExitDone, Goto, Inv, TypeOK, Bprm, bprmVars, Kept, Typed
<1>3. Local(t, "sleep_threads")
  BY <1>1, <1>2, ThreadAssumption
  DEF WaitThreads, Sleep, GroupExitDone, Goto, Inv, ThreadInv, BprmInv, WaitInv, Local,
      Kept, Label, Marked, Exited, Credited, DeThreads, groupVars, signalVars, fsVars,
      bprmVars
<1>4. /\ pc'[t] = "sleep_threads" /\ \A u \in Thread \ {t} : pc'[u] = pc[u]
      /\ Live' = Live /\ WithMm' = WithMm /\ \A u \in Thread : Others(u)' = Others(u)
  BY <1>3, LocalSame DEF Inv
<1>5. TypeOK'
  <2>1. in_execve' = {u \in Thread : pc'[u] \in Marked}
    BY <1>1, <1>4
    DEF WaitThreads, Sleep, GroupExitDone, Goto, Inv, TypeOK, fsVars, Marked, DeThreads
  <2>2. /\ fatal' \subseteq WithMm /\ woken' \subseteq Asleep' /\ displaced' \subseteq WithMm
        /\ no_return' \subseteq WithMm
    BY <1>1, <1>4
    DEF WaitThreads, Sleep, GroupExitDone, Goto, Inv, TypeOK, Live, WithMm, Asleep,
        Exited, DeThreads, signalVars, bprmVars
  <2>3. notify_count' \in -1 .. Cardinality(Thread)
    BY DEF WaitThreads, Sleep, GroupExitDone, Goto, Inv, TypeOK, groupVars
  <2>4. /\ pc' \in [Thread -> Label] /\ leader' \in Thread
        /\ cred_guard_mutex' \in Thread \cup {NoThread}
        /\ group_exit_task' \in Thread \cup {NoThread}
    BY <1>1
    DEF WaitThreads, Sleep, GroupExitDone, Goto, Inv, TypeOK, Label, Marked, DeThreads,
        groupVars, bprmVars
  <2>5. /\ group_exit' \in BOOLEAN /\ core_state' \in BOOLEAN /\ sighand_shared' \in BOOLEAN
        /\ in_exec' \in BOOLEAN /\ fs_sharer' \in {"none", "user", "exec"}
    BY DEF WaitThreads, Sleep, GroupExitDone, Goto, Inv, TypeOK, signalVars, fsVars
  <2>6. group_exit_task' = NoThread => notify_count' = 0
    BY <1>1, ThreadAssumption
    DEF WaitThreads, Sleep, GroupExitDone, Goto, Inv, TypeOK, ThreadInv, WaitInv,
        DeThreads, groupVars
  <2>7. QED
    BY <1>2, <1>4, <2>1, <2>2, <2>3, <2>4, <2>5, <2>6 DEF Kept, Typed, TypeOK
<1>6. BprmInv(t)'
  BY <1>1, <1>2, <1>4, ThreadAssumption
  DEF WaitThreads, Sleep, GroupExitDone, Goto, Inv, ThreadInv, BprmInv, Credited,
      DeThreads, Exited, bprmVars
<1>7. WaitInv(t)'
  BY <1>1, <1>2, <1>4
  DEF WaitThreads, Sleep, GroupExitDone, Goto, Inv, ThreadInv, BprmInv, WaitInv, Alone,
      Last, Credited, DeThreads, groupVars, signalVars, bprmVars
<1>8. MarkInv(t)'
  BY <1>1, <1>2, <1>4
  DEF WaitThreads, Sleep, GroupExitDone, Goto, Inv, ThreadInv, MarkInv, Marked, DeThreads,
      fsVars
<1>9. ReturnInv(t)'
  BY <1>1, <1>2, <1>4
  DEF WaitThreads, Sleep, GroupExitDone, Goto, Inv, GroupInv, ThreadInv, BprmInv,
      ReturnInv, Before, Back, Live, WithMm, Exited, signalVars, bprmVars
<1>10. QED
  BY <1>3, <1>5, <1>6, <1>7, <1>8, <1>9, LocalKeeps DEF ThreadInv

LEMMA WaitThreadsLeaderKeeps ==
  ASSUME Inv, NEW t \in Thread, WaitThreads(t), notify_count = 0, t # leader
  PROVE  Inv'
<1>1. pc[t] = "wait_threads" /\ pc' = [pc EXCEPT ![t] = "wait_leader"]
  BY DEF WaitThreads, Sleep, GroupExitDone, Goto
<1>2. /\ Kept(t)
      /\ bprm'[t].cred = bprm[t].cred /\ bprm'[t].mm = bprm[t].mm
      /\ bprm'[t].unsafe_share = bprm[t].unsafe_share
  BY SetCred, SetMm, SetShare
  DEF WaitThreads, Sleep, GroupExitDone, Goto, Inv, TypeOK, Bprm, bprmVars, Kept, Typed
<1>3. Local(t, "wait_leader")
  BY <1>1, <1>2, ThreadAssumption
  DEF WaitThreads, Sleep, GroupExitDone, Goto, Inv, ThreadInv, BprmInv, WaitInv, Local,
      Kept, Label, Marked, Exited, Credited, DeThreads, groupVars, signalVars, fsVars,
      bprmVars
<1>4. /\ pc'[t] = "wait_leader" /\ \A u \in Thread \ {t} : pc'[u] = pc[u]
      /\ Live' = Live /\ WithMm' = WithMm /\ \A u \in Thread : Others(u)' = Others(u)
  BY <1>3, LocalSame DEF Inv
<1>5. TypeOK'
  <2>1. in_execve' = {u \in Thread : pc'[u] \in Marked}
    BY <1>1, <1>4
    DEF WaitThreads, Sleep, GroupExitDone, Goto, Inv, TypeOK, fsVars, Marked, DeThreads
  <2>2. /\ fatal' \subseteq WithMm /\ woken' \subseteq Asleep' /\ displaced' \subseteq WithMm
        /\ no_return' \subseteq WithMm
    BY <1>1, <1>4
    DEF WaitThreads, Sleep, GroupExitDone, Goto, Inv, TypeOK, Live, WithMm, Asleep,
        Exited, DeThreads, signalVars, bprmVars
  <2>3. notify_count' \in -1 .. Cardinality(Thread)
    BY DEF WaitThreads, Sleep, GroupExitDone, Goto, Inv, TypeOK, groupVars
  <2>4. /\ pc' \in [Thread -> Label] /\ leader' \in Thread
        /\ cred_guard_mutex' \in Thread \cup {NoThread}
        /\ group_exit_task' \in Thread \cup {NoThread}
    BY <1>1
    DEF WaitThreads, Sleep, GroupExitDone, Goto, Inv, TypeOK, Label, Marked, DeThreads,
        groupVars, bprmVars
  <2>5. /\ group_exit' \in BOOLEAN /\ core_state' \in BOOLEAN /\ sighand_shared' \in BOOLEAN
        /\ in_exec' \in BOOLEAN /\ fs_sharer' \in {"none", "user", "exec"}
    BY DEF WaitThreads, Sleep, GroupExitDone, Goto, Inv, TypeOK, signalVars, fsVars
  <2>6. group_exit_task' = NoThread => notify_count' = 0
    BY <1>1, ThreadAssumption
    DEF WaitThreads, Sleep, GroupExitDone, Goto, Inv, TypeOK, ThreadInv, WaitInv,
        DeThreads, groupVars
  <2>7. QED
    BY <1>2, <1>4, <2>1, <2>2, <2>3, <2>4, <2>5, <2>6 DEF Kept, Typed, TypeOK
<1>6. BprmInv(t)'
  BY <1>1, <1>2, <1>4, ThreadAssumption
  DEF WaitThreads, Sleep, GroupExitDone, Goto, Inv, ThreadInv, BprmInv, Credited,
      DeThreads, Exited, bprmVars
<1>7. WaitInv(t)'
  <2>1. Others(t) \subseteq {leader}
    BY <1>1, OthersCounted DEF Inv, ThreadInv, WaitInv
  <2>2. QED
    BY <1>1, <1>2, <1>4, <2>1
    DEF WaitThreads, Inv, ThreadInv, WaitInv, Alone, Last, DeThreads
<1>8. MarkInv(t)'
  BY <1>1, <1>2, <1>4
  DEF WaitThreads, Sleep, GroupExitDone, Goto, Inv, ThreadInv, MarkInv, Marked, DeThreads,
      fsVars
<1>9. ReturnInv(t)'
  BY <1>1, <1>2, <1>4
  DEF WaitThreads, Sleep, GroupExitDone, Goto, Inv, GroupInv, ThreadInv, BprmInv,
      ReturnInv, Before, Back, Live, WithMm, Exited, signalVars, bprmVars
<1>10. QED
  BY <1>3, <1>5, <1>6, <1>7, <1>8, <1>9, LocalKeeps DEF ThreadInv

LEMMA WaitThreadsDoneKeeps ==
  ASSUME Inv, NEW t \in Thread, WaitThreads(t), notify_count = 0, t = leader
  PROVE  Inv'
<1>1. pc[t] = "wait_threads" /\ pc' = [pc EXCEPT ![t] = "no_thread_group"]
  BY DEF WaitThreads, Sleep, GroupExitDone, Goto
<1>2. /\ Kept(t)
      /\ bprm'[t].cred = bprm[t].cred /\ bprm'[t].mm = bprm[t].mm
      /\ bprm'[t].unsafe_share = bprm[t].unsafe_share
  BY SetCred, SetMm, SetShare
  DEF WaitThreads, Sleep, GroupExitDone, Goto, Inv, TypeOK, Bprm, bprmVars, Kept, Typed
<1>3. Local(t, "no_thread_group")
  BY <1>1, <1>2, ThreadAssumption
  DEF WaitThreads, Sleep, GroupExitDone, Goto, Inv, ThreadInv, BprmInv, WaitInv, Local,
      Kept, Label, Marked, Exited, Credited, DeThreads, groupVars, signalVars, fsVars,
      bprmVars
<1>4. /\ pc'[t] = "no_thread_group" /\ \A u \in Thread \ {t} : pc'[u] = pc[u]
      /\ Live' = Live /\ WithMm' = WithMm /\ \A u \in Thread : Others(u)' = Others(u)
  BY <1>3, LocalSame DEF Inv
<1>5. TypeOK'
  <2>1. in_execve' = {u \in Thread : pc'[u] \in Marked}
    BY <1>1, <1>4
    DEF WaitThreads, Sleep, GroupExitDone, Goto, Inv, TypeOK, fsVars, Marked, DeThreads
  <2>2. /\ fatal' \subseteq WithMm /\ woken' \subseteq Asleep' /\ displaced' \subseteq WithMm
        /\ no_return' \subseteq WithMm
    BY <1>1, <1>4
    DEF WaitThreads, Sleep, GroupExitDone, Goto, Inv, TypeOK, Live, WithMm, Asleep,
        Exited, DeThreads, signalVars, bprmVars
  <2>3. notify_count' \in -1 .. Cardinality(Thread)
    BY DEF WaitThreads, Sleep, GroupExitDone, Goto, Inv, TypeOK, groupVars
  <2>4. /\ pc' \in [Thread -> Label] /\ leader' \in Thread
        /\ cred_guard_mutex' \in Thread \cup {NoThread}
        /\ group_exit_task' \in Thread \cup {NoThread}
    BY <1>1
    DEF WaitThreads, Sleep, GroupExitDone, Goto, Inv, TypeOK, Label, Marked, DeThreads,
        groupVars, bprmVars
  <2>5. /\ group_exit' \in BOOLEAN /\ core_state' \in BOOLEAN /\ sighand_shared' \in BOOLEAN
        /\ in_exec' \in BOOLEAN /\ fs_sharer' \in {"none", "user", "exec"}
    BY DEF WaitThreads, Sleep, GroupExitDone, Goto, Inv, TypeOK, signalVars, fsVars
  <2>6. group_exit_task' = NoThread => notify_count' = 0
    BY <1>1, ThreadAssumption
    DEF WaitThreads, Sleep, GroupExitDone, Goto, Inv, TypeOK, ThreadInv, WaitInv,
        DeThreads, groupVars
  <2>7. QED
    BY <1>2, <1>4, <2>1, <2>2, <2>3, <2>4, <2>5, <2>6 DEF Kept, Typed, TypeOK
<1>6. BprmInv(t)'
  BY <1>1, <1>2, <1>4, ThreadAssumption
  DEF WaitThreads, Sleep, GroupExitDone, Goto, Inv, ThreadInv, BprmInv, Credited,
      DeThreads, Exited, bprmVars
<1>7. WaitInv(t)'
  <2>1. Others(t) = {}
    BY <1>1, OthersCounted DEF Inv, ThreadInv, WaitInv, Others
  <2>2. QED
    BY <1>1, <1>2, <1>4, <2>1, ThreadAssumption
    DEF WaitThreads, GroupExitDone, WaitInv, Alone, Last, DeThreads
<1>8. MarkInv(t)'
  BY <1>1, <1>2, <1>4
  DEF WaitThreads, Sleep, GroupExitDone, Goto, Inv, ThreadInv, MarkInv, Marked, DeThreads,
      fsVars
<1>9. ReturnInv(t)'
  BY <1>1, <1>2, <1>4
  DEF WaitThreads, Sleep, GroupExitDone, Goto, Inv, GroupInv, ThreadInv, BprmInv,
      ReturnInv, Before, Back, Live, WithMm, Exited, signalVars, bprmVars
<1>10. QED
  BY <1>3, <1>5, <1>6, <1>7, <1>8, <1>9, LocalKeeps DEF ThreadInv

LEMMA LeaderStillRunningKeeps ==
  ASSUME Inv, NEW t \in Thread, WaitLeader(t), LeaderStillRunning(t)
  PROVE  Inv'
<1>1. pc[t] = "wait_leader" /\ pc' = [pc EXCEPT ![t] = "sleep_leader"]
  BY DEF WaitLeader, LeaderStillRunning, Sleep, Goto
<1>2. /\ Kept(t)
      /\ bprm'[t].cred = bprm[t].cred /\ bprm'[t].mm = bprm[t].mm
      /\ bprm'[t].unsafe_share = bprm[t].unsafe_share
  BY SetCred, SetMm, SetShare
  DEF WaitLeader, LeaderStillRunning, Sleep, Goto, Inv, TypeOK, Bprm, bprmVars, Kept,
      Typed
<1>3. Local(t, "sleep_leader")
  BY <1>1, <1>2, ThreadAssumption
  DEF WaitLeader, LeaderStillRunning, Sleep, Goto, Inv, ThreadInv, BprmInv, WaitInv,
      Local, Kept, Label, Marked, Exited, Credited, DeThreads, groupVars, signalVars,
      fsVars, bprmVars
<1>4. /\ pc'[t] = "sleep_leader" /\ \A u \in Thread \ {t} : pc'[u] = pc[u]
      /\ Live' = Live /\ WithMm' = WithMm /\ \A u \in Thread : Others(u)' = Others(u)
  BY <1>3, LocalSame DEF Inv
<1>5. TypeOK'
  <2>1. in_execve' = {u \in Thread : pc'[u] \in Marked}
    BY <1>1, <1>4
    DEF WaitLeader, LeaderStillRunning, Sleep, Goto, Inv, TypeOK, fsVars, Marked,
        DeThreads
  <2>2. /\ fatal' \subseteq WithMm /\ woken' \subseteq Asleep' /\ displaced' \subseteq WithMm
        /\ no_return' \subseteq WithMm
    BY <1>1, <1>4
    DEF WaitLeader, LeaderStillRunning, Sleep, Goto, Inv, TypeOK, Live, WithMm, Asleep,
        Exited, DeThreads, signalVars, bprmVars
  <2>3. notify_count' \in -1 .. Cardinality(Thread)
    <3>1. Cardinality(Thread) \in Nat
      BY ThreadAssumption, FS_CardinalityType
    <3>2. -1 \in -1 .. Cardinality(Thread) /\ 0 \in -1 .. Cardinality(Thread)
      BY <3>1, SMT
    <3>3. QED
      BY <3>2 DEF LeaderStillRunning
  <2>4. /\ pc' \in [Thread -> Label] /\ leader' \in Thread
        /\ cred_guard_mutex' \in Thread \cup {NoThread}
        /\ group_exit_task' \in Thread \cup {NoThread}
    BY <1>1
    DEF WaitLeader, LeaderStillRunning, Sleep, Goto, Inv, TypeOK, Label, Marked,
        DeThreads, groupVars, bprmVars
  <2>5. /\ group_exit' \in BOOLEAN /\ core_state' \in BOOLEAN /\ sighand_shared' \in BOOLEAN
        /\ in_exec' \in BOOLEAN /\ fs_sharer' \in {"none", "user", "exec"}
    BY DEF WaitLeader, LeaderStillRunning, Sleep, Goto, Inv, TypeOK, signalVars, fsVars
  <2>6. group_exit_task' = NoThread => notify_count' = 0
    BY <1>1, ThreadAssumption
    DEF WaitLeader, LeaderStillRunning, Sleep, Goto, Inv, TypeOK, ThreadInv, WaitInv,
        DeThreads, groupVars
  <2>7. QED
    BY <1>2, <1>4, <2>1, <2>2, <2>3, <2>4, <2>5, <2>6 DEF Kept, Typed, TypeOK
<1>6. BprmInv(t)'
  BY <1>1, <1>2, <1>4, ThreadAssumption
  DEF WaitLeader, LeaderStillRunning, Sleep, Goto, Inv, ThreadInv, BprmInv, Credited,
      DeThreads, Exited, bprmVars
<1>7. WaitInv(t)'
  <2>1. /\ leader' = leader /\ group_exit_task' = group_exit_task /\ fatal' = fatal
        /\ WaitInv(t)
    BY <1>1
    DEF WaitLeader, LeaderStillRunning, Sleep, Goto, Inv, ThreadInv, groupVars, signalVars
  <2>2. QED
    BY <1>1, <1>4, <2>1 DEF WaitInv, Alone, Last, DeThreads
<1>8. MarkInv(t)'
  BY <1>1, <1>2, <1>4
  DEF WaitLeader, LeaderStillRunning, Sleep, Goto, Inv, ThreadInv, MarkInv, Marked,
      DeThreads, fsVars
<1>9. ReturnInv(t)'
  BY <1>1, <1>2, <1>4
  DEF WaitLeader, LeaderStillRunning, Sleep, Goto, Inv, GroupInv, ThreadInv, BprmInv,
      ReturnInv, Before, Back, Live, WithMm, Exited, signalVars, bprmVars
<1>10. QED
  BY <1>3, <1>5, <1>6, <1>7, <1>8, <1>9, LocalKeeps DEF ThreadInv

LEMMA WakeUpThreadsKeeps ==
  ASSUME Inv, NEW t \in Thread, WakeUp(t), pc[t] = "sleep_threads"
  PROVE  Inv'
<1>1. pc[t] = "sleep_threads" /\ pc' = [pc EXCEPT ![t] = "wait_threads"]
  BY DEF WakeUp, Goto
<1>2. /\ Kept(t)
      /\ bprm'[t].cred = bprm[t].cred /\ bprm'[t].mm = bprm[t].mm
      /\ bprm'[t].unsafe_share = bprm[t].unsafe_share
  BY SetCred, SetMm, SetShare DEF WakeUp, Goto, Inv, TypeOK, Bprm, bprmVars, Kept, Typed
<1>3. Local(t, "wait_threads")
  BY <1>1, <1>2, ThreadAssumption
  DEF WakeUp, Goto, Inv, ThreadInv, BprmInv, WaitInv, Local, Kept, Label, Marked, Exited,
      Credited, DeThreads, groupVars, signalVars, fsVars, bprmVars
<1>4. /\ pc'[t] = "wait_threads" /\ \A u \in Thread \ {t} : pc'[u] = pc[u]
      /\ Live' = Live /\ WithMm' = WithMm /\ \A u \in Thread : Others(u)' = Others(u)
  BY <1>3, LocalSame DEF Inv
<1>5. TypeOK'
  <2>1. in_execve' = {u \in Thread : pc'[u] \in Marked}
    BY <1>1, <1>4 DEF WakeUp, Goto, Inv, TypeOK, fsVars, Marked, DeThreads
  <2>2. /\ fatal' \subseteq WithMm /\ woken' \subseteq Asleep' /\ displaced' \subseteq WithMm
        /\ no_return' \subseteq WithMm
    BY <1>1
    DEF WakeUp, Goto, Inv, TypeOK, Live, WithMm, Asleep, Exited, DeThreads, signalVars,
        bprmVars
  <2>3. notify_count' \in -1 .. Cardinality(Thread)
    BY DEF WakeUp, Goto, Inv, TypeOK, groupVars
  <2>4. /\ pc' \in [Thread -> Label] /\ leader' \in Thread
        /\ cred_guard_mutex' \in Thread \cup {NoThread}
        /\ group_exit_task' \in Thread \cup {NoThread}
    BY <1>1 DEF WakeUp, Goto, Inv, TypeOK, Label, Marked, DeThreads, groupVars, bprmVars
  <2>5. /\ group_exit' \in BOOLEAN /\ core_state' \in BOOLEAN /\ sighand_shared' \in BOOLEAN
        /\ in_exec' \in BOOLEAN /\ fs_sharer' \in {"none", "user", "exec"}
    BY DEF WakeUp, Goto, Inv, TypeOK, signalVars, fsVars
  <2>6. group_exit_task' = NoThread => notify_count' = 0
    BY <1>1, ThreadAssumption
    DEF WakeUp, Goto, Inv, TypeOK, ThreadInv, WaitInv, DeThreads, groupVars
  <2>7. QED
    BY <1>2, <1>4, <2>1, <2>2, <2>3, <2>4, <2>5, <2>6 DEF Kept, Typed, TypeOK
<1>6. BprmInv(t)'
  BY <1>1, <1>2, <1>4, ThreadAssumption
  DEF WakeUp, Goto, Inv, ThreadInv, BprmInv, Credited, DeThreads, Exited, bprmVars
<1>7. WaitInv(t)'
  BY <1>1, <1>2, <1>4
  DEF WakeUp, Goto, Inv, ThreadInv, BprmInv, WaitInv, Alone, Last, Credited, DeThreads,
      groupVars, signalVars, bprmVars
<1>8. MarkInv(t)'
  BY <1>1, <1>2, <1>4 DEF WakeUp, Goto, Inv, ThreadInv, MarkInv, Marked, DeThreads, fsVars
<1>9. ReturnInv(t)'
  BY <1>1, <1>2, <1>4
  DEF WakeUp, Goto, Inv, GroupInv, ThreadInv, BprmInv, ReturnInv, Before, Back, Live, WithMm,
      Exited, signalVars, bprmVars
<1>10. QED
  BY <1>3, <1>5, <1>6, <1>7, <1>8, <1>9, LocalKeeps DEF ThreadInv

LEMMA WakeUpLeaderKeeps ==
  ASSUME Inv, NEW t \in Thread, WakeUp(t), pc[t] = "sleep_leader"
  PROVE  Inv'
<1>1. pc[t] = "sleep_leader" /\ pc' = [pc EXCEPT ![t] = "wait_leader"]
  BY DEF WakeUp, Goto
<1>2. /\ Kept(t)
      /\ bprm'[t].cred = bprm[t].cred /\ bprm'[t].mm = bprm[t].mm
      /\ bprm'[t].unsafe_share = bprm[t].unsafe_share
  BY SetCred, SetMm, SetShare DEF WakeUp, Goto, Inv, TypeOK, Bprm, bprmVars, Kept, Typed
<1>3. Local(t, "wait_leader")
  BY <1>1, <1>2, ThreadAssumption
  DEF WakeUp, Goto, Inv, ThreadInv, BprmInv, WaitInv, Local, Kept, Label, Marked, Exited,
      Credited, DeThreads, groupVars, signalVars, fsVars, bprmVars
<1>4. /\ pc'[t] = "wait_leader" /\ \A u \in Thread \ {t} : pc'[u] = pc[u]
      /\ Live' = Live /\ WithMm' = WithMm /\ \A u \in Thread : Others(u)' = Others(u)
  BY <1>3, LocalSame DEF Inv
<1>5. TypeOK'
  <2>1. in_execve' = {u \in Thread : pc'[u] \in Marked}
    BY <1>1, <1>4 DEF WakeUp, Goto, Inv, TypeOK, fsVars, Marked, DeThreads
  <2>2. /\ fatal' \subseteq WithMm /\ woken' \subseteq Asleep' /\ displaced' \subseteq WithMm
        /\ no_return' \subseteq WithMm
    BY <1>1
    DEF WakeUp, Goto, Inv, TypeOK, Live, WithMm, Asleep, Exited, DeThreads, signalVars,
        bprmVars
  <2>3. notify_count' \in -1 .. Cardinality(Thread)
    BY DEF WakeUp, Goto, Inv, TypeOK, groupVars
  <2>4. /\ pc' \in [Thread -> Label] /\ leader' \in Thread
        /\ cred_guard_mutex' \in Thread \cup {NoThread}
        /\ group_exit_task' \in Thread \cup {NoThread}
    BY <1>1 DEF WakeUp, Goto, Inv, TypeOK, Label, Marked, DeThreads, groupVars, bprmVars
  <2>5. /\ group_exit' \in BOOLEAN /\ core_state' \in BOOLEAN /\ sighand_shared' \in BOOLEAN
        /\ in_exec' \in BOOLEAN /\ fs_sharer' \in {"none", "user", "exec"}
    BY DEF WakeUp, Goto, Inv, TypeOK, signalVars, fsVars
  <2>6. group_exit_task' = NoThread => notify_count' = 0
    BY <1>1, ThreadAssumption
    DEF WakeUp, Goto, Inv, TypeOK, ThreadInv, WaitInv, DeThreads, groupVars
  <2>7. QED
    BY <1>2, <1>4, <2>1, <2>2, <2>3, <2>4, <2>5, <2>6 DEF Kept, Typed, TypeOK
<1>6. BprmInv(t)'
  BY <1>1, <1>2, <1>4, ThreadAssumption
  DEF WakeUp, Goto, Inv, ThreadInv, BprmInv, Credited, DeThreads, Exited, bprmVars
<1>7. WaitInv(t)'
  <2>1. /\ leader' = leader /\ group_exit_task' = group_exit_task /\ fatal' = fatal
        /\ WaitInv(t)
    BY <1>1 DEF WakeUp, Goto, Inv, ThreadInv, groupVars, signalVars
  <2>2. QED
    BY <1>1, <1>4, <2>1 DEF WaitInv, Alone, Last, DeThreads
<1>8. MarkInv(t)'
  BY <1>1, <1>2, <1>4 DEF WakeUp, Goto, Inv, ThreadInv, MarkInv, Marked, DeThreads, fsVars
<1>9. ReturnInv(t)'
  BY <1>1, <1>2, <1>4
  DEF WakeUp, Goto, Inv, GroupInv, ThreadInv, BprmInv, ReturnInv, Before, Back, Live, WithMm,
      Exited, signalVars, bprmVars
<1>10. QED
  BY <1>3, <1>5, <1>6, <1>7, <1>8, <1>9, LocalKeeps DEF ThreadInv

LEMMA KilledKeeps ==
  ASSUME Inv, NEW t \in Thread, Killed(t)
  PROVE  Inv'
<1>1. pc[t] \in {"sleep_threads", "sleep_leader"} /\ pc' = [pc EXCEPT ![t] = "out_unmark"]
  BY DEF Killed, GroupExitDone, HandlerFails, Goto
<1>2. /\ Kept(t)
      /\ bprm'[t].cred = bprm[t].cred /\ bprm'[t].mm = FALSE
      /\ bprm'[t].unsafe_share = bprm[t].unsafe_share
  BY SetCred, SetMm, SetShare
  DEF Killed, GroupExitDone, HandlerFails, Goto, Inv, TypeOK, Bprm, bprmVars, Kept, Typed
<1>3. Local(t, "out_unmark")
  BY <1>1, <1>2, ThreadAssumption
  DEF Killed, GroupExitDone, HandlerFails, Goto, Inv, ThreadInv, BprmInv, WaitInv, Local,
      Kept, Label, Marked, Exited, Credited, DeThreads, groupVars, signalVars, fsVars,
      bprmVars
<1>4. /\ pc'[t] = "out_unmark" /\ \A u \in Thread \ {t} : pc'[u] = pc[u]
      /\ Live' = Live /\ WithMm' = WithMm /\ \A u \in Thread : Others(u)' = Others(u)
  BY <1>3, LocalSame DEF Inv
<1>5. TypeOK'
  <2>1. in_execve' = {u \in Thread : pc'[u] \in Marked}
    BY <1>1, <1>4
    DEF Killed, GroupExitDone, HandlerFails, Goto, Inv, TypeOK, fsVars, Marked, DeThreads
  <2>2. /\ fatal' \subseteq WithMm /\ woken' \subseteq Asleep' /\ displaced' \subseteq WithMm
        /\ no_return' \subseteq WithMm
    BY <1>1, <1>4
    DEF Killed, GroupExitDone, HandlerFails, Goto, Inv, TypeOK, Live, WithMm, Asleep,
        Exited, DeThreads, signalVars, bprmVars
  <2>3. notify_count' \in -1 .. Cardinality(Thread)
    <3>1. Cardinality(Thread) \in Nat
      BY ThreadAssumption, FS_CardinalityType
    <3>2. -1 \in -1 .. Cardinality(Thread) /\ 0 \in -1 .. Cardinality(Thread)
      BY <3>1, SMT
    <3>3. QED
      BY <3>2 DEF Killed, GroupExitDone
  <2>4. /\ pc' \in [Thread -> Label] /\ leader' \in Thread
        /\ cred_guard_mutex' \in Thread \cup {NoThread}
        /\ group_exit_task' \in Thread \cup {NoThread}
    BY <1>1
    DEF Killed, GroupExitDone, HandlerFails, Goto, Inv, TypeOK, Label, Marked, DeThreads,
        groupVars, bprmVars
  <2>5. /\ group_exit' \in BOOLEAN /\ core_state' \in BOOLEAN /\ sighand_shared' \in BOOLEAN
        /\ in_exec' \in BOOLEAN /\ fs_sharer' \in {"none", "user", "exec"}
    BY DEF Killed, GroupExitDone, HandlerFails, Goto, Inv, TypeOK, signalVars, fsVars
  <2>6. group_exit_task' = NoThread => notify_count' = 0
    BY <1>1, ThreadAssumption
    DEF Killed, GroupExitDone, HandlerFails, Goto, Inv, TypeOK, ThreadInv, WaitInv,
        DeThreads, groupVars
  <2>7. QED
    BY <1>2, <1>4, <2>1, <2>2, <2>3, <2>4, <2>5, <2>6 DEF Kept, Typed, TypeOK
<1>6. BprmInv(t)'
  BY <1>1, <1>2, <1>4, ThreadAssumption
  DEF Killed, GroupExitDone, HandlerFails, Goto, Inv, ThreadInv, BprmInv, Credited,
      DeThreads, Exited, bprmVars
<1>7. WaitInv(t)'
  BY <1>1, <1>2, <1>4, ThreadAssumption
  DEF Killed, GroupExitDone, Inv, ThreadInv, BprmInv, WaitInv, Alone, Last, Credited,
      DeThreads
<1>8. MarkInv(t)'
  BY <1>1, <1>2, <1>4
  DEF Killed, GroupExitDone, HandlerFails, Goto, Inv, ThreadInv, MarkInv, Marked,
      DeThreads, fsVars
<1>9. ReturnInv(t)'
  BY <1>1, <1>2, <1>4
  DEF Killed, GroupExitDone, HandlerFails, Goto, Inv, GroupInv, ThreadInv, BprmInv,
      ReturnInv, Before, Back, Live, WithMm, Exited, signalVars, bprmVars
<1>10. QED
  BY <1>3, <1>5, <1>6, <1>7, <1>8, <1>9, LocalKeeps DEF ThreadInv

-----------------------------------------------------------------------------
(* The steps that are not of one thread in execve.                         *)

(* The old leader goes, and nobody but t is left.                          *)
LEMMA BecomeLeaderKeeps ==
  ASSUME Inv, NEW t \in Thread, WaitLeader(t), BecomeLeader(t)
  PROVE  Inv'
<1>1. /\ pc[t] = "wait_leader" /\ pc[leader] = "zombie" /\ leader \in Thread /\ t # leader
      /\ Others(t) \subseteq {leader} /\ group_exit_task = t
  BY DEF BecomeLeader, Inv, TypeOK, ThreadInv, WaitInv, DeThreads
<1>2. /\ pc'[t] = "no_thread_group" /\ \A u \in Thread \ {t} : pc'[u] = "gone"
      /\ pc' \in [Thread -> Label]
  <2>1. \A u \in Thread \ {t, leader} : pc[u] = "gone"
    BY <1>1 DEF Others
  <2>2. QED
    BY <1>1, <2>1 DEF BecomeLeader, Inv, TypeOK, Label, Marked, Exited
<1>3. /\ WithMm' = WithMm /\ Others(t)' = {} /\ Asleep' = Asleep
      /\ ~ Dumping /\ ~ Dumping'
  <2>1. Live = {t}
    <3>1. \A u \in Thread \ {t} : pc[u] \in Exited
      BY <1>1 DEF Others, Exited
    <3>2. pc[t] \notin Exited
      BY <1>1 DEF Exited
    <3>3. QED
      BY <3>1, <3>2 DEF Live
  <2>2. Live' = {t}
    BY <1>2 DEF Live, Exited
  <2>3. Asleep' = Asleep /\ ~ Dumping /\ ~ Dumping'
    <3>1. \A u \in Thread \ {t} : pc[u] \in Exited
      BY <1>1 DEF Others, Exited
    <3>2. QED
      BY <1>1, <1>2, <3>1 DEF Asleep, Dumping, Exited
  <2>4. QED
    BY <1>1, <1>2, <2>1, <2>2, <2>3 DEF Others, WithMm
<1>4. TypeOK'
  <2>1. in_execve' = {u \in Thread : pc'[u] \in Marked}
    <3>1. \A u \in Thread : pc'[u] \in Marked <=> pc[u] \in Marked
      BY <1>1, <1>2 DEF Others, Marked, DeThreads
    <3>2. QED
      BY <3>1 DEF WaitLeader, Inv, TypeOK, fsVars
  <2>2. 0 \in -1 .. Cardinality(Thread)
    BY ThreadAssumption, FS_CardinalityType, SMT
  <2>3. QED
    BY <1>2, <1>3, <2>1, <2>2
    DEF WaitLeader, BecomeLeader, GroupExitDone, Inv, TypeOK, fsVars, bprmVars
<1>5. GroupInv'
  BY <1>2, <1>3 DEF WaitLeader, BecomeLeader, Inv, GroupInv
<1>6. ThreadInv(t)'
  BY <1>1, <1>2, <1>3, ThreadAssumption
  DEF WaitLeader, BecomeLeader, GroupExitDone, Inv, ThreadInv, BprmInv, WaitInv, MarkInv,
      ReturnInv, Alone, Last, Credited, DeThreads, Marked, Before, Back, Exited, fsVars,
      bprmVars
<1>7. ASSUME NEW u \in Thread, u # t PROVE ThreadInv(u)'
  <2>1. pc[u] \in Exited /\ pc'[u] = "gone"
    BY <1>1, <1>2, <1>7 DEF Others, Exited
  <2>2. BprmInv(u)'
    BY <2>1 DEF WaitLeader, Inv, ThreadInv, BprmInv, Credited, DeThreads, Exited, bprmVars
  <2>3. WaitInv(u)'
    BY <2>1, ThreadAssumption
    DEF BecomeLeader, GroupExitDone, WaitInv, Alone, Last, DeThreads
  <2>4. MarkInv(u)'
    BY <2>1 DEF MarkInv, Marked, DeThreads
  <2>5. ReturnInv(u)'
    BY <2>1 DEF ReturnInv, Before, Back
  <2>6. QED
    BY <2>2, <2>3, <2>4, <2>5 DEF ThreadInv
<1>8. QED
  BY <1>4, <1>5, <1>6, <1>7 DEF Inv

(* exit_mm: t has no mm any more, and no signal matters to it.             *)
LEMMA ExitMmKeeps ==
  ASSUME Inv, NEW t \in Thread, ExitMm(t)
  PROVE  Inv'
<1>1. /\ pc[t] = "user" /\ pc'[t] = "exiting" /\ \A u \in Thread \ {t} : pc'[u] = pc[u]
      /\ pc' \in [Thread -> Label]
  BY DEF ExitMm, Goto, Inv, TypeOK, Label
<1>2. /\ UNCHANGED <<groupVars, group_exit, woken, core_state, sighand_shared, fsVars,
                     cred_guard_mutex, bprm, displaced>>
      /\ ~ core_state /\ fatal' = fatal \ {t} /\ no_return' = no_return \ {t}
  BY DEF ExitMm
<1>3. /\ WithMm' = WithMm \ {t} /\ Asleep' = Asleep
      /\ \A u \in Thread : Others(u)' = Others(u)
  BY <1>1 DEF Live, WithMm, Asleep, Others, Exited
<1>4. TypeOK'
  <2>1. in_execve' = {u \in Thread : pc'[u] \in Marked}
    BY <1>1, <1>2 DEF Inv, TypeOK, Marked, DeThreads, fsVars
  <2>2. displaced' \subseteq WithMm'
    BY <1>1, <1>2, <1>3 DEF Inv, TypeOK, ThreadInv, BprmInv
  <2>3. QED
    BY <1>1, <1>2, <1>3, <2>1, <2>2 DEF Inv, TypeOK, groupVars, fsVars
<1>5. GroupInv'
  BY <1>1, <1>2, <1>3 DEF Inv, TypeOK, GroupInv, groupVars
<1>6. ThreadInv(t)'
  <2>1. BprmInv(t)' /\ MarkInv(t)' /\ ReturnInv(t)'
    BY <1>1, <1>2
    DEF Inv, ThreadInv, BprmInv, MarkInv, ReturnInv, Credited, Marked, DeThreads
  <2>2. WaitInv(t)'
    BY <1>1, <1>2 DEF Inv, ThreadInv, WaitInv, Alone, Last, DeThreads, groupVars
  <2>3. QED
    BY <2>1, <2>2 DEF ThreadInv
<1>7. ASSUME NEW u \in Thread, u # t PROVE ThreadInv(u)'
  <2>1. pc'[u] = pc[u] /\ ThreadInv(u)
    BY <1>1, <1>7 DEF Inv
  <2>2. BprmInv(u)' /\ MarkInv(u)' /\ ReturnInv(u)'
    BY <1>2, <1>7, <2>1 DEF ThreadInv, BprmInv, MarkInv, ReturnInv, fsVars
  <2>3. WaitInv(u)'
    BY <1>2, <1>3, <2>1 DEF ThreadInv, WaitInv, Alone, groupVars
  <2>4. QED
    BY <2>2, <2>3 DEF ThreadInv
<1>8. QED
  BY <1>4, <1>5, <1>6, <1>7 DEF Inv

(* do_exit: one thread less, counted if de_thread waits for it.            *)
LEMMA ExitKeeps ==
  ASSUME Inv, NEW t \in Thread, Exit(t)
  PROVE  Inv'
<1>1. /\ pc[t] = "exiting" /\ pc'[t] = (IF t = leader THEN "zombie" ELSE "gone")
      /\ \A u \in Thread \ {t} : pc'[u] = pc[u]
      /\ pc' \in [Thread -> Label]
  BY DEF Exit, Goto, Inv, TypeOK, Label, Exited
<1>2. /\ leader' = leader /\ group_exit_task' = group_exit_task /\ group_exit' = group_exit
      /\ core_state' = core_state /\ sighand_shared' = sighand_shared /\ in_exec' = in_exec
      /\ fs_sharer' = fs_sharer /\ in_execve' = in_execve
      /\ cred_guard_mutex' = cred_guard_mutex /\ bprm' = bprm /\ displaced' = displaced
      /\ fatal' = fatal /\ no_return' = no_return
  BY DEF Exit, fsVars, bprmVars
<1>3. WithMm' = WithMm /\ t \notin WithMm /\ Asleep' = Asleep /\ (Dumping' <=> Dumping)
  BY <1>1 DEF Live, WithMm, Asleep, Dumping, Exited
<1>4. /\ t = leader => \A u \in Thread \ {t} : Others(u)' = Others(u)
      /\ t # leader => \A u \in Thread \ {t} : Others(u)' = Others(u) \ {t} /\ t \in Others(u)
  BY <1>1 DEF Others
<1>5. TypeOK'
  <2>1. in_execve' = {u \in Thread : pc'[u] \in Marked}
    BY <1>1, <1>2 DEF Inv, TypeOK, Marked, DeThreads
  <2>2. woken' \subseteq Asleep
    BY DEF Exit, Inv, TypeOK
  <2>3. displaced \subseteq WithMm /\ fatal \subseteq WithMm /\ no_return \subseteq WithMm
    BY DEF Inv, TypeOK
  <2>4. notify_count' \in -1 .. Cardinality(Thread) /\ (notify_count = 0 => notify_count' = 0)
    <3>1. Cardinality(Thread) \in Nat
      BY ThreadAssumption, FS_CardinalityType
    <3>2. notify_count \in -1 .. Cardinality(Thread)
      BY DEF Inv, TypeOK
    <3>3. QED
      BY <3>1, <3>2, SMT DEF Exit
  <2>5. QED
    BY <1>1, <1>2, <1>3, <2>1, <2>2, <2>3, <2>4 DEF Inv, TypeOK
<1>6. GroupInv'
  BY <1>1, <1>2, <1>3 DEF Inv, TypeOK, GroupInv
<1>7. ThreadInv(t)'
  <2>1. pc'[t] \in Exited /\ t \notin no_return'
    BY <1>1, <1>2, <1>3 DEF Inv, TypeOK, Exited
  <2>2. BprmInv(t)'
    BY <1>1, <1>2, <2>1 DEF Inv, ThreadInv, BprmInv, Credited, DeThreads, Exited
  <2>3. WaitInv(t)'
    BY <1>1, <1>2, <2>1 DEF Inv, ThreadInv, WaitInv, Alone, Last, DeThreads, Exited
  <2>4. MarkInv(t)' /\ ReturnInv(t)'
    BY <2>1 DEF MarkInv, ReturnInv, Marked, DeThreads, Exited
  <2>5. QED
    BY <2>2, <2>3, <2>4 DEF ThreadInv
<1>8. ASSUME NEW u \in Thread, u # t PROVE ThreadInv(u)'
  <2>1. pc'[u] = pc[u] /\ ThreadInv(u) /\ Others(u)' \subseteq Others(u)
    BY <1>1, <1>4, <1>8 DEF Inv
  <2>2. BprmInv(u)' /\ MarkInv(u)' /\ ReturnInv(u)'
    BY <1>2, <1>8, <2>1 DEF ThreadInv, BprmInv, MarkInv, ReturnInv
  <2>3. ASSUME pc[u] \in {"wait_threads", "sleep_threads"}
        PROVE  notify_count' = Cardinality(Others(u)' \ {leader})
    <3>1. notify_count = Cardinality(Others(u) \ {leader})
      BY <2>1, <2>3 DEF ThreadInv, WaitInv
    <3>2. CASE t = leader
      BY <1>4, <1>8, <3>1, <3>2 DEF Exit
    <3>3. CASE t # leader
      <4>1. /\ Others(u)' \ {leader} = (Others(u) \ {leader}) \ {t}
            /\ t \in Others(u) \ {leader}
        BY <1>4, <1>8, <3>3
      <4>2. Cardinality((Others(u) \ {leader}) \ {t}) = Cardinality(Others(u) \ {leader}) - 1
        BY <4>1, OthersCounted, FS_RemoveElement
      <4>3. Cardinality((Others(u) \ {leader}) \ {t}) \in Nat
        BY OthersCounted, FS_RemoveElement, FS_CardinalityType
      <4>4. Cardinality(Others(u) \ {leader}) \in Nat
        BY OthersCounted, FS_CardinalityType
      <4>5. QED
        BY <3>1, <3>3, <4>1, <4>2, <4>3, <4>4, SMT DEF Exit
    <3>4. QED
      BY <3>2, <3>3
  <2>4. notify_count = 0 => notify_count' = 0
    BY SMT DEF Exit
  <2>5. WaitInv(u)'
    BY <1>2, <1>3, <2>1, <2>3, <2>4 DEF ThreadInv, WaitInv, Alone
  <2>6. QED
    BY <2>2, <2>5 DEF ThreadInv
<1>9. QED
  BY <1>5, <1>6, <1>7, <1>8 DEF Inv

(* A new thread: its parent is not about to die, so nobody waits in        *)
(* de_thread for the others to go, and nobody dumps core.                  *)
LEMMA CloneThreadKeeps ==
  ASSUME Inv, NEW t \in Thread, NEW n \in Thread, CloneThread(t, n)
  PROVE  Inv'
<1>1. /\ pc[t] = "user" /\ t \notin fatal /\ pc[n] = "gone" /\ pc'[n] = "user" /\ n # t
      /\ \A u \in Thread \ {n} : pc'[u] = pc[u]
      /\ pc' \in [Thread -> Label]
  BY DEF CloneThread, MayClone, Goto, Inv, TypeOK, Label
<1>2. UNCHANGED <<groupVars, signalVars, sighand_shared, fsVars, bprmVars>>
  BY DEF CloneThread
<1>3. /\ WithMm' = WithMm \cup {n} /\ t \in WithMm /\ n \notin WithMm /\ Asleep' = Asleep
      /\ Dumping' <=> Dumping
  BY <1>1 DEF Live, WithMm, Asleep, Dumping, Exited
<1>4. TypeOK'
  <2>1. in_execve = {u \in Thread : pc'[u] \in Marked}
    BY <1>1 DEF Inv, TypeOK, Marked, DeThreads
  <2>2. QED
    BY <1>1, <1>2, <1>3, <2>1 DEF Inv, TypeOK, groupVars, signalVars, fsVars, bprmVars
<1>5. GroupInv'
  BY <1>1, <1>2, <1>3 DEF Inv, TypeOK, GroupInv, groupVars, signalVars
<1>6. ThreadInv(n)'
  <2>1. n \notin displaced /\ n \notin no_return /\ ThreadInv(n)
    BY <1>3 DEF Inv, TypeOK
  <2>2. BprmInv(n)' /\ MarkInv(n)' /\ ReturnInv(n)'
    BY <1>1, <1>2, <2>1
    DEF ThreadInv, BprmInv, MarkInv, ReturnInv, Credited, Marked, DeThreads, Exited,
        bprmVars
  <2>3. WaitInv(n)'
    BY <1>1, <1>2, <2>1 DEF ThreadInv, WaitInv, Alone, Last, DeThreads, groupVars
  <2>4. QED
    BY <2>2, <2>3 DEF ThreadInv
<1>7. ASSUME NEW u \in Thread, u # n PROVE ThreadInv(u)'
  <2>1. pc'[u] = pc[u] /\ ThreadInv(u)
    BY <1>1, <1>7 DEF Inv
  <2>2. BprmInv(u)' /\ MarkInv(u)' /\ ReturnInv(u)'
    BY <1>2, <2>1
    DEF ThreadInv, BprmInv, MarkInv, ReturnInv, fsVars, signalVars, bprmVars
  <2>3. u # t => t \in Others(u)
    BY <1>1 DEF Others
  <2>4. pc[u] \notin DeThreads \cup {"coredump"} /\ ~ Alone(u)
    BY <1>1, <1>3, <2>1, <2>3 DEF ThreadInv, WaitInv, Alone, Last, DeThreads
  <2>5. WaitInv(u)'
    BY <1>2, <2>1, <2>4 DEF ThreadInv, WaitInv, Alone, DeThreads, groupVars, bprmVars
  <2>6. QED
    BY <2>2, <2>5 DEF ThreadInv
<1>8. QED
  BY <1>4, <1>5, <1>6, <1>7 DEF Inv

(* Only signals are sent, or a dump by another process begins or ends.     *)
LEMMA SignalKeeps ==
  ASSUME Inv, pc' = pc, UNCHANGED <<groupVars, woken, sighand_shared, fsVars, bprmVars>>,
         fatal \subseteq fatal', fatal' \subseteq WithMm,
         group_exit' \in BOOLEAN, group_exit' => WithMm \subseteq fatal',
         core_state' \in BOOLEAN, core_state' => group_exit' \/ Dumping
  PROVE  Inv'
<1>1. /\ WithMm' = WithMm /\ Asleep' = Asleep /\ (Dumping' <=> Dumping)
      /\ \A u \in Thread : Others(u)' = Others(u)
  BY DEF Live, WithMm, Asleep, Dumping, Others
<1>2. TypeOK'
  BY <1>1 DEF Inv, TypeOK, groupVars, fsVars, bprmVars
<1>3. GroupInv'
  BY <1>1 DEF Inv, GroupInv, groupVars
<1>4. ASSUME NEW u \in Thread PROVE ThreadInv(u)'
  <2>1. ThreadInv(u)
    BY DEF Inv
  <2>2. BprmInv(u)' /\ MarkInv(u)' /\ ReturnInv(u)'
    BY <2>1 DEF ThreadInv, BprmInv, MarkInv, ReturnInv, fsVars, bprmVars
  <2>3. WaitInv(u)'
    BY <1>1, <2>1 DEF ThreadInv, WaitInv, Alone, groupVars, bprmVars
  <2>4. QED
    BY <2>2, <2>3 DEF ThreadInv
<1>5. QED
  BY <1>2, <1>3, <1>4 DEF Inv

LEMMA KillKeeps ==
  ASSUME Inv, KillGroup \/ SharerDumps \/ SharerDumpDone
  PROVE  Inv'
<1>1. /\ WithMm \subseteq Thread /\ fatal \subseteq WithMm
      /\ group_exit \in BOOLEAN /\ core_state \in BOOLEAN /\ GroupInv
  BY DEF Inv, TypeOK, WithMm, Live
<1>2. CASE KillGroup
  BY <1>1, <1>2, SignalKeeps DEF KillGroup, GroupInv
<1>3. CASE SharerDumps
  <2>1. fatal' = fatal \cup WithMm
    BY <1>1, <1>3 DEF SharerDumps, ZapProcess
  <2>2. QED
    BY <1>1, <1>3, <2>1, SignalKeeps DEF SharerDumps
<1>4. CASE SharerDumpDone
  BY <1>1, <1>4, SignalKeeps DEF SharerDumpDone, GroupInv
<1>5. QED
  BY <1>2, <1>3, <1>4

(* Nobody waits in de_thread when d begins to dump core.                   *)
LEMMA CoreDumpKeeps ==
  ASSUME Inv, NEW d \in Thread, CoreDump(d)
  PROVE  Inv'
<1>1. /\ pc[d] = "user" /\ pc'[d] = "coredump" /\ \A u \in Thread \ {d} : pc'[u] = pc[u]
      /\ pc' \in [Thread -> Label]
  BY DEF CoreDump, Goto, Inv, TypeOK, Label
<1>2. /\ UNCHANGED <<leader, notify_count, group_exit, woken, sighand_shared, fsVars, bprmVars>>
      /\ ~ group_exit /\ group_exit_task = NoThread /\ group_exit_task' = d
      /\ core_state' = TRUE /\ fatal' = fatal \cup (WithMm \ {d})
  BY DEF CoreDump, ZapProcess, WithMm, Live
<1>3. /\ WithMm' = WithMm /\ Asleep' = Asleep /\ \A u \in Thread : Others(u)' = Others(u)
  BY <1>1 DEF Live, WithMm, Asleep, Others, Exited
<1>4. TypeOK' /\ notify_count' = 0
  <2>1. in_execve' = {u \in Thread : pc'[u] \in Marked}
    BY <1>1, <1>2 DEF Inv, TypeOK, Marked, DeThreads, fsVars
  <2>2. QED
    BY <1>1, <1>2, <1>3, <2>1 DEF Inv, TypeOK, fsVars, bprmVars
<1>5. GroupInv'
  BY <1>1, <1>2, <1>3 DEF Inv, TypeOK, GroupInv, Dumping
<1>6. ThreadInv(d)'
  <2>1. BprmInv(d)' /\ MarkInv(d)' /\ ReturnInv(d)'
    BY <1>1, <1>2
    DEF Inv, ThreadInv, BprmInv, MarkInv, ReturnInv, Credited, Marked, DeThreads, Exited,
        Before, Back, bprmVars
  <2>2. Others(d) \cap WithMm \subseteq fatal'
    BY <1>2 DEF Others
  <2>3. WaitInv(d)'
    BY <1>1, <1>2, <1>3, <1>4, <2>2 DEF WaitInv, Alone, Last, DeThreads
  <2>4. QED
    BY <2>1, <2>3 DEF ThreadInv
<1>7. ASSUME NEW u \in Thread, u # d PROVE ThreadInv(u)'
  <2>1. pc'[u] = pc[u] /\ ThreadInv(u) /\ u # NoThread
    BY <1>1, <1>7, ThreadAssumption DEF Inv
  <2>2. BprmInv(u)' /\ MarkInv(u)' /\ ReturnInv(u)'
    BY <1>2, <2>1 DEF ThreadInv, BprmInv, MarkInv, ReturnInv, fsVars, bprmVars
  <2>3. pc[u] \notin DeThreads \cup {"coredump"}
    BY <1>2, <2>1 DEF ThreadInv, WaitInv
  <2>4. WaitInv(u)'
    BY <1>2, <1>3, <1>7, <2>1, <2>3 DEF ThreadInv, WaitInv, Alone, DeThreads, bprmVars
  <2>5. QED
    BY <2>2, <2>4 DEF ThreadInv
<1>8. QED
  BY <1>4, <1>5, <1>6, <1>7 DEF Inv

(* All the others are killed already when d goes the same way.             *)
LEMMA CoreDumpDoneKeeps ==
  ASSUME Inv, NEW d \in Thread, CoreDumpDone(d)
  PROVE  Inv'
<1>1. /\ pc[d] = "coredump" /\ pc'[d] = "user" /\ \A u \in Thread \ {d} : pc'[u] = pc[u]
      /\ pc' \in [Thread -> Label]
  BY DEF CoreDumpDone, Goto, Inv, TypeOK, Label
<1>2. /\ UNCHANGED <<leader, notify_count, woken, sighand_shared, fsVars, bprmVars>>
      /\ group_exit_task' = NoThread /\ core_state' = FALSE /\ group_exit' = TRUE
      /\ fatal' = fatal \cup {d}
  BY DEF CoreDumpDone
<1>3. /\ WithMm' = WithMm /\ d \in WithMm /\ Asleep' = Asleep
      /\ \A u \in Thread : Others(u)' = Others(u)
  BY <1>1 DEF Live, WithMm, Asleep, Others, Exited
<1>4. /\ group_exit_task = d /\ notify_count = 0 /\ Others(d) \cap WithMm \subseteq fatal
      /\ ThreadInv(d)
  BY <1>1 DEF Inv, ThreadInv, WaitInv
<1>5. TypeOK'
  <2>1. in_execve' = {u \in Thread : pc'[u] \in Marked}
    BY <1>1, <1>2 DEF Inv, TypeOK, Marked, DeThreads, fsVars
  <2>2. QED
    BY <1>1, <1>2, <1>3, <1>4, <2>1 DEF Inv, TypeOK, fsVars, bprmVars
<1>6. GroupInv'
  <2>1. WithMm \subseteq fatal'
    BY <1>2, <1>4 DEF Others, WithMm, Live, Exited
  <2>2. QED
    BY <1>1, <1>2, <1>3, <2>1 DEF Inv, TypeOK, GroupInv
<1>7. ThreadInv(d)'
  <2>1. BprmInv(d)' /\ MarkInv(d)' /\ ReturnInv(d)'
    BY <1>1, <1>2, <1>4
    DEF ThreadInv, BprmInv, MarkInv, ReturnInv, Credited, Marked, DeThreads, Exited, Before,
        bprmVars
  <2>2. WaitInv(d)'
    BY <1>1, <1>2, ThreadAssumption DEF WaitInv, Alone, Last, DeThreads
  <2>3. QED
    BY <2>1, <2>2 DEF ThreadInv
<1>8. ASSUME NEW u \in Thread, u # d PROVE ThreadInv(u)'
  <2>1. pc'[u] = pc[u] /\ ThreadInv(u) /\ u # NoThread
    BY <1>1, <1>8, ThreadAssumption DEF Inv
  <2>2. BprmInv(u)' /\ MarkInv(u)' /\ ReturnInv(u)'
    BY <1>2, <2>1 DEF ThreadInv, BprmInv, MarkInv, ReturnInv, fsVars, bprmVars
  <2>3. pc[u] \notin DeThreads \cup {"coredump"}
    BY <1>4, <1>8, <2>1 DEF ThreadInv, WaitInv
  <2>4. WaitInv(u)'
    BY <1>2, <1>3, <2>1, <2>3 DEF ThreadInv, WaitInv, Alone, DeThreads, bprmVars
  <2>5. QED
    BY <2>2, <2>4 DEF ThreadInv
<1>9. QED
  BY <1>5, <1>6, <1>7, <1>8 DEF Inv

(* Only the sharing of fs and its mark change.                             *)
LEMMA FsKeeps ==
  ASSUME Inv, UNCHANGED SharerVars, in_exec' \in BOOLEAN,
         fs_sharer' \in {"none", "user", "exec"},
         in_exec /\ fs_sharer = "none" => in_exec' /\ fs_sharer' = "none"
  PROVE  Inv'
<1>1. /\ pc' = pc /\ in_execve' = in_execve
      /\ UNCHANGED <<groupVars, signalVars, sighand_shared, bprmVars>>
  BY DEF SharerVars
<1>2. /\ WithMm' = WithMm /\ Asleep' = Asleep /\ (Dumping' <=> Dumping)
      /\ \A u \in Thread : Others(u)' = Others(u)
  BY <1>1 DEF Live, WithMm, Asleep, Dumping, Others
<1>3. TypeOK'
  BY <1>1, <1>2 DEF Inv, TypeOK, groupVars, signalVars, bprmVars
<1>4. GroupInv'
  BY <1>1, <1>2 DEF Inv, GroupInv, groupVars, signalVars
<1>5. ASSUME NEW u \in Thread PROVE ThreadInv(u)'
  <2>1. ThreadInv(u)
    BY DEF Inv
  <2>2. BprmInv(u)' /\ MarkInv(u)' /\ ReturnInv(u)'
    BY <1>1, <2>1 DEF ThreadInv, BprmInv, MarkInv, ReturnInv, signalVars, bprmVars
  <2>3. WaitInv(u)'
    BY <1>1, <1>2, <2>1 DEF ThreadInv, WaitInv, Alone, groupVars, signalVars, bprmVars
  <2>4. QED
    BY <2>2, <2>3 DEF ThreadInv
<1>6. QED
  BY <1>3, <1>4, <1>5 DEF Inv

LEMMA SharingKeeps ==
  ASSUME Inv, SharerLeaves \/ SharerExec \/ SharerExecEnds \/ \E t \in Thread : CloneProcess(t)
  PROVE  Inv'
<1>1. in_exec \in BOOLEAN
  BY DEF Inv, TypeOK
<1>2. CASE SharerLeaves \/ SharerExec \/ SharerExecEnds
  BY <1>1, <1>2, FsKeeps DEF SharerLeaves, SharerExec, SharerExecEnds
<1>3. CASE \E t \in Thread : CloneProcess(t)
  BY <1>1, <1>3, FsKeeps DEF CloneProcess, SharerVars
<1>4. QED
  BY <1>2, <1>3

-----------------------------------------------------------------------------
LEMMA InitHolds == Init => Inv
<1>1. SUFFICES ASSUME Init PROVE Inv
  OBVIOUS
<1>2. TypeOK
  <2>1. 0 \in -1 .. Cardinality(Thread)
    BY ThreadAssumption, FS_CardinalityType, SMT
  <2>2. bprm \in [Thread -> Bprm]
    BY <1>1, SMT DEF Init, Bprm, NoBprm
  <2>3. pc \in [Thread -> Label] /\ {t \in Thread : pc[t] \in Marked} = {}
    BY <1>1 DEF Init, Label, Marked, DeThreads, Exited
  <2>4. leader \in Thread
    BY <1>1 DEF Init, Live
  <2>5. QED
    BY <1>1, <2>1, <2>2, <2>3, <2>4 DEF Init, TypeOK
<1>3. GroupInv
  BY <1>1 DEF Init, GroupInv, Live, Exited
<1>4. ASSUME NEW t \in Thread PROVE ThreadInv(t)
  <2>1. pc[t] \in {"user", "gone"} /\ bprm[t].cred = FALSE /\ t # NoThread
    BY <1>1, ThreadAssumption, SMT DEF Init, NoBprm
  <2>2. BprmInv(t) /\ MarkInv(t) /\ ReturnInv(t)
    BY <1>1, <2>1 DEF Init, BprmInv, MarkInv, ReturnInv, Credited, Marked, DeThreads
  <2>3. WaitInv(t)
    BY <1>1, <2>1 DEF Init, WaitInv, Alone, Last, DeThreads
  <2>4. QED
    BY <2>2, <2>3 DEF ThreadInv
<1>5. QED
  BY <1>2, <1>3, <1>4 DEF Inv

LEMMA ProceedKeeps ==
  ASSUME Inv, NEW t \in Thread, Proceed(t)
  PROVE  Inv'
<1>1. CASE WaitThreads(t)
  BY <1>1, WaitThreadsSleepKeeps, WaitThreadsLeaderKeeps, WaitThreadsDoneKeeps
<1>2. CASE WaitLeader(t)
  BY <1>2, LeaderStillRunningKeeps, BecomeLeaderKeeps DEF WaitLeader
<1>3. CASE WakeUp(t)
  BY <1>3, WakeUpThreadsKeeps, WakeUpLeaderKeeps DEF WakeUp, Goto
<1>4. QED
  BY <1>1, <1>2, <1>3, PrepareBprmCredsKeeps, CoreDumpDoneKeeps, CheckUnsafeExecKeeps,
     PrepareKeeps, PrepareFailsKeeps, LoadBinaryFailsKeeps,
     DeThreadAloneKeeps, DeThreadBusyKeeps, DeThreadZapKeeps, KilledKeeps,
     NoThreadGroupKeeps, NoSighandMemoryKeeps, ExecMmapKeeps, ExecMmapInterruptedKeeps,
     InstallExecCredsKeeps, LateFailureKeeps, SucceedKeeps, OutUnmarkKeeps, OutFreeKeeps
  DEF Proceed

LEMMA StutterKeeps ==
  ASSUME Inv, UNCHANGED vars
  PROVE  Inv'
<1>1. UNCHANGED SharerVars /\ in_exec' = in_exec /\ fs_sharer' = fs_sharer
  BY DEF vars, SharerVars, fsVars
<1>2. QED
  BY <1>1, FsKeeps DEF Inv, TypeOK

LEMMA NextKeeps == Inv /\ [Next]_vars => Inv'
<1>1. SUFFICES ASSUME Inv, [Next]_vars PROVE Inv'
  OBVIOUS
<1>2. CASE UNCHANGED vars
  BY <1>1, <1>2, StutterKeeps
<1>3. CASE Next
  BY <1>1, <1>3, ExecveKeeps, PrepareBprmCredsFailsKeeps, ProceedKeeps, CoreDumpKeeps,
     ExitMmKeeps, ExitKeeps, CloneThreadKeeps, KillKeeps, SharingKeeps
  DEF Next
<1>4. QED
  BY <1>1, <1>2, <1>3

(* Inv holds in every state of execve, whatever the number of threads.     *)
THEOREM Invariant == Spec => []Inv
  BY InitHolds, NextKeeps, PTL DEF Spec

(* However many threads execve, exit and are killed: notify_count stays    *)
(* between -1 and their number and is 0 when no de_thread waits, only live *)
(* threads are killed, woken or marked, and in_execve is set in exactly    *)
(* the threads that do_execveat_common has marked and not yet unmarked.    *)
THEOREM ExecTypeCorrect == Spec => []TypeOK
<1>1. Inv => TypeOK
  BY DEF Inv
<1>2. QED
  BY <1>1, Invariant, PTL

(* cred_guard_mutex is held by exactly the thread whose bprm owns          *)
(* credentials: it is released once on every path of execve.               *)
THEOREM MutexAlwaysFollowsCred == Spec => []MutexFollowsCred
<1>1. Inv => MutexFollowsCred
  BY DEF Inv, ThreadInv, BprmInv, MutexFollowsCred
<1>2. QED
  BY <1>1, Invariant, PTL

(* What check_unsafe_exec found out about fs stays true until the end of   *)
(* the execve.                                                             *)
THEOREM MarkAlwaysKept == Spec => []MarkKept
<1>1. Inv => MarkKept
  BY DEF Inv, ThreadInv, MarkInv, MarkKept
<1>2. QED
  BY <1>1, Invariant, PTL

(* After de_thread the caller is the leader and the last thread.           *)
THEOREM AlwaysAloneAfterDeThread == Spec => []AloneAfterDeThread
<1>1. Inv => AloneAfterDeThread
  BY LeaderBeside DEF Inv, ThreadInv, WaitInv, Alone, Last, AloneAfterDeThread
<1>2. QED
  BY <1>1, Invariant, PTL

(* However many threads there are, group_exit_task points to the one that  *)
(* waits in de_thread or dumps core, and notify_count counts the threads   *)
(* that de_thread waits for.                                               *)
THEOREM DeThreadAlwaysAccounts == Spec => []DeThreadAccounts
<1>1. Inv => DeThreadAccounts
  BY DEF Inv, ThreadInv, WaitInv, DeThreadAccounts
<1>2. QED
  BY <1>1, Invariant, PTL

(* A failure of flush_old_exec is fatal, unless there was no memory for a  *)
(* private sighand_struct.                                                 *)
THEOREM AlwaysFatalUnlessNoMemory == Spec => []FatalUnlessNoMemory
<1>1. Inv => FatalUnlessNoMemory
  BY DEF Inv, TypeOK, Live, WithMm, ThreadInv, ReturnInv, Back, FatalUnlessNoMemory
<1>2. QED
  BY <1>1, Invariant, PTL
=============================================================================
