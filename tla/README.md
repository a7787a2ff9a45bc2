# Verification of the arm64 kernel tree of DomainProcessIsolation-AArch64

The repository is a patched part of Linux 4.19 (`arch/arm64` and `fs`) for the
Armv8-A base platform. This directory holds TLA+ modules that model the parts of
it that are hard to test: what CPUs, threads and processes do to each other. TLC
checks the modules on small instances. TLAPS proves, for every size, the safety of
the ASID allocator and of TLB invalidation beside it, of execve, of the ownership
of the FPSIMD and SVE registers, and that a pipe is a byte stream and loses no
wake-up. Paths below are relative to `src/arm-reference-platforms/linux/`.

## The system

| part | source | modelled |
|---|---|---|
| ASID allocator | `arch/arm64/mm/context.c` | yes: `AsidAllocator` |
| address-space switch, identity map | `asm/mmu_context.h`, `mm/proc.S`, `kernel/suspend.c` | mostly: `AsidAllocator` |
| TLB invalidation | `asm/tlbflush.h`, `asm/mmu.h`, `asm/tlb.h` | by ASID: `TlbShootdown` |
| execve driver | `fs/exec.c`, `fs/binfmt_elf.c`, `fs/fs_struct.c` | control and error paths: `Exec` |
| core dumps | `fs/coredump.c` | stopping the threads, not writing the dump: `Exec` |
| execution level, the `do_execve` patch | `fs/exec.c`, `kernel/process.c`, `kernel/entry.S`, `kernel/ptrace.c`, `kernel/signal.c` | `ExecLevel` |
| FPSIMD and SVE ownership | `kernel/fpsimd.c`, with `process.c`, `signal.c`, `ptrace.c`, `syscall.c`, `entry.S` | mostly: `Fpsimd`, `UserRegs` |
| pipes | `fs/pipe.c`, `vmsplice` in `fs/splice.c`, `pollwake` in `fs/select.c` | mostly: `Pipe`, `ByteStream` |
| SMP bring-up, CPU features, text patching | `kernel/smp.c`, `cpufeature.c`, `insn.c` | no |
| boot, setup, device trees | `kernel/setup.c`, `head.S`, `boot/` | no: runs once, or is data |
| KVM, crypto, lib, BPF JIT, Xen | `kvm/`, `crypto/`, `lib/`, `net/`, `xen/` | no: control outside the tree, or straight-line code |
| VFS core, eventfd, aio, locks | `fs/*.c` | no |
| file systems | `fs/*/` | no: unchanged upstream code, about a million lines |
| set-up scripts | `5518.armplat_1901.py`, `run.sh` | no: download wizard and command line |

`PROJECT.json` lists every part with its files, and every hazard with the
line where it bites and the properties that cover it. A directory is listed there
by one of its files.

How the parts meet: `exec_mmap` and the scheduler call `switch_mm`, which gives
the mm an ASID (`context.c`) and writes TTBR0; whoever changes page tables
invalidates translations by that ASID (`tlbflush.h`); `execve` replaces the mm,
the credentials and the saved registers, which decide the exception level at
which the task continues, and empties the FPSIMD registers. The scheduler, signals,
`fork`, `ptrace` and kernel-mode NEON meet in those registers: each CPU has one
set, and `fpsimd.c` keeps track of whose it holds. Pipes are on their own.

## Modules

**AsidAllocator.** A context id is a pair of generation and index; the index
stands for the ASID (the pair of ASIDs when the kernel is unmapped at EL0), index
0 is reserved. Each CPU has a `pc` through `check_and_switch_context`,
`new_context`, `flush_context`, `cpu_switch_mm` and the two identity-map
routines. Every access another CPU can observe without `cpu_asid_lock` is a step:
the reads and the exchange of the fast path, the `xchg` of `flush_context` on
each CPU, the second read of `mm->context.id` in `cpu_do_switch_mm`. What the
lock protects is one step. Hardware is modelled by what the code relies on:
`ttbr0[c]` is the ASID and the tables in use, `tlb[c]` the cached translations,
one per address space, and `TableWalk` may cache the current one at any time.
`RecycleMm` is the exit of a process and the reuse of its `mm_struct`; nothing is
flushed, as in the code.

**AsidInvariant** states the inductive invariant. The proof that it is one is split
by part of the code: **AsidSwitchProofs** (lemmas used everywhere, the fast path,
publishing an id, writing TTBR0, the identity map, table walks, reuse of an mm),
**AsidAllocatorProofs** (ids given under the lock, the rollover and the search after
it, and the theorems).

**TlbShootdown** extends AsidAllocator with one context that clears a page table
entry and flushes. The store to the page table sits in a buffer until
`dsb(ishst)`; the load of the ASID comes before that barrier in `flush_tlb_mm`,
`flush_tlb_page` and `__flush_tlb_range`, so it may be satisfied first. `stale[c]`
is which of the entries in `tlb[c]` are from before the store became visible;
`raced` is a history variable, the mms that got another ASID between the two.
Stale entries matter where they can answer (`Translates`): on a CPU that has
published the id of the next process and not yet written the reserved TTBR0, an old
entry may still match, but such a CPU makes no access to user memory. It takes two
rollovers during one switch to get there. **TlbShootdownProofs** proves its
invariants on top of those of the allocator.

**Exec** models the threads of one process in `__do_execve_file` with all its
labels, and another process that may share their `fs_struct`. Signals, `clone`
and `do_exit` are not in the tree; they are modelled by what `fs/exec.c` and
`fs/coredump.c` rely on. Sleeping and waking are explicit, so a lost wake-up would
be a lost step. A thread that dumps core (`CoreDump`, `CoreDumpDone`) uses
`group_exit_task`, as `de_thread` does, and waits until the others have stopped; a
process outside the group that has the same mm may dump core too (`SharerDumps`),
which kills the group even while it is in `execve`. An exit is two steps, because
`exit_mm` waits for a dump (`ExitMm`) and a thread counts for `de_thread` until it
is gone (`Exit`). Waiting for `cred_guard_mutex` ends with any signal, not only a
fatal one.
Failures of opening, copying strings, finding a handler and mapping the image are
nondeterministic. The history variable `no_return` remembers who has called
`flush_old_exec`. **ExecProofs** proves its invariants.

**ExecLevel** follows the mode bits of the saved pstate. `do_execve` ORs 4 into
the word at `sp + 0x1C8` for a name with `tmp` at its third character. Whether
that word is the saved pstate depends on the stack frames of the build and of the
caller, so both outcomes are allowed. A write that hits another word of the stack
is not followed further. **ExecLevelProofs** proves its invariant.

**UserRegs** is what user programs are promised: every task has registers of its
own. They change by its own instructions; a system call may give up all but the V
registers; sigreturn, execve and a tracer replace them; a new task starts with the
V registers of its parent.

**Fpsimd** is how the kernel keeps that promise. The registers of a CPU are a
pair: what the V registers hold, and what the rest of the Z registers holds. A
task has a `pc` (user mode, kernel, system call, and a label inside each routine
that touches the registers in several steps), its two flags (`foreign` for
TIF_FOREIGN_FPSTATE, `tif_sve`), its memory (`fpsimd_state`, `sve_state`, the
length `sve_buf` that was allocated, `sve_vl`) and `fpsimd_cpu`; a CPU has
`last_state`, its registers, its vector length (`zcr`), the SVE trap (`cpacr`) and
`neon_busy`. A section with softirqs disabled is one step. Between two steps of a
task a softirq may use NEON, the CPU may switch, and the task may migrate.
`rt_sigreturn`, the signal frame, `do_sve_acc` and `sve_set_vector_length` are
several steps, because they sleep or run with preemption on. In
`restore_sve_fpsimd_context` these are the giving up of the record, the setting of
TIF_FOREIGN_FPSTATE, `sve_alloc`, the copy, which may stop half way, the setting of
TIF_SVE and the update of the V registers; in `fpsimd_signal_preserve_current_state`
they are `fpsimd_save` and `sve_to_fpsimd`. A `task_struct` may
be freed and used again while a CPU still names it. The mapping to `UserRegs` is
`View` (the registers of a task: on its CPU if they are live there, else in
memory) and `Where`.

**FpsimdProofs** states the inductive invariant and proves it, one lemma per
action, derives the invariants that the runs check and proves the refinement.

**ByteStream** is what a pipe promises: bytes come out in the order they went in,
each once, and a write of at most a page is not mixed with another. The last is
promised to the processes in `Whole`, those that call `write`.

**Pipe** is one pipe with processes that read, write, vmsplice in either direction,
poll, resize and close. A step is one round of a loop under `pipe->mutex`; taking
the mutex, falling asleep in `pipe_wait`, and the wake-up after the mutex is
dropped are steps of their own. `wait` is who is on the queue and has not been
woken. A vmsplice adds the pages of its caller: a piece may be shorter than a page
and begin anywhere in it, as the iovec has it, so `SplicePage` chooses length and
offset, and even a small vmsplice may be mixed with other writes. Copies and
allocations may fail and signals may come at any time. `untold`
is a history variable: it holds those who sleep through a change of which the code
tells nobody. Such changes are more room from `F_SETPIPE_SZ`, and the departure of
a writer for whose sake a reader sleeps when an allocation or a vmsplice fails.
Closing and resizing take and drop the mutex within one step.

**PipeProofs** proves that no wake-up is lost and that the mutex excludes.
**PipeStreamProofs** proves that Pipe implements ByteStream.

`MC*` modules and `.cfg` files give the constants their values.

## Runs

| run | shows |
|---|---|
| `asid_allocator` | isolation of TLB entries, unique ASIDs, recorded ids right, search after rollover succeeds, a running process keeps its ASID; the inductive invariant |
| `asid_idmap` | the same isolation with a CPU on the identity map; every switch completes |
| `tlb_shootdown` | a flush leaves no stale entry unless the ASID changed between load and barrier |
| `tlb_shootdown_stale` | violation: the stale entry when it did |
| `exec` | mutex, fs mark, `group_exit_task` and thread count, fatal signals on every path, with core dumps; every execve and every dump ends |
| `exec_level` | executed programs start at EL0 |
| `exec_level_bad_mode` | violation: "the impossible case in the exception vector" |
| `fpsimd` | a task that uses everything and migrates between two CPUs sees its own registers (refinement of `UserRegs`); saves, the SVE trap and signal frames are right; nothing is saved over what sigreturn loads |
| `fpsimd_trace` | the same for a traced task and its tracer, which exits and whose `task_struct` is used again |
| `fpsimd_short` | violation: "a short copyin leaves trailing registers unmodified" |
| `pipe_order` | a pipe is a byte stream (refinement of `ByteStream`) across wrap-around, merging, vmsplice, resizing and failures; no wake-up is lost |
| `pipe_wakeups` | with signals, O_NONBLOCK and pollers: no wake-up is lost, syscall merging ends, a hang-up ends every call |

Bounds. Two CPUs and four indices (three usable) are the fewest `asids_init` accepts
without its warning, so every allocation pressure occurs. `MaxGeneration` stops new
switches at generation 4 (three rollovers, so an id can be carried over one rollover
after another), 3 or 2. So `SwitchCompletes` shows that no switch hangs on the lock,
not that one is served while others switch for ever: that is the fairness of the
lock, which is assumed. `Affinity` says which processes a CPU is asked to run:
`Shared` has a process with threads on both CPUs and a second one that comes and
goes on one of them, `Separate` gives the CPUs different processes and lets one use
the identity map. `Mortal` are the processes that may exit, `IdmapCpus` the CPUs
that use the identity map, `Unmapped` the mms whose tables change. Exec runs three
threads: one leader, one caller and one more, so that a thread waits for two others,
dumps core beside two others, or is killed by a dump elsewhere. It has no other
bound. ExecLevel has three tasks.

Fpsimd has registers with two contents, so that any mix of two tasks' registers or
of old and new ones is seen, and two vector lengths. One task on two CPUs covers
migration back to a CPU that still holds old registers; two tasks on one CPU cover
replaced registers, `fork` and reuse of a `task_struct`. What the kernel leaves in
the registers (`Noise`) differs from zero everywhere. Two tasks on two CPUs are left
to the proofs. In `pipe_order` Pipe has pages of three bytes: a write of two is
small and can be torn, by merging only a part of it or by another process; a write
of four fills a page and leaves one byte that the next write can merge with, and a
vmsplice of two goes in one piece or two, at any offset. In `pipe_wakeups` pages
have two bytes. One or two buffers make the ring wrap around and fill up at once.
`pipe_wakeups` does not resize. Nothing bounds how often a process calls.

Deadlock is checked in the runs of the allocator, the shootdown and Fpsimd. A
process may exit, a panic stops the system and everybody may close a pipe, so the
runs of Exec, ExecLevel and Pipe do not check it; `ExecEnds` and `HangupEndsCalls`
do that work.

Symmetry of CPUs is used in `fpsimd`, which checks safety only.

Fairness. A CPU inside a routine keeps executing (weak fairness of its steps),
since these run with preemption or interrupts off. `cpu_asid_lock` is a queued
spinlock, which serves waiters in order: strong fairness of taking it. A thread
in the kernel keeps going, a killed thread exits on its way to user mode, a dump
ends once everybody has stopped for it, and a mutex hands itself to its waiters: the
fairness of `Exec!FairSpec`. Nothing obliges a signal to come: a wait for the mutex
that a signal could end must end without one (`MutexWaitEnds`). In Pipe a
process in a call keeps going (weak fairness of `Proceed`), and `pipe->mutex` goes
to whoever has waited long enough (strong fairness of `Lock`), since a kernel mutex
turns to hand-off when a waiter is passed over. Nothing obliges a task to call
anything. `Fpsimd!FairSpec` (kernel sections end, tasks return to user mode) only
serves `fpsimd_short`.

## Findings

1. `flush_tlb_mm` loads the ASID before the barrier. If the mm gets another ASID
   in between, a CPU can keep a translation of the unmapped page under that
   ASID (`asm/tlbflush.h:129`, `NoStaleHit`). In the shortest trace it is the first
   ASID of the mm: the load sees a context id of 0. A mm that has one already gets
   another through a rollover, which takes a longer trace.
2. The comment on `bad_mode` calls its case impossible (`kernel/traps.c:597`). A
   failed native exec of a `tmp` file returns with the mode bit set, and the next
   exception is that case (`BadModeImpossible`). `LevelFromFailedExec` shows
   there is no other way to it: `start_thread` clears the bit on success.
3. `sve_set` prepares the old registers "so that a short copyin leaves trailing
   registers unmodified" (`kernel/ptrace.c:922`). For a task with TIF_SVE,
   `sve_alloc` has cleared them by then (`ShortCopyinKeeps`).

Met while modelling, without a run of their own:

- The comment on `ASID()` (`asm/mmu.h:35`) says it cannot race with an ASID
  change; finding 1 rests on one.
- The comment on `flush_old_exec` (`fs/exec.c:1248`) says no failure is seen by
  user space; `-ENOMEM` for a private `sighand_struct` is. `FatalUnlessNoMemory`
  shows that it is the only one.
- `fork` clears TIF_SVE of the child and takes the V registers in memory to be up
  to date (`kernel/process.c:324`). They are not when a tracer has written SVE
  registers at the entry of that system call. The constant `TraceCalls` allows
  such stops; with it `TasksOwnTheirRegisters` does not hold, so the runs and the
  refinement theorem are about tracers that stop tasks at signals.
- `sve_alloc` clears a buffer by the vector length of the caller, not of the task
  whose buffer it is (`kernel/fpsimd.c:435`). `Fpsimd!sve_alloc` has both lengths.
- The comment in `pipe_write` (`fs/pipe.c:423`) says readers that sleep for the
  sake of a writer lock up unless woken, and asks whether that is true. It is:
  the mutant of `MergingEnds` drops that wake-up. The failure of `alloc_page` just
  above it and a failing vmsplice do not wake them (`untold`).

## Proofs

`AsidAllocatorProofs` proves, for any number of CPUs, indices, processes and
generations, `TypeOK`, `TlbIsolation`, `CommittedIdHeld`, `RunningAsidsUnique`,
`RolloverFindsIndex` and the action property `RunningAsidStable`.

Assumptions: there is a CPU; `NumUserAsids - 1 > NumCpus`, the condition of the
warning in `asids_init`; the named page tables are distinct. `BoundAssumption`
only gives the bounds of the instances their types.

None of these properties is inductive. `IndInv` adds five things.
`ControlInv`: who holds the lock and what TTBR0 holds at each label. `IdInv`: ids
are of past or current generations, unique, and current ones have their bit set.
`HeldInv`: an active id is of the latest generation; reserved ids keep their bit,
and one index is reserved under one id; while `flush_context` runs, the map is
exactly the set of reserved indices of the CPUs visited. `CallInv`: what the
locals of a call in progress still say about the shared state; here is why the
unlocked exchange is safe: a CPU whose active id is not zero has not been visited
by a rollover, so the id it is about to publish is still current. `TlbInv`: on a
CPU with no flush queued, a cached entry keeps its index away from every other
process that may run under it without a rollover; on any CPU the index of the
process on record is clean. There is one lemma per action, and `NextInv` combines
them. `RolloverFindsIndex` needs a counting argument (`FreeAfterRollover`): the
map holds at most one index per CPU visited.

`TlbShootdownProofs` proves, under the same assumptions, `ShootdownTypeOK`,
`StaleHitsOnlyIfRaced` and, for the composition, `TlbIsolation`. Every step of the
allocator keeps `IndInv` here as it does there; the invalidation keeps it because
it only removes entries. `StaleInv` is added: a stale entry either awaits its flush,
or belongs to an mm in `raced`, or is out of reach. Out of reach means that its
process has another index now, or that the CPU has a flush queued and is not on
record for that process. The first is not for ever, since the process may get the
old index back; but an index comes back only after a rollover, which queues a
flush on every CPU, and then the second holds. A CPU leaves the second when it
flushes, and then the entry is gone.

`FpsimdProofs` proves, for any sets of tasks, CPUs, register contents and vector
lengths, `TypeOK`, `SavesReachTheTask`, `SveTrapFollowsFlag`, `FrameHoldsRegisters`
and the action property `NewDataKept`, and, unless tracers stop tasks at system
calls, the refinement `TasksOwnTheirRegisters`. The invariant `FpInv` says when the
record of whose registers a CPU holds may be trusted. `PairInv`: if both
`last_state` of a CPU and `fpsimd_cpu` of a task name the other, the CPU holds what
the task has in memory, with its trap and its vector length, unless the task is
running with its registers live; one of the two alone says nothing, which is why the
test in `fpsimd_thread_switch` needs both. `TaskInv`: what each label says of a
task's memory, for example that between `fpsimd_flush_task_state` and the setting of
TIF_FOREIGN_FPSTATE in sigreturn no CPU is on record for the task. `NewDataKept`
follows from it: without a record `fpsimd_thread_switch` does not clear the flag,
and with the flag `fpsimd_save` writes nothing. `Placed`: a task runs on one CPU. An
action changes one task and one CPU, so each lemma has a part about that pair and
frame lemmas (`OnlyTask`, `OnlyCpu`) do the rest; `fork`, switches and tracers take
more. The refinement adds `CallsPlain`, no SVE state in a system call, and maps each
action to one of `UserRegs` or to no change.

`PipeProofs` proves, for any number of processes of every kind and any sizes,
`WakeupComing` and that two processes are never between `__pipe_lock` and
`__pipe_unlock`. `WakeInv` adds that the holder of the mutex is known from where
processes are, that only those who sleep or poll are on the queue, that `readers`
and `writers` count the open ends, and that a vmsplice that has added a page and
goes on has room. The argument: whoever makes a change that others wait for holds
`do_wakeup` until it has woken them, and whoever falls asleep has looked under the
mutex, or, for a poller, after it joined the queue.

`PipeStreamProofs` proves, for any page size, ring sizes, data and processes,
`TypeOK` and the refinement `BytesInOrder`. `PipeInv` says who holds the mutex and
that `waiting_writers` counts the writers asleep (`PlacesOK`), what a call has left
to do (`CallsOK`), and how the ring lies (`RingOK`): the used buffers are `nrbufs`
in a row from `curbuf` on, none empty, none beyond its page, and all others are
empty. `CallsOK` is what keeps small writes whole: a write of at most a page that
still has bytes to send has sent none. It says so of `write` only. The contents of
the pipe are the used buffers one after another (`Flat(Pages)`). The lemmas
`FlatAppend`, `FlatTail`, `FlatFirst` and `FlatLast` say what a new page, a released
page, a read from the first page and a merge into the last one do to them. `Flat` is
a recursive function; that there is such a function, and one only, is proved by
taking the least place where two would differ (`LeastNatural`). `RingCopied` shows
that a resized ring has the same pages, wrapped around or not. Then each action is a
read, a write or the begin or end of a call of `ByteStream`, or no change.
`PipeAssumption` is all that is assumed: pages and rings have room for something,
there are finitely many processes, each plays one part, and what is written or asked
for is not empty.

`ExecProofs` proves, for any finite number of threads, `TypeOK`, `MutexFollowsCred`,
`MarkKept`, `AloneAfterDeThread`, `DeThreadAccounts` and `FatalUnlessNoMemory`.
`Inv` adds what each label says of the thread that is there. `BprmInv`: at which
labels the bprm owns credentials and an mm. `WaitInv`: a thread that waits counts
exactly the others but the leader; whoever is beside a thread in `de_thread` is
about to die, so nobody clones a new thread that the count would miss; a thread that
dumps core is the one in `group_exit_task`, so it and a thread in `de_thread`
exclude each other; after `de_thread`, and after a failure that came too late to
keep the credentials, nobody is left. `MarkInv`: a thread that found `fs` unshared
has `in_exec` set, so no process begins to share it. `ReturnInv`: a thread that
comes back after `flush_old_exec` began is dying, unless memory was short.
`GroupInv`: a group that exits has a fatal signal for all. A thread's step leaves
the labels of the others alone (`LocalKeeps`); `BecomeLeader`, the dumps, `Exit` and
`CloneThread` change who is beside whom and have proofs of their own. Exit counts:
one thread less in `Others(u) \ {leader}` is one less in `notify_count`.

`ExecLevelProofs` proves `TypeOK` and `LevelFromFailedExec` for any set of tasks.
Its invariant follows the mode from the word that `do_execve` writes to the
exception return: in the exec of a `tmp` file the saved mode may be EL1t, everywhere
else it is EL0t or the task is on record as back from such an exec.

Only model-checked: the liveness properties (`SwitchCompletes`, `ExecEnds`,
`MergingEnds`, `HangupEndsCalls`), which rest on fairness and are out of the
prover's reach. Every invariant, action property and refinement that a passing run
checks is also a theorem.

## Not modelled

Address spaces: software PAN (`update_saved_ttbr0`), shared TLBs (CnP),
`cpu_replace_ttbr1`, kernel-range and page-table-level flushes, weak memory inside
the allocator beyond what the code orders with its relaxed atomics and the lock,
the detection of the ASID width at boot. The 64-bit generation does not wrap in
the model; the code would need 2^48 rollovers or more for that. In exec: argument
pages, recursion of script handlers, ptrace, several processes calling exec on
each other. In ExecLevel: 32-bit tasks and the interrupt mask bits.

In Fpsimd: FPSR and FPCR, which go with the V registers; the calls of EFI firmware
(`__efi_fpsimd_begin`), which may come with interrupts off; guests of KVM; the
probing of vector lengths at boot; the inheritance flags of `prctl`, so that any
supported length may follow an execve. A task that `fpsimd_save` would kill for a
wrong vector length is not killed in the model; `SavesReachTheTask` shows that
there is none.

In Pipe: packets (O_DIRECT), opening of FIFOs, the limits of pages per user, SIGIO,
`tee`, and splicing between pipes or to files. A failing `F_SETPIPE_SZ` changes
nothing and is no step. User pages that were given to the pipe by vmsplice and
change afterwards are taken not to.

The rest of the tree is outside this development, and it is nearly all of it: 1.3
million lines of file systems, drivers' glue, tables and boot code that are
unchanged from upstream. The modules stay with the code that the repository
patches (`fs/exec.c`, `kernel/process.c`) and with the parts it shares state with.

## What could follow

1. The software PAN variant of the switch, which caches the ASID in `thread_info`.
2. SMP bring-up (`__cpu_up`, `secondary_start_kernel`, `cpu_die`) and stop-machine
   text patching (`aarch64_insn_patch_text`).
3. The descriptor table (`fs/file.c`: `__alloc_fd`, `dup2`, `fd_install`), eventfd,
   aio context teardown, POSIX locks.
4. Break-before-make in `mm/hugetlbpage.c` and `pageattr.c`, composed with
   TlbShootdown.
