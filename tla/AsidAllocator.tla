--------------------------- MODULE AsidAllocator ---------------------------
(***************************************************************************)
(* The arm64 ASID allocator (arch/arm64/mm/context.c) and the routines of  *)
(* asm/mmu_context.h that install an address space on a CPU.               *)
(*                                                                         *)
(* A context id (mm->context.id, an entry of active_asids or of            *)
(* reserved_asids) is a u64 holding a generation above an ASID.  It is the *)
(* pair <<generation, index>> here, the index standing for the ASID (for   *)
(* the even/odd ASID pair when the kernel is unmapped at EL0).  The pair   *)
(* <<0, 0>> is the id 0: no ASID was ever given.                           *)
(*                                                                         *)
(* Every memory access that another CPU can observe without holding        *)
(* cpu_asid_lock is a step of its own.                                     *)
(***************************************************************************)
EXTENDS Integers, FiniteSets

CONSTANTS
  NumCpus,        \* num_possible_cpus()
  NumUserAsids,   \* NUM_USER_ASIDS, the size of asid_map
  MM,             \* the mm_structs of user processes
  InitMm,         \* &init_mm
  Gone,           \* stands for a page table that no longer exists
  Idmap,          \* idmap_pg_dir, whose entries are global
  Affinity,       \* bound: the mms each CPU may be asked to run
  Mortal,         \* bound: the mms whose process may exit
  IdmapCpus,      \* bound: the CPUs that ever run on the identity map
  MaxGeneration   \* bound: no switch starts once this generation is reached

CPU == 0 .. NumCpus - 1

(***************************************************************************)
(* asids_init warns unless NUM_USER_ASIDS - 1 > num_possible_cpus().       *)
(***************************************************************************)
ASSUME CpuAssumption   == NumCpus \in Nat \ {0}
ASSUME AsidAssumption  == NumUserAsids \in Nat /\ NumUserAsids - 1 > NumCpus
ASSUME MmAssumption    == /\ InitMm \notin MM /\ Gone \notin MM /\ Idmap \notin MM
                          /\ InitMm # Gone /\ InitMm # Idmap /\ Gone # Idmap
ASSUME BoundAssumption == MaxGeneration \in Nat /\ IdmapCpus \subseteq CPU
                          /\ Mortal \subseteq MM /\ Affinity \in [CPU -> SUBSET MM]

VARIABLES
  asid_generation,
  asid_map,           \* the set of indices whose bit is set
  cur_idx,
  active_asids,
  reserved_asids,
  tlb_flush_pending,
  context_id,         \* mm->context.id
  lock,               \* the CPU holding cpu_asid_lock, or NoCpu
  scan,               \* i, the CPU that flush_context visits next
  pc,                 \* where each CPU is in the code
  active_mm,          \* the mm each CPU has installed, or is leaving
  next,               \* the argument mm of a switch in progress
  asid,               \* the local asid of check_and_switch_context
  old_active_asid,    \* its local old_active_asid
  ttbr0,              \* what TTBR0_EL1 and the ASID field translate with
  tlb                 \* the entries each CPU's TLB holds

allocVars  == <<asid_generation, asid_map, cur_idx, active_asids,
                reserved_asids, tlb_flush_pending, context_id, lock, scan>>
localVars  == <<next, asid, old_active_asid>>
mmuVars    == <<ttbr0, tlb>>
vars       == <<allocVars, pc, active_mm, localVars, mmuVars>>

Index      == 0 .. NumUserAsids - 1
ContextId  == Nat \X Index
NoAsid     == <<0, 0>>
Generation(id) == id[1]
asid2idx(id)   == id[2]

(* TTBR0 points at the zero page, at the identity map, or at the pgd of an *)
(* mm; the last comes with the ASID that tags what a table walk caches.    *)
NoTables   == <<0, InitMm>>
Translation == Index \X (MM \cup {InitMm, Idmap, Gone})
NoCpu      == NumCpus

(***************************************************************************)
(* The labels a CPU passes through; "run" is any code outside these        *)
(* routines, "idmap" is code running on the identity map.                  *)
(***************************************************************************)
Fast     == {"read_active", "read_generation", "cmpxchg"}
Locked   == {"flush_context", "activate"}
Install  == {"set_reserved", "write_ttbr0"}
Idmapped == {"idmap_flush", "idmap", "uninstall_flush"}
Label    == {"run", "lock"} \cup Fast \cup Locked \cup Install \cup Idmapped

Init ==
  /\ asid_generation   = 1
  /\ asid_map          = {}
  /\ cur_idx           = 1
  /\ active_asids      = [c \in CPU |-> NoAsid]
  /\ reserved_asids    = [c \in CPU |-> NoAsid]
  /\ tlb_flush_pending = {}
  /\ context_id        = [m \in MM |-> NoAsid]
  /\ lock              = NoCpu
  /\ scan              = 0
  /\ pc                = [c \in CPU |-> "run"]
  /\ active_mm         = [c \in CPU |-> InitMm]
  /\ next              = [c \in CPU |-> InitMm]
  /\ asid              = [c \in CPU |-> NoAsid]
  /\ old_active_asid   = [c \in CPU |-> NoAsid]
  /\ ttbr0             = [c \in CPU |-> NoTables]
  /\ tlb               = [c \in CPU |-> {}]

Goto(c, from, to) ==
  /\ pc[c] = from
  /\ pc' = [pc EXCEPT ![c] = to]

(* The two locals are not read again on the path the CPU takes from here.  *)
DropLocals(c) ==
  /\ asid' = [asid EXCEPT ![c] = NoAsid]
  /\ old_active_asid' = [old_active_asid EXCEPT ![c] = NoAsid]
  /\ UNCHANGED next

-----------------------------------------------------------------------------
(* The fast path of check_and_switch_context.                              *)

(* switch_mm does nothing when prev = next; check_and_switch_context       *)
(* starts by reading the id of the mm.                                     *)
SwitchMm(c, m) ==
  /\ Goto(c, "run", "read_active")
  /\ active_mm[c] # m
  /\ asid_generation < MaxGeneration
  /\ next' = [next EXCEPT ![c] = m]
  /\ asid' = [asid EXCEPT ![c] = context_id[m]]
  /\ UNCHANGED <<allocVars, active_mm, old_active_asid, mmuVars>>

ReadActive(c) ==
  /\ pc[c] = "read_active"
  /\ IF active_asids[c] # NoAsid
     THEN /\ Goto(c, "read_active", "read_generation")
          /\ old_active_asid' = [old_active_asid EXCEPT ![c] = active_asids[c]]
          /\ UNCHANGED <<next, asid>>
     ELSE /\ Goto(c, "read_active", "lock")
          /\ DropLocals(c)
  /\ UNCHANGED <<allocVars, active_mm, mmuVars>>

ReadGeneration(c) ==
  /\ pc[c] = "read_generation"
  /\ IF Generation(asid[c]) = asid_generation
     THEN Goto(c, "read_generation", "cmpxchg") /\ UNCHANGED localVars
     ELSE Goto(c, "read_generation", "lock") /\ DropLocals(c)
  /\ UNCHANGED <<allocVars, active_mm, mmuVars>>

(* Mutant: the result of the exchange is not tested.                       *)
CmpxchgActiveUntested(c) ==
  /\ Goto(c, "cmpxchg", "set_reserved")
  /\ active_asids' = [active_asids EXCEPT
                        ![c] = IF @ = old_active_asid[c] THEN asid[c] ELSE @]
  /\ DropLocals(c)
  /\ UNCHANGED <<asid_generation, asid_map, cur_idx, reserved_asids, tlb_flush_pending,
                 context_id, lock, scan, active_mm, mmuVars>>

(* The exchange returns what it found; only a zero sends the CPU to the    *)
(* slow path.                                                              *)
CmpxchgActive(c) ==
  /\ Goto(c, "cmpxchg", IF active_asids[c] # NoAsid THEN "set_reserved" ELSE "lock")
  /\ active_asids' = [active_asids EXCEPT
                        ![c] = IF @ = old_active_asid[c] THEN asid[c] ELSE @]
  /\ DropLocals(c)
  /\ UNCHANGED <<asid_generation, asid_map, cur_idx, reserved_asids, tlb_flush_pending,
                 context_id, lock, scan, active_mm, mmuVars>>

-----------------------------------------------------------------------------
(* The slow path.  Taking cpu_asid_lock, reading the id again and what     *)
(* new_context does with it up to the first access a fast path can see is  *)
(* one step.                                                               *)

TakeLock(c, to) ==
  /\ Goto(c, "lock", to)
  /\ lock = NoCpu
  /\ lock' = c

IsCurrent(id) == Generation(id) = asid_generation

(* What new_context returns is stored in mm->context.id by its caller.     *)
SetContextId(c, id) ==
  /\ asid' = [asid EXCEPT ![c] = id]
  /\ context_id' = [context_id EXCEPT ![next[c]] = id]

(* Another CPU gave the mm an id of this generation, or the fast path lost *)
(* its race only after the id was read.                                    *)
KeepCurrent(c) ==
  /\ TakeLock(c, "activate")
  /\ IsCurrent(context_id[next[c]])
  /\ asid' = [asid EXCEPT ![c] = context_id[next[c]]]
  /\ UNCHANGED <<asid_generation, asid_map, cur_idx, active_asids, reserved_asids,
                 tlb_flush_pending, context_id, scan, active_mm, next, old_active_asid,
                 mmuVars>>

(* Mutant: new_context does not look for a reserved id.                    *)
ReservedHitNever(id) == FALSE

ReservedHit(id) == \E i \in CPU : reserved_asids[i] = id

(* Mutant: the loop stops at the first match.                              *)
UpdateFirstReserved(id, newasid) ==
  reserved_asids' = [reserved_asids EXCEPT
    ![CHOOSE i \in CPU : reserved_asids[i] = id] = newasid]

check_update_reserved_asid(id, newasid) ==
  reserved_asids' = [i \in CPU |-> IF reserved_asids[i] = id THEN newasid
                                   ELSE reserved_asids[i]]

(* The id of the mm was reserved for a CPU by a rollover: the mm keeps its *)
(* index, and every copy of the id moves to the current generation.        *)
KeepReserved(c) ==
  LET id      == context_id[next[c]]
      newasid == <<asid_generation, asid2idx(id)>>
  IN  /\ TakeLock(c, "activate")
      /\ ~ IsCurrent(id) /\ id # NoAsid /\ ReservedHit(id)
      /\ check_update_reserved_asid(id, newasid)
      /\ SetContextId(c, newasid)
      /\ UNCHANGED <<asid_generation, asid_map, cur_idx, active_asids, tlb_flush_pending,
                     scan, active_mm, next, old_active_asid, mmuVars>>

(* The index the mm had in an earlier generation is still free.            *)
ReuseIndex(c) ==
  LET id == context_id[next[c]]
  IN  /\ TakeLock(c, "activate")
      /\ ~ IsCurrent(id) /\ id # NoAsid /\ ~ ReservedHit(id)
      /\ asid2idx(id) \notin asid_map
      /\ asid_map' = asid_map \cup {asid2idx(id)}
      /\ SetContextId(c, <<asid_generation, asid2idx(id)>>)
      /\ UNCHANGED <<asid_generation, cur_idx, active_asids, reserved_asids,
                     tlb_flush_pending, scan, active_mm, next, old_active_asid, mmuVars>>

NeedsNewIndex(id) ==
  /\ ~ IsCurrent(id)
  /\ id = NoAsid \/ (~ ReservedHit(id) /\ asid2idx(id) \in asid_map)

FreeFrom(start) == {k \in Index : k >= start /\ k \notin asid_map}
find_next_zero_bit(start) ==
  IF FreeFrom(start) = {} THEN NumUserAsids
  ELSE CHOOSE k \in FreeFrom(start) : \A j \in FreeFrom(start) : k <= j

(* set_asid: the bit is set; idx2asid keeps the ASID bits of the index.    *)
TakeIndex(c, k) ==
  /\ asid_map' = asid_map \cup {k}
  /\ cur_idx' = k
  /\ SetContextId(c, <<asid_generation, k % NumUserAsids>>)

(* Mutant: the result of the first search is not tested.                   *)
AllocateIndexUntested(c) ==
  /\ TakeLock(c, "activate")
  /\ NeedsNewIndex(context_id[next[c]])
  /\ TakeIndex(c, find_next_zero_bit(cur_idx))
  /\ UNCHANGED <<asid_generation, active_asids, reserved_asids, tlb_flush_pending,
                 scan, active_mm, next, old_active_asid, mmuVars>>

AllocateIndex(c) ==
  /\ TakeLock(c, "activate")
  /\ NeedsNewIndex(context_id[next[c]])
  /\ find_next_zero_bit(cur_idx) # NumUserAsids
  /\ TakeIndex(c, find_next_zero_bit(cur_idx))
  /\ UNCHANGED <<asid_generation, active_asids, reserved_asids, tlb_flush_pending,
                 scan, active_mm, next, old_active_asid, mmuVars>>

(* Mutant: flush_context does not clear the map.                           *)
RolloverKeepsMap(c) ==
  /\ TakeLock(c, "flush_context")
  /\ NeedsNewIndex(context_id[next[c]])
  /\ find_next_zero_bit(cur_idx) = NumUserAsids
  /\ asid_generation' = asid_generation + 1
  /\ UNCHANGED <<asid_map, cur_idx, active_asids, reserved_asids, tlb_flush_pending,
                 context_id, scan, active_mm, localVars, mmuVars>>

(* Out of indices: the generation is advanced and flush_context clears the *)
(* map before it visits the CPUs.                                          *)
Rollover(c) ==
  /\ TakeLock(c, "flush_context")
  /\ NeedsNewIndex(context_id[next[c]])
  /\ find_next_zero_bit(cur_idx) = NumUserAsids
  /\ asid_generation' = asid_generation + 1
  /\ asid_map' = {}
  /\ UNCHANGED <<cur_idx, active_asids, reserved_asids, tlb_flush_pending, context_id,
                 scan, active_mm, localVars, mmuVars>>

(* The id a CPU is known by: the active one, or, when a rollover took it   *)
(* and nothing was scheduled since, the reserved one.                      *)
Held(i) == IF active_asids[i] # NoAsid THEN active_asids[i] ELSE reserved_asids[i]

(* Mutant: the bit of the id is not set again.                             *)
FlushContextCpuNoBit(c) ==
  /\ pc[c] = "flush_context"
  /\ scan \in CPU
  /\ active_asids' = [active_asids EXCEPT ![scan] = NoAsid]
  /\ reserved_asids' = [reserved_asids EXCEPT ![scan] = Held(scan)]
  /\ scan' = scan + 1
  /\ UNCHANGED <<asid_generation, asid_map, cur_idx, tlb_flush_pending, context_id, lock,
                 pc, active_mm, localVars, mmuVars>>

FlushContextCpu(c) ==
  /\ pc[c] = "flush_context"
  /\ scan \in CPU
  /\ active_asids' = [active_asids EXCEPT ![scan] = NoAsid]
  /\ reserved_asids' = [reserved_asids EXCEPT ![scan] = Held(scan)]
  /\ asid_map' = asid_map \cup {asid2idx(Held(scan))}
  /\ scan' = scan + 1
  /\ UNCHANGED <<asid_generation, cur_idx, tlb_flush_pending, context_id, lock, pc,
                 active_mm, localVars, mmuVars>>

(* The end of flush_context, and the second search of new_context.         *)
AllocateAfterRollover(c) ==
  /\ Goto(c, "flush_context", "activate")
  /\ scan = NumCpus
  /\ scan' = 0
  /\ tlb_flush_pending' = CPU
  /\ TakeIndex(c, find_next_zero_bit(1))
  /\ UNCHANGED <<asid_generation, active_asids, reserved_asids, lock, active_mm, next,
                 old_active_asid, mmuVars>>

(* Mutant: the queued flush is forgotten.                                  *)
ActivateNoFlush(c) ==
  /\ Goto(c, "activate", "set_reserved")
  /\ tlb_flush_pending' = tlb_flush_pending \ {c}
  /\ active_asids' = [active_asids EXCEPT ![c] = asid[c]]
  /\ lock' = NoCpu
  /\ DropLocals(c)
  /\ UNCHANGED <<asid_generation, asid_map, cur_idx, reserved_asids, context_id, scan,
                 active_mm, mmuVars>>

(* Mutant: the lock is only released after a queued flush.                 *)
ActivateKeepsLock(c) ==
  /\ Goto(c, "activate", "set_reserved")
  /\ tlb_flush_pending' = tlb_flush_pending \ {c}
  /\ tlb' = IF c \in tlb_flush_pending THEN [tlb EXCEPT ![c] = {}] ELSE tlb
  /\ active_asids' = [active_asids EXCEPT ![c] = asid[c]]
  /\ lock' = IF c \in tlb_flush_pending THEN NoCpu ELSE lock
  /\ DropLocals(c)
  /\ UNCHANGED <<asid_generation, asid_map, cur_idx, reserved_asids, context_id, scan,
                 active_mm, ttbr0>>

(* The queued flush of this CPU, the store to active_asids, the unlock.    *)
Activate(c) ==
  /\ Goto(c, "activate", "set_reserved")
  /\ tlb_flush_pending' = tlb_flush_pending \ {c}
  /\ tlb' = IF c \in tlb_flush_pending THEN [tlb EXCEPT ![c] = {}] ELSE tlb
  /\ active_asids' = [active_asids EXCEPT ![c] = asid[c]]
  /\ lock' = NoCpu
  /\ DropLocals(c)
  /\ UNCHANGED <<asid_generation, asid_map, cur_idx, reserved_asids, context_id, scan,
                 active_mm, ttbr0>>

-----------------------------------------------------------------------------
(* cpu_switch_mm: the zero page first, then cpu_do_switch_mm, which reads  *)
(* mm->context.id again, without the lock, before it writes the registers. *)

SetReservedTtbr0(c) ==
  /\ Goto(c, "set_reserved", "write_ttbr0")
  /\ ttbr0' = [ttbr0 EXCEPT ![c] = NoTables]
  /\ asid' = [asid EXCEPT ![c] = context_id[next[c]]]
  /\ UNCHANGED <<allocVars, active_mm, next, old_active_asid, tlb>>

WriteTtbr0(c) ==
  /\ Goto(c, "write_ttbr0", "run")
  /\ ttbr0' = [ttbr0 EXCEPT ![c] = <<asid2idx(asid[c]), next[c]>>]
  /\ active_mm' = [active_mm EXCEPT ![c] = next[c]]
  /\ next' = [next EXCEPT ![c] = InitMm]
  /\ asid' = [asid EXCEPT ![c] = NoAsid]
  /\ UNCHANGED <<allocVars, old_active_asid, tlb>>

(* __switch_mm(&init_mm): only the reserved TTBR0; the allocator keeps the *)
(* last id of the CPU.                                                     *)
SwitchToInitMm(c) ==
  /\ pc[c] = "run"
  /\ ttbr0' = [ttbr0 EXCEPT ![c] = NoTables]
  /\ active_mm' = [active_mm EXCEPT ![c] = InitMm]
  /\ UNCHANGED <<allocVars, pc, localVars, tlb>>

-----------------------------------------------------------------------------
(* cpu_install_idmap and cpu_uninstall_idmap.                              *)

InstallIdmap(c) ==
  /\ Goto(c, "run", "idmap_flush")
  /\ ttbr0' = [ttbr0 EXCEPT ![c] = NoTables]
  /\ UNCHANGED <<allocVars, active_mm, localVars, tlb>>

InstallIdmapFlush(c) ==
  /\ Goto(c, "idmap_flush", "idmap")
  /\ tlb' = [tlb EXCEPT ![c] = {}]
  /\ ttbr0' = [ttbr0 EXCEPT ![c] = <<0, Idmap>>]
  /\ UNCHANGED <<allocVars, active_mm, localVars>>

(* A CPU that lost its state in a low-power mode restarts on the identity  *)
(* map with an empty TLB.                                                  *)
CpuResume(c) ==
  /\ Goto(c, "run", "idmap")
  /\ ttbr0' = [ttbr0 EXCEPT ![c] = <<0, Idmap>>]
  /\ tlb' = [tlb EXCEPT ![c] = {}]
  /\ UNCHANGED <<allocVars, active_mm, localVars>>

UninstallIdmap(c) ==
  /\ Goto(c, "idmap", "uninstall_flush")
  /\ ttbr0' = [ttbr0 EXCEPT ![c] = NoTables]
  /\ UNCHANGED <<allocVars, active_mm, localVars, tlb>>

(* Mutant: the TLB keeps the entries of the identity map.                  *)
UninstallIdmapNoFlush(c) ==
  /\ Goto(c, "uninstall_flush", IF active_mm[c] = InitMm THEN "run" ELSE "set_reserved")
  /\ next' = [next EXCEPT ![c] = active_mm[c]]
  /\ UNCHANGED <<allocVars, active_mm, asid, old_active_asid, mmuVars>>

UninstallIdmapFlush(c) ==
  /\ Goto(c, "uninstall_flush", IF active_mm[c] = InitMm THEN "run" ELSE "set_reserved")
  /\ tlb' = [tlb EXCEPT ![c] = {}]
  /\ next' = [next EXCEPT ![c] = active_mm[c]]
  /\ UNCHANGED <<allocVars, active_mm, asid, old_active_asid, ttbr0>>

-----------------------------------------------------------------------------
(* The table walker may cache the current translation at any time.         *)
TableWalk(c) ==
  /\ ttbr0[c] # NoTables
  /\ tlb' = [tlb EXCEPT ![c] = @ \cup {ttbr0[c]}]
  /\ UNCHANGED <<allocVars, pc, active_mm, localVars, ttbr0>>

(* The last reference to m is dropped and its mm_struct is used for a new  *)
(* address space.  destroy_context does nothing, tlb_flush skips a fullmm  *)
(* teardown, and init_new_context clears the id.  Entries cached from the  *)
(* old page tables stay behind, and belong to nobody.                      *)
Disown(entries, m) == {IF e[2] = m THEN <<e[1], Gone>> ELSE e : e \in entries}

RecycleMm(m) ==
  /\ \A c \in CPU : active_mm[c] # m /\ next[c] # m
  /\ context_id[m] # NoAsid
  /\ context_id' = [context_id EXCEPT ![m] = NoAsid]
  /\ tlb' = [c \in CPU |-> Disown(tlb[c], m)]
  /\ UNCHANGED <<asid_generation, asid_map, cur_idx, active_asids, reserved_asids,
                 tlb_flush_pending, lock, scan, pc, active_mm, localVars, ttbr0>>

-----------------------------------------------------------------------------
EnterSlowPath(c) ==
  KeepCurrent(c) \/ KeepReserved(c) \/ ReuseIndex(c) \/ AllocateIndex(c) \/ Rollover(c)

(* The steps of a call already made: the CPU takes them without waiting    *)
(* for anything but the lock.                                              *)
Continue(c) ==
  \/ ReadActive(c) \/ ReadGeneration(c) \/ CmpxchgActive(c)
  \/ EnterSlowPath(c) \/ FlushContextCpu(c) \/ AllocateAfterRollover(c) \/ Activate(c)
  \/ SetReservedTtbr0(c) \/ WriteTtbr0(c)
  \/ InstallIdmapFlush(c) \/ UninstallIdmap(c) \/ UninstallIdmapFlush(c)

Start(c) ==
  \/ \E m \in Affinity[c] : SwitchMm(c, m)
  \/ SwitchToInitMm(c)
  \/ c \in IdmapCpus /\ (InstallIdmap(c) \/ CpuResume(c))

Next ==
  \/ \E c \in CPU : Start(c) \/ Continue(c) \/ TableWalk(c)
  \/ \E m \in Mortal : RecycleMm(m)

Spec == Init /\ [][Next]_vars
(* A CPU inside a call keeps executing it.  cpu_asid_lock is a queued      *)
(* spinlock, so a CPU that keeps asking for it is served: strong fairness  *)
(* of EnterSlowPath.  Nothing obliges a CPU to start a switch.             *)
FairSpec ==
  /\ Spec
  /\ \A c \in CPU : WF_vars(Continue(c)) /\ SF_vars(EnterSlowPath(c))

-----------------------------------------------------------------------------
(* Properties.                                                             *)

(* Every variable has the shape its C declaration gives it; in particular  *)
(* no bit outside asid_map is ever set.                                    *)
TypeOK ==
  /\ asid_generation \in Nat \ {0}
  /\ asid_map \in SUBSET Index
  /\ cur_idx \in Index \ {0}
  /\ active_asids \in [CPU -> ContextId]
  /\ reserved_asids \in [CPU -> ContextId]
  /\ tlb_flush_pending \in SUBSET CPU
  /\ context_id \in [MM -> ContextId]
  /\ lock \in CPU \cup {NoCpu}
  /\ scan \in 0 .. NumCpus
  /\ pc \in [CPU -> Label]
  /\ active_mm \in [CPU -> MM \cup {InitMm}]
  /\ next \in [CPU -> MM \cup {InitMm}]
  /\ asid \in [CPU -> ContextId]
  /\ old_active_asid \in [CPU -> ContextId]
  /\ ttbr0 \in [CPU -> Translation]
  /\ tlb \in [CPU -> SUBSET Translation]

(* What the TLB of c answers with for the translation regime in ttbr0[c]:  *)
(* entries with its ASID, and the global entries of the identity map.      *)
Hits(c) == {e \in tlb[c] : e[1] = ttbr0[c][1] \/ e[2] = Idmap}

(* While a CPU translates with the page tables of a process, no entry      *)
(* cached from other page tables (another process, an exited one or the    *)
(* identity map) can answer: the promise of check_and_switch_context,      *)
(* through rollovers and the flushes they only queue.                      *)
TlbIsolation ==
  \A c \in CPU : ttbr0[c][2] \in MM => \A e \in Hits(c) : e[2] = ttbr0[c][2]

(* Two CPUs that are done switching never run two processes under one      *)
(* ASID.  (A CPU between publishing its new id and writing TTBR0 may       *)
(* still hold the tables of a process whose ASID was given away.)          *)
RunningAsidsUnique ==
  \A c, d \in CPU :
    /\ pc[c] = "run" /\ ttbr0[c][2] \in MM
    /\ pc[d] = "run" /\ ttbr0[d][2] \in MM
    /\ ttbr0[c][1] = ttbr0[d][1]
    => ttbr0[c][2] = ttbr0[d][2]

(* The id a rollover will find for a CPU (active or reserved) is the id of *)
(* the mm that CPU runs or has committed to, and its index is the one in   *)
(* the hardware, although cpu_do_switch_mm reads mm->context.id again      *)
(* after the lock is dropped.                                              *)
CommittedIdHeld ==
  \A c \in CPU :
    /\ pc[c] \in Install => Held(c) = context_id[next[c]]
    /\ pc[c] = "run" /\ active_mm[c] \in MM =>
         /\ Held(c) = context_id[active_mm[c]]
         /\ ttbr0[c] = <<asid2idx(Held(c)), active_mm[c]>>

(* "We have more ASIDs than CPUs, so this will always succeed": after a    *)
(* rollover find_next_zero_bit finds an index for the process being        *)
(* switched to.                                                            *)
RolloverFindsIndex ==
  \A c \in CPU : pc[c] = "flush_context" /\ scan = NumCpus =>
                  find_next_zero_bit(1) \in Index \ {0}

(* The ASID of a process does not change under a CPU that runs it: the     *)
(* generation of its id may advance, by check_update_reserved_asid, but    *)
(* the index in the hardware stays right without a switch on that CPU.     *)
RunningAsidStable ==
  [][\A c \in CPU :
       pc[c] = "run" /\ active_mm[c] \in MM =>
         asid2idx(context_id'[active_mm[c]]) = asid2idx(context_id[active_mm[c]])]_vars

(* A CPU that enters check_and_switch_context, or leaves the identity map, *)
(* gets back to running its task, whatever rollovers the other CPUs cause. *)
SwitchCompletes ==
  \A c \in CPU : pc[c] # "run" ~> pc[c] = "run"
=============================================================================
