------------------------- MODULE TlbShootdownProofs -------------------------
(***************************************************************************)
(* Unmapping a page beside the ASID allocator: for any number of CPUs,     *)
(* ASIDs, processes and generations, a translation from before the change  *)
(* of the page table answers only while the unmapping is under way, or for *)
(* a process that got another ASID between the load of its old one and the *)
(* barrier.  The allocator's own invariant survives the invalidations.     *)
(***************************************************************************)
EXTENDS TlbShootdown, AsidAllocatorProofs

USE ZenonT(20)

(* The flush that is to remove e is still to come, or has lost its race.   *)
AwaitsFlush(e) ==
  \/ e[2] \in raced
  \/ e[2] = flush_mm /\ (flush_pc = "load_asid" \/ pte_buffered \/ e[1] = flush_asid)

(* e cannot answer on c: its process has another index, or c flushes its   *)
(* TLB before it runs that process again.                                  *)
OutOfReach(c, e) ==
  \/ c \in tlb_flush_pending /\ Committed(c) # e[2]
  \/ e[1] # asid2idx(context_id[e[2]])

StaleInv ==
  \A c \in CPU : \A e \in stale[c] : e \in tlb[c] /\ (AwaitsFlush(e) \/ OutOfReach(c, e))

(* The inductive invariant of the composition.                             *)
ShootdownInv == IndInv /\ ShootdownTypeOK /\ StaleInv

-----------------------------------------------------------------------------
(* What the steps of the allocator do to entries that are out of reach.    *)

(* An entry of a process in a TLB that awaits no flush has its bit set.    *)
LEMMA EntryInMap ==
  ASSUME IndInv, ~ Scanning, NEW d \in CPU, d \notin tlb_flush_pending,
         NEW e \in Index \X MM, e \in tlb[d]
  PROVE  e[1] \in asid_map
<1>1. CpuTlb(d) /\ e[2] # Idmap
  BY CpuInv, MmAssumption, SMT
<1>2. e[1] # 0 /\ e \in Cached(d)
  BY <1>1 DEF CpuTlb, Cached
<1>3. QED
  BY <1>1, <1>2 DEF CpuTlb, Exclusive

(* A process whose id is neither current nor reserved runs nowhere.        *)
LEMMA NobodyCommitted ==
  ASSUME IndInv, NEW m \in MM, Generation(context_id[m]) # IssueGen,
         context_id[m] # NoAsid => ~ ReservedHit(context_id[m]), NEW d \in CPU
  PROVE  Committed(d) # m
<1> SUFFICES ASSUME Committed(d) = m PROVE FALSE
  OBVIOUS
<1>1. CpuCall(d) /\ ActiveId(d)
  BY CpuInv
<1>2. Held(d) = context_id[m] /\ Held(d) # NoAsid
  BY <1>1 DEF CpuCall
<1>3. QED
  BY <1>1, <1>2 DEF Held, ActiveId, ReservedHit

(* A step that changes no id and queues or makes no flush, by which a CPU  *)
(* comes to run another process only if it awaits no flush.                *)
LEMMA QuietStep ==
  ASSUME NEW d \in CPU, NEW e \in Index \X MM, OutOfReach(d, e),
         UNCHANGED <<tlb_flush_pending, context_id>>,
         Committed(d)' \in {Committed(d), InitMm} \/ d \notin tlb_flush_pending
  PROVE  OutOfReach(d, e)'
<1>1. e[2] # InitMm
  BY MmAssumption, SMT
<1>2. QED
  BY <1>1 DEF OutOfReach

(* A process that runs nowhere gets an index whose bit was not set.        *)
LEMMA FreshIndexStep ==
  ASSUME IndInv, ~ Scanning, NEW n \in MM, NEW id,
         context_id' = [context_id EXCEPT ![n] = id], asid2idx(id) \notin asid_map,
         tlb_flush_pending' = tlb_flush_pending,
         NEW d \in CPU, Committed(d)' = Committed(d), Committed(d) # n,
         NEW e \in Index \X MM, e \in tlb[d], OutOfReach(d, e)
  PROVE  OutOfReach(d, e)'
<1>1. e[2] \in MM /\ context_id \in [MM -> ContextId]
  BY SMT DEF IndInv, TypeOK
<1>2. CASE e[2] # n
  BY <1>1, <1>2 DEF OutOfReach
<1>3. CASE e[2] = n /\ d \in tlb_flush_pending
  BY <1>3 DEF OutOfReach
<1>4. CASE e[2] = n /\ d \notin tlb_flush_pending
  <2>1. e[1] \in asid_map
    BY <1>4, EntryInMap
  <2>2. context_id'[e[2]] = id
    BY <1>1, <1>4
  <2>3. QED
    BY <2>1, <2>2 DEF OutOfReach
<1>5. QED
  BY <1>2, <1>3, <1>4

(* The steps of a call by which no process gets an id and no CPU publishes *)
(* another one.                                                            *)
SameProcess(c) ==
  \/ ReadActive(c) \/ ReadGeneration(c) \/ KeepCurrent(c) \/ Rollover(c) \/ FlushContextCpu(c)
  \/ SetReservedTtbr0(c) \/ WriteTtbr0(c)
  \/ InstallIdmapFlush(c) \/ UninstallIdmap(c) \/ UninstallIdmapFlush(c) \/ TableWalk(c)

(* What c is committed to follows from its own place and locals.           *)
LEMMA CommittedKept ==
  ASSUME IndInv, NEW c \in CPU, NEW l, pc' = [pc EXCEPT ![c] = l], NEW d \in CPU,
         d # c => next'[d] = next[d] /\ active_mm'[d] = active_mm[d],
         (IF l \in Install THEN next'[c] ELSE active_mm'[c]) = Committed(c)
  PROVE  Committed(d)' = Committed(d)
<1>1. pc'[d] = IF d = c THEN l ELSE pc[d]
  BY DEF IndInv, TypeOK
<1>2. QED
  BY <1>1 DEF Committed

(* A step between two places outside cpu_switch_mm.                        *)
LEMMA OutsideInstall ==
  ASSUME IndInv, NEW c \in CPU, NEW l, pc' = [pc EXCEPT ![c] = l], NEW d \in CPU,
         UNCHANGED <<next, active_mm>>, pc[c] \notin Install, l \notin Install
  PROVE  Committed(d)' = Committed(d)
<1>1. (IF l \in Install THEN next'[c] ELSE active_mm'[c]) = Committed(c)
  BY DEF Committed
<1>2. QED
  BY <1>1, CommittedKept

LEMMA SameProcessStep ==
  ASSUME IndInv, NEW c \in CPU, SameProcess(c), NEW d \in CPU
  PROVE  Committed(d)' = Committed(d) /\ UNCHANGED <<tlb_flush_pending, context_id>>
<1>1. UNCHANGED <<tlb_flush_pending, context_id>>
  BY DEF SameProcess, ReadActive, ReadGeneration, KeepCurrent, Rollover, FlushContextCpu,
     SetReservedTtbr0, WriteTtbr0, InstallIdmapFlush, UninstallIdmap, UninstallIdmapFlush,
     TableWalk, allocVars
<1>2. pc \in [CPU -> Label] /\ next \in [CPU -> MM \cup {InitMm}]
      /\ active_mm \in [CPU -> MM \cup {InitMm}]
  BY DEF IndInv, TypeOK
<1>3. CASE FlushContextCpu(c) \/ TableWalk(c)
  <2>1. UNCHANGED <<pc, next, active_mm>>
    BY <1>3 DEF FlushContextCpu, TableWalk, localVars
  <2>2. QED
    BY <1>1, <2>1 DEF Committed
<1>4. CASE SetReservedTtbr0(c)
  <2>1. /\ pc[c] = "set_reserved" /\ pc' = [pc EXCEPT ![c] = "write_ttbr0"]
        /\ UNCHANGED <<next, active_mm>>
    BY <1>4 DEF SetReservedTtbr0, Goto
  <2>2. Committed(c) = next[c] /\ "write_ttbr0" \in Install
    BY <2>1 DEF Committed, Install
  <2>3. QED
    BY <1>1, <2>1, <2>2, CommittedKept
<1>5. CASE WriteTtbr0(c)
  <2>1. /\ pc[c] = "write_ttbr0" /\ pc' = [pc EXCEPT ![c] = "run"]
        /\ next' = [next EXCEPT ![c] = InitMm]
        /\ active_mm' = [active_mm EXCEPT ![c] = next[c]]
    BY <1>5 DEF WriteTtbr0, Goto
  <2>2. Committed(c) = next[c] /\ "run" \notin Install /\ active_mm'[c] = next[c]
    BY <1>2, <2>1 DEF Committed, Install
  <2>3. d # c => next'[d] = next[d] /\ active_mm'[d] = active_mm[d]
    BY <1>2, <2>1
  <2>4. QED
    BY <1>1, <2>1, <2>2, <2>3, CommittedKept
<1>6. CASE UninstallIdmapFlush(c)
  <2>1. PICK l : /\ pc[c] = "uninstall_flush" /\ pc' = [pc EXCEPT ![c] = l]
                 /\ next' = [next EXCEPT ![c] = active_mm[c]] /\ active_mm' = active_mm
    BY <1>6 DEF UninstallIdmapFlush, Goto
  <2>2. Committed(c) = active_mm[c] /\ next'[c] = active_mm[c]
    BY <1>2, <2>1 DEF Committed, Install
  <2>3. d # c => next'[d] = next[d]
    BY <1>2, <2>1
  <2>4. QED
    BY <1>1, <2>1, <2>2, <2>3, CommittedKept
<1>7. CASE \/ ReadActive(c) \/ ReadGeneration(c) \/ KeepCurrent(c) \/ Rollover(c)
           \/ InstallIdmapFlush(c) \/ UninstallIdmap(c)
  <2>1. /\ pc[c] \in {"read_active", "read_generation", "lock", "idmap_flush", "idmap"}
        /\ UNCHANGED <<next, active_mm>>
    BY <1>7 DEF ReadActive, ReadGeneration, KeepCurrent, Rollover, InstallIdmapFlush,
       UninstallIdmap, TakeLock, Goto, DropLocals, localVars
  <2>2. \E l \in {"read_generation", "lock", "cmpxchg", "activate", "flush_context", "idmap",
                  "uninstall_flush"} : pc' = [pc EXCEPT ![c] = l]
    BY <1>7 DEF ReadActive, ReadGeneration, KeepCurrent, Rollover, InstallIdmapFlush,
       UninstallIdmap, TakeLock, Goto
  <2>3. PICK l : pc' = [pc EXCEPT ![c] = l] /\ l \notin Install
    BY <2>2 DEF Install
  <2>4. pc[c] \notin Install
    BY <2>1 DEF Install
  <2>5. QED
    BY <1>1, <2>1, <2>3, <2>4, OutsideInstall
<1>8. QED
  BY <1>3, <1>4, <1>5, <1>6, <1>7 DEF SameProcess

(* A switch to init_mm, and the steps that only start a call.              *)
LEMMA StartStep ==
  ASSUME IndInv, NEW c \in CPU, Start(c), NEW d \in CPU
  PROVE  /\ Committed(d)' \in {Committed(d), InitMm}
         /\ UNCHANGED <<tlb_flush_pending, context_id>>
<1>1. UNCHANGED <<tlb_flush_pending, context_id>>
  BY DEF Start, SwitchMm, SwitchToInitMm, InstallIdmap, CpuResume, allocVars
<1>2. /\ pc \in [CPU -> Label] /\ next \in [CPU -> MM \cup {InitMm}]
      /\ active_mm \in [CPU -> MM \cup {InitMm}]
  BY DEF IndInv, TypeOK
<1>3. CASE \E m \in Affinity[c] : SwitchMm(c, m)
  <2>1. /\ pc[c] = "run" /\ pc' = [pc EXCEPT ![c] = "read_active"]
        /\ \E m : next' = [next EXCEPT ![c] = m]
        /\ active_mm' = active_mm
    BY <1>3 DEF SwitchMm, Goto
  <2>2. Committed(c) = active_mm[c] /\ "read_active" \notin Install
    BY <2>1 DEF Committed, Install
  <2>3. d # c => next'[d] = next[d]
    BY <1>2, <2>1
  <2>4. QED
    BY <1>1, <2>1, <2>2, <2>3, CommittedKept
<1>4. CASE SwitchToInitMm(c)
  <2>1. /\ pc[c] = "run" /\ UNCHANGED <<pc, next>>
        /\ active_mm' = [active_mm EXCEPT ![c] = InitMm]
    BY <1>4 DEF SwitchToInitMm, localVars
  <2>2. active_mm'[d] = IF d = c THEN InitMm ELSE active_mm[d]
    BY <1>2, <2>1
  <2>3. "run" \notin Install
    BY DEF Install
  <2>4. QED
    BY <1>1, <2>1, <2>2, <2>3 DEF Committed
<1>5. CASE InstallIdmap(c) \/ CpuResume(c)
  <2>1. pc[c] = "run" /\ UNCHANGED <<next, active_mm>>
    BY <1>5 DEF InstallIdmap, CpuResume, Goto, localVars
  <2>2. PICK l \in {"idmap_flush", "idmap"} : pc' = [pc EXCEPT ![c] = l]
    BY <1>5 DEF InstallIdmap, CpuResume, Goto
  <2>3. pc[c] \notin Install /\ l \notin Install
    BY <2>1, <2>2 DEF Install
  <2>4. QED
    BY <1>1, <2>1, <2>2, <2>3, OutsideInstall
<1>6. QED
  BY <1>3, <1>4, <1>5 DEF Start

(* The exchange publishes an id only where it finds one, so where no flush *)
(* is queued.                                                              *)
LEMMA CmpxchgStep ==
  ASSUME IndInv, NEW c \in CPU, CmpxchgActive(c), NEW d \in CPU
  PROVE  /\ Committed(d)' = Committed(d) \/ d \notin tlb_flush_pending
         /\ UNCHANGED <<tlb_flush_pending, context_id>>
<1>1. /\ pc[c] = "cmpxchg"
      /\ pc' = [pc EXCEPT ![c] = IF active_asids[c] # NoAsid THEN "set_reserved" ELSE "lock"]
      /\ UNCHANGED <<next, active_mm, tlb_flush_pending, context_id>>
  BY DEF CmpxchgActive, Goto, DropLocals
<1>2. CASE active_asids[c] = NoAsid
  <2>1. pc' = [pc EXCEPT ![c] = "lock"] /\ "lock" \notin Install /\ pc[c] \notin Install
    BY <1>1, <1>2 DEF Install
  <2>2. QED
    BY <1>1, <2>1, OutsideInstall
<1>3. CASE active_asids[c] # NoAsid /\ d # c
  <2>1. pc'[d] = pc[d]
    BY <1>1, <1>3 DEF IndInv, TypeOK
  <2>2. QED
    BY <1>1, <2>1 DEF Committed
<1>4. CASE active_asids[c] # NoAsid /\ d = c
  <2>1. ActiveId(c)
    BY CpuInv
  <2>2. QED
    BY <1>1, <1>4, <2>1 DEF ActiveId
<1>5. QED
  BY <1>2, <1>3, <1>4

(* new_context, up to the store of the id it returns.                      *)
LEMMA NewIdStep ==
  ASSUME IndInv, NEW c \in CPU,
         KeepReserved(c) \/ ReuseIndex(c) \/ AllocateIndex(c),
         NEW d \in CPU, NEW e \in Index \X MM, e \in tlb[d], OutOfReach(d, e)
  PROVE  OutOfReach(d, e)'
<1> DEFINE n  == next[c]
           id == context_id[n]
<1>1. /\ TakeLock(c, "activate") /\ "activate" \in Locked /\ "activate" \notin Install
      /\ UNCHANGED <<asid_generation, tlb_flush_pending, scan, active_mm, next>>
      /\ ~ IsCurrent(id)
  BY DEF KeepReserved, ReuseIndex, AllocateIndex, NeedsNewIndex, Locked, Install
<1>2. /\ pc[c] = "lock" /\ pc' = [pc EXCEPT ![c] = "activate"] /\ ~ Scanning
      /\ IssueGen = asid_generation /\ n \in MM
  BY <1>1, TakeLockFacts
<1>3. Committed(d)' = Committed(d)
  <2>1. pc[c] \notin Install
    BY <1>2 DEF Install
  <2>2. QED
    BY <1>1, <1>2, <2>1, OutsideInstall
<1>4. CASE KeepReserved(c)
  <2>1. context_id' = [context_id EXCEPT ![n] = <<asid_generation, asid2idx(id)>>]
    BY <1>4 DEF KeepReserved, SetContextId
  <2>2. e[2] \in MM
    BY SMT
  <2>3. context_id'[e[2]] = IF e[2] = n THEN <<asid_generation, asid2idx(id)>>
                            ELSE context_id[e[2]]
    BY <2>1, <2>2 DEF IndInv, TypeOK
  <2>4. asid2idx(<<asid_generation, asid2idx(id)>>) = asid2idx(id)
    BY SMT DEF asid2idx
  <2>5. asid2idx(context_id'[e[2]]) = asid2idx(context_id[e[2]])
    BY <2>3, <2>4
  <2>6. QED
    BY <1>1, <1>3, <2>5 DEF OutOfReach
<1>5. ASSUME NEW k, k \notin asid_map, id # NoAsid => ~ ReservedHit(id),
             context_id' = [context_id EXCEPT ![n] = <<asid_generation, k>>]
      PROVE  OutOfReach(d, e)'
  <2>1. Generation(id) # IssueGen
    BY <1>1, <1>2 DEF IsCurrent
  <2>2. Committed(d) # n
    BY <1>2, <1>5, <2>1, NobodyCommitted
  <2>3. asid2idx(<<asid_generation, k>>) \notin asid_map
    BY <1>5, SMT DEF asid2idx
  <2>4. QED
    BY <1>1, <1>2, <1>3, <1>5, <2>2, <2>3, FreshIndexStep
<1>6. CASE ReuseIndex(c)
  BY <1>5, <1>6 DEF ReuseIndex, SetContextId
<1>7. CASE AllocateIndex(c)
  <2> DEFINE k == find_next_zero_bit(cur_idx)
  <2>1. /\ context_id' = [context_id EXCEPT ![n] = <<asid_generation, k % NumUserAsids>>]
        /\ NeedsNewIndex(id) /\ k # NumUserAsids
    BY <1>7 DEF AllocateIndex, TakeIndex, SetContextId
  <2>2. cur_idx \in Nat
    BY ZeroTypes DEF IndInv, TypeOK
  <2>3. k \in FreeFrom(cur_idx)
    BY <2>1, <2>2, FindNextZeroBit
  <2>4. k \notin asid_map /\ k % NumUserAsids = k
    BY <2>3, AsidAssumption, CpuAssumption, SMT DEF FreeFrom, Index
  <2>5. QED
    BY <1>5, <2>1, <2>4 DEF NeedsNewIndex
<1>8. QED
  BY <1>4, <1>6, <1>7

(* The end of a rollover queues a flush on every CPU, and no CPU runs the  *)
(* process that gets an index.                                             *)
LEMMA AfterRolloverStep ==
  ASSUME IndInv, NEW c \in CPU, AllocateAfterRollover(c),
         NEW d \in CPU, NEW e \in Index \X MM, OutOfReach(d, e)
  PROVE  OutOfReach(d, e)'
<1> DEFINE n == next[c]
<1>1. /\ pc[c] = "flush_context" /\ pc' = [pc EXCEPT ![c] = "activate"]
      /\ tlb_flush_pending' = CPU /\ UNCHANGED <<next, active_mm>>
      /\ \E id : context_id' = [context_id EXCEPT ![n] = id]
  BY DEF AllocateAfterRollover, Goto, TakeIndex, SetContextId
<1>2. "activate" \notin Install /\ pc[c] \notin Install /\ Switching(c)
  BY <1>1 DEF Install, Switching, Locked
<1>3. Committed(d)' = Committed(d)
  BY <1>1, <1>2, OutsideInstall
<1>4. CpuControl(c) /\ CpuCall(c)
  BY CpuInv
<1>5. Committed(d) # n
  <2>1. /\ n \in MM /\ Generation(context_id[n]) # IssueGen
        /\ context_id[n] # NoAsid => ~ ReservedHit(context_id[n])
    BY <1>1, <1>2, <1>4 DEF CpuControl, CpuCall
  <2>2. QED
    BY <2>1, NobodyCommitted
<1>6. e[2] \in MM /\ context_id \in [MM -> ContextId]
  BY SMT DEF IndInv, TypeOK
<1>7. e[2] # n => context_id'[e[2]] = context_id[e[2]]
  BY <1>1, <1>6
<1>8. CASE Committed(d) # e[2]
  BY <1>1, <1>3, <1>8 DEF OutOfReach
<1>9. CASE Committed(d) = e[2]
  BY <1>5, <1>7, <1>9 DEF OutOfReach
<1>10. QED
  BY <1>8, <1>9

(* A CPU publishes an id under the lock after the flush queued for it.     *)
LEMMA ActivateStep ==
  ASSUME IndInv, NEW c \in CPU, Activate(c),
         NEW d \in CPU, NEW e \in Index \X MM, e \in tlb'[d], OutOfReach(d, e)
  PROVE  OutOfReach(d, e)'
<1>1. /\ pc' = [pc EXCEPT ![c] = "set_reserved"]
      /\ tlb_flush_pending' = tlb_flush_pending \ {c}
      /\ tlb' = IF c \in tlb_flush_pending THEN [tlb EXCEPT ![c] = {}] ELSE tlb
      /\ UNCHANGED <<next, active_mm, context_id>>
  BY DEF Activate, Goto, DropLocals
<1>2. CASE d # c
  <2>1. pc'[d] = pc[d]
    BY <1>1, <1>2 DEF IndInv, TypeOK
  <2>2. QED
    BY <1>1, <1>2, <2>1 DEF OutOfReach, Committed
<1>3. CASE d = c
  <2>1. c \notin tlb_flush_pending
    BY <1>1, <1>3 DEF IndInv, TypeOK
  <2>2. QED
    BY <1>1, <1>3, <2>1 DEF OutOfReach
<1>4. QED
  BY <1>2, <1>3

(* Entries of a process that exits belong to nobody from then on.          *)
LEMMA RecycleStep ==
  ASSUME IndInv, NEW m \in MM, RecycleMm(m),
         NEW d \in CPU, NEW e \in Index \X MM, e \in tlb'[d], OutOfReach(d, e)
  PROVE  OutOfReach(d, e)'
<1>1. /\ context_id' = [context_id EXCEPT ![m] = NoAsid]
      /\ tlb' = [i \in CPU |-> Disown(tlb[i], m)]
      /\ UNCHANGED <<tlb_flush_pending, pc, active_mm, next>>
  BY DEF RecycleMm, localVars
<1>2. e[2] \in MM /\ e[2] # Gone
  BY MmAssumption, SMT
<1>3. e[2] # m
  <2>1. PICK f \in tlb[d] : e = IF f[2] = m THEN <<f[1], Gone>> ELSE f
    BY <1>1 DEF Disown
  <2>2. CASE f[2] = m
    <3>1. e = <<f[1], Gone>>
      BY <2>1, <2>2
    <3>2. QED
      BY <1>2, <3>1, SMT
  <2>3. QED
    BY <2>1, <2>2
<1>4. context_id'[e[2]] = context_id[e[2]]
  BY <1>1, <1>2, <1>3 DEF IndInv, TypeOK
<1>5. QED
  BY <1>1, <1>4 DEF OutOfReach, Committed

(* The steps the composition takes from the allocator.                     *)
AllocatorStep ==
  \/ \E c \in CPU : Start(c) \/ Continue(c) \/ TableWalk(c)
  \/ \E m \in Mortal \ {flush_mm} : RecycleMm(m)

(* None of them brings a stale entry back within reach.                    *)
LEMMA StaysOutOfReach ==
  ASSUME IndInv, AllocatorStep, NEW d \in CPU, NEW e \in Index \X MM,
         e \in tlb[d], e \in tlb'[d], OutOfReach(d, e)
  PROVE  OutOfReach(d, e)'
<1>1. ASSUME NEW c \in CPU, Start(c) \/ CmpxchgActive(c) \/ SameProcess(c)
      PROVE  OutOfReach(d, e)'
  <2>1. UNCHANGED <<tlb_flush_pending, context_id>>
    BY <1>1, StartStep, CmpxchgStep, SameProcessStep
  <2>2. Committed(d)' \in {Committed(d), InitMm} \/ d \notin tlb_flush_pending
    BY <1>1, StartStep, CmpxchgStep, SameProcessStep
  <2>3. QED
    BY <2>1, <2>2, QuietStep
<1>2. ASSUME NEW c \in CPU, KeepReserved(c) \/ ReuseIndex(c) \/ AllocateIndex(c)
      PROVE  OutOfReach(d, e)'
  BY <1>2, NewIdStep
<1>3. ASSUME NEW c \in CPU, AllocateAfterRollover(c)
      PROVE  OutOfReach(d, e)'
  BY <1>3, AfterRolloverStep
<1>4. ASSUME NEW c \in CPU, Activate(c)
      PROVE  OutOfReach(d, e)'
  BY <1>4, ActivateStep
<1>5. ASSUME NEW m \in Mortal, RecycleMm(m)
      PROVE  OutOfReach(d, e)'
  BY <1>5, BoundAssumption, RecycleStep
<1>6. ASSUME NEW c \in CPU, Continue(c)
      PROVE  \/ CmpxchgActive(c) \/ SameProcess(c)
             \/ KeepReserved(c) \/ ReuseIndex(c) \/ AllocateIndex(c)
             \/ AllocateAfterRollover(c) \/ Activate(c)
  BY <1>6 DEF Continue, EnterSlowPath, SameProcess
<1>7. QED
  BY <1>1, <1>2, <1>3, <1>4, <1>5, <1>6 DEF AllocatorStep, SameProcess

-----------------------------------------------------------------------------
(* An invalidation from outside keeps the invariant of the allocator: it   *)
(* only takes entries away.                                                *)
LEMMA TlbiKeepsIndInv ==
  ASSUME IndInv, TlbiBroadcast
  PROVE  IndInv'
<1>1. /\ UNCHANGED allocVars
      /\ UNCHANGED <<asid_generation, asid_map, cur_idx, active_asids, reserved_asids>>
      /\ UNCHANGED <<tlb_flush_pending, context_id, lock, scan, pc, active_mm, next>>
      /\ UNCHANGED <<asid, old_active_asid, ttbr0>>
      /\ tlb' = [c \in CPU |-> {e \in tlb[c] : e[1] # flush_asid \/ e[2] = Idmap}]
  BY DEF TlbiBroadcast, AllButTlb, allocVars, localVars
<1>2. \A c \in CPU : tlb'[c] \subseteq tlb[c]
  BY <1>1
<1>3. TypeOK'
  <2>1. TypeOK /\ tlb' \in [CPU -> SUBSET Translation]
    BY <1>1, <1>2 DEF IndInv, TypeOK
  <2>2. QED
    BY <1>1, <2>1 DEF TypeOK
<1>4. Scanning' = Scanning
  BY <1>1 DEF Scanning
<1>5. LockInv'
  BY <1>1, <1>4 DEF IndInv, ControlInv, LockInv
<1>6. /\ IssueGen' = IssueGen /\ IdInv' /\ HeldInv'
      /\ \A d \in CPU : Held(d)' = Held(d)
      /\ \A e : Exclusive(e)' = Exclusive(e)
      /\ \A id : ReservedHit(id)' = ReservedHit(id)
  BY <1>1, <1>4, AllocFrame
<1>7. ASSUME NEW c \in CPU PROVE CpuControl(c)' /\ CpuCall(c)' /\ CpuTlb(c)'
  <2>1. CpuControl(c) /\ CpuCall(c) /\ CpuTlb(c)
    BY CpuInv
  <2>2. Switching(c)' = Switching(c) /\ Committed(c)' = Committed(c)
    BY <1>1 DEF Switching, Committed
  <2>3. \A e \in Cached(c)' : e \in Cached(c)
    BY <1>1, <1>2 DEF Cached
  <2>4. \A e \in Hits(c)' : e \in Hits(c)
    BY <1>1, <1>2 DEF Hits
  <2>5. CpuControl(c)'
    BY <1>1, <2>1, <2>2 DEF CpuControl
  <2>6. CpuCall(c)'
    BY <1>1, <1>6, <2>1, <2>2 DEF CpuCall
  <2>7. CpuTlb(c)'
    BY <1>1, <1>2, <1>6, <2>1, <2>2, <2>3, <2>4 DEF CpuTlb
  <2>8. QED
    BY <2>5, <2>6, <2>7
<1>8. QED
  BY <1>3, <1>5, <1>6, <1>7 DEF IndInv, ControlInv, CallInv, TlbInv

-----------------------------------------------------------------------------
(* The steps of the composition keep its invariant.                        *)

LEMMA AllocatorKeeps ==
  ASSUME ShootdownInv, AllocatorStep, StaleCached, UNCHANGED flushVars
  PROVE  ShootdownInv'
<1>1. IndInv'
  <2>1. Next
    BY DEF AllocatorStep, Next
  <2>2. QED
    BY <2>1, NextInv DEF ShootdownInv
<1>2. /\ UNCHANGED <<flush_pc, flush_mm, flush_asid, pte_buffered, raced>>
      /\ stale' = [c \in CPU |-> stale[c] \cap tlb'[c]]
      /\ stale \in [CPU -> SUBSET (Index \X MM)]
  BY DEF ShootdownInv, ShootdownTypeOK, StaleCached, flushVars
<1>3. ShootdownTypeOK'
  <2>1. stale' \in [CPU -> SUBSET (Index \X MM)]
    BY <1>2
  <2>2. QED
    BY <1>2, <2>1 DEF ShootdownInv, ShootdownTypeOK
<1>4. ASSUME NEW c \in CPU, NEW e \in stale'[c]
      PROVE  e \in tlb'[c] /\ (AwaitsFlush(e)' \/ OutOfReach(c, e)')
  <2>1. /\ e \in stale[c] /\ e \in tlb'[c] /\ e \in Index \X MM
        /\ e \in tlb[c] /\ (AwaitsFlush(e) \/ OutOfReach(c, e))
    BY <1>2, <1>4 DEF ShootdownInv, StaleInv
  <2>2. AwaitsFlush(e) => AwaitsFlush(e)'
    BY <1>2 DEF AwaitsFlush
  <2>3. OutOfReach(c, e) => OutOfReach(c, e)'
    BY <2>1, StaysOutOfReach DEF ShootdownInv
  <2>4. QED
    BY <2>1, <2>2, <2>3
<1>5. QED
  BY <1>1, <1>3, <1>4 DEF ShootdownInv, StaleInv

(* What the unmapping context does leaves the allocator alone, except that *)
(* the invalidation takes entries away.                                    *)
LEMMA ReachUnchanged ==
  ASSUME UNCHANGED <<tlb_flush_pending, context_id, pc, active_mm, next>>
  PROVE  \A c, e : OutOfReach(c, e)' = OutOfReach(c, e)
  BY DEF OutOfReach, Committed

LEMMA VarsUnchanged ==
  ASSUME IndInv, UNCHANGED vars
  PROVE  /\ IndInv' /\ UNCHANGED <<tlb, context_id>>
         /\ \A c, e : OutOfReach(c, e)' = OutOfReach(c, e)
<1>1. UNCHANGED <<tlb, tlb_flush_pending, context_id, pc, active_mm, next>>
  BY DEF vars, allocVars, localVars, mmuVars
<1>2. QED
  BY <1>1, StutterInv, ReachUnchanged

LEMMA ClearPteKeeps ==
  ASSUME ShootdownInv, NEW m \in Unmapped, ClearPte(m)
  PROVE  ShootdownInv'
<1>1. /\ flush_pc = "idle" /\ flush_pc' = "load_asid" /\ flush_mm' = m
      /\ pte_buffered' = TRUE /\ UNCHANGED <<vars, flush_asid, stale, raced>>
  BY DEF ClearPte, Idle
<1>2. m \in MM /\ m # InitMm
  BY UnmappedAssumption, MmAssumption
<1>3. /\ IndInv' /\ UNCHANGED <<tlb, context_id>>
      /\ \A c, e : OutOfReach(c, e)' = OutOfReach(c, e)
  BY <1>1, VarsUnchanged DEF ShootdownInv
<1>4. ShootdownTypeOK'
  BY <1>1, <1>2 DEF ShootdownInv, ShootdownTypeOK
<1>5. flush_mm = InitMm
  BY <1>1 DEF ShootdownInv, ShootdownTypeOK
<1>6. ASSUME NEW c \in CPU, NEW e \in stale[c]
      PROVE  e \in tlb[c] /\ (AwaitsFlush(e)' \/ OutOfReach(c, e))
  <2>1. e \in Index \X MM /\ e \in tlb[c] /\ (AwaitsFlush(e) \/ OutOfReach(c, e))
    BY <1>6 DEF ShootdownInv, StaleInv, ShootdownTypeOK
  <2>2. e[2] # InitMm
    BY <2>1, MmAssumption, SMT
  <2>3. AwaitsFlush(e) => AwaitsFlush(e)'
    BY <1>1, <1>5, <2>2 DEF AwaitsFlush
  <2>4. QED
    BY <2>1, <2>3
<1>7. QED
  BY <1>1, <1>3, <1>4, <1>6 DEF ShootdownInv, StaleInv

(* The store becomes visible: what the TLBs have cached from the tables is *)
(* stale from now on, and is under the index the flush has loaded or will  *)
(* load, or out of reach, or the flush has lost its race.                  *)
LEMMA DrainStoreKeeps ==
  ASSUME ShootdownInv, DrainStore
  PROVE  ShootdownInv'
<1>1. /\ pte_buffered /\ pte_buffered' = FALSE
      /\ stale' = [c \in CPU |-> stale[c] \cup {e \in tlb[c] : e[2] = flush_mm}]
      /\ raced' = IF flush_pc = "barrier" /\ flush_asid # asid2idx(context_id[flush_mm])
                  THEN raced \cup {flush_mm} ELSE raced
      /\ UNCHANGED <<vars, flush_pc, flush_mm, flush_asid>>
  BY DEF DrainStore, PteVisible
<1>2. /\ IndInv' /\ UNCHANGED <<tlb, context_id>>
      /\ \A c, e : OutOfReach(c, e)' = OutOfReach(c, e)
  BY <1>1, VarsUnchanged DEF ShootdownInv
<1>3. flush_pc \in {"load_asid", "barrier"} /\ flush_mm \in MM
  BY <1>1 DEF ShootdownInv, ShootdownTypeOK
<1>4. ShootdownTypeOK'
  <2>1. tlb \in [CPU -> SUBSET Translation] /\ stale \in [CPU -> SUBSET (Index \X MM)]
    BY DEF ShootdownInv, IndInv, TypeOK, ShootdownTypeOK
  <2>2. \A e \in Translation : e[2] = flush_mm => e \in Index \X MM
    BY <1>3, SMT DEF Translation
  <2>3. stale' \in [CPU -> SUBSET (Index \X MM)]
    BY <1>1, <2>1, <2>2
  <2>4. raced' \in SUBSET MM
    BY <1>1, <1>3 DEF ShootdownInv, ShootdownTypeOK
  <2>5. QED
    BY <1>1, <1>3, <2>3, <2>4 DEF ShootdownInv, ShootdownTypeOK
<1>5. ASSUME NEW c \in CPU, NEW e \in stale'[c]
      PROVE  e \in tlb[c] /\ (AwaitsFlush(e)' \/ OutOfReach(c, e))
  <2>1. e \in stale[c] \/ (e \in tlb[c] /\ e[2] = flush_mm)
    BY <1>1, <1>5
  <2>2. e \in tlb[c] /\ (AwaitsFlush(e) \/ OutOfReach(c, e) \/ e[2] = flush_mm)
    BY <2>1 DEF ShootdownInv, StaleInv
  <2>3. CASE e[2] = flush_mm
    BY <1>1, <1>3, <2>2, <2>3 DEF AwaitsFlush, OutOfReach
  <2>4. CASE e[2] # flush_mm
    BY <1>1, <2>2, <2>4 DEF AwaitsFlush
  <2>5. QED
    BY <2>3, <2>4
<1>6. QED
  BY <1>2, <1>4, <1>5 DEF ShootdownInv, StaleInv

(* The index is loaded: if the store is visible already, what is stale has *)
(* this index or is out of reach.                                          *)
LEMMA LoadAsidKeeps ==
  ASSUME ShootdownInv, LoadAsid
  PROVE  ShootdownInv'
<1>1. /\ flush_pc = "load_asid" /\ flush_pc' = "barrier"
      /\ flush_asid' = asid2idx(context_id[flush_mm])
      /\ UNCHANGED <<vars, flush_mm, pte_buffered, stale, raced>>
  BY DEF LoadAsid
<1>2. /\ IndInv' /\ UNCHANGED <<tlb, context_id>>
      /\ \A c, e : OutOfReach(c, e)' = OutOfReach(c, e)
  BY <1>1, VarsUnchanged DEF ShootdownInv
<1>3. ShootdownTypeOK'
  <2>1. flush_mm \in MM
    BY <1>1 DEF ShootdownInv, ShootdownTypeOK
  <2>2. flush_asid' \in Index
    BY <1>1, <2>1, IdTypes, IdParts DEF ShootdownInv
  <2>3. QED
    BY <1>1, <2>1, <2>2 DEF ShootdownInv, ShootdownTypeOK
<1>4. ASSUME NEW c \in CPU, NEW e \in stale[c]
      PROVE  e \in tlb[c] /\ (AwaitsFlush(e)' \/ OutOfReach(c, e))
  <2>1. e \in tlb[c] /\ (AwaitsFlush(e) \/ OutOfReach(c, e))
    BY <1>4 DEF ShootdownInv, StaleInv
  <2>2. CASE e[2] = flush_mm
    BY <1>1, <2>1, <2>2 DEF AwaitsFlush, OutOfReach
  <2>3. CASE e[2] # flush_mm
    BY <1>1, <2>1, <2>3 DEF AwaitsFlush
  <2>4. QED
    BY <2>2, <2>3
<1>5. QED
  BY <1>1, <1>2, <1>3, <1>4 DEF ShootdownInv, StaleInv

(* The invalidation removes every stale entry that awaited it.             *)
LEMMA TlbiBroadcastKeeps ==
  ASSUME ShootdownInv, TlbiBroadcast
  PROVE  ShootdownInv'
<1>1. /\ flush_pc = "barrier" /\ ~ pte_buffered
      /\ flush_pc' = "idle" /\ flush_mm' = InitMm /\ flush_asid' = 0
      /\ tlb' = [c \in CPU |-> {e \in tlb[c] : e[1] # flush_asid \/ e[2] = Idmap}]
      /\ stale' = [c \in CPU |-> stale[c] \cap tlb'[c]]
      /\ UNCHANGED <<pte_buffered, raced>>
      /\ UNCHANGED <<tlb_flush_pending, context_id, pc, active_mm, next>>
  BY DEF TlbiBroadcast, StaleCached, AllButTlb, allocVars, localVars
<1>2. IndInv'
  BY TlbiKeepsIndInv DEF ShootdownInv
<1>3. stale \in [CPU -> SUBSET (Index \X MM)]
  BY DEF ShootdownInv, ShootdownTypeOK
<1>4. ShootdownTypeOK'
  <2>1. stale' \in [CPU -> SUBSET (Index \X MM)]
    BY <1>1, <1>3
  <2>2. QED
    BY <1>1, <2>1, ZeroTypes DEF ShootdownInv, ShootdownTypeOK
<1>5. ASSUME NEW c \in CPU, NEW e \in stale'[c]
      PROVE  e \in tlb'[c] /\ (AwaitsFlush(e)' \/ OutOfReach(c, e)')
  <2>1. e \in stale[c] /\ e \in tlb'[c] /\ e \in Index \X MM
    BY <1>1, <1>3, <1>5
  <2>2. e[1] # flush_asid
    <3>1. e[2] # Idmap
      BY <2>1, MmAssumption, SMT
    <3>2. QED
      BY <1>1, <2>1, <3>1
  <2>3. AwaitsFlush(e) \/ OutOfReach(c, e)
    BY <2>1 DEF ShootdownInv, StaleInv
  <2>4. AwaitsFlush(e) => AwaitsFlush(e)'
    BY <1>1, <2>2 DEF AwaitsFlush
  <2>5. QED
    BY <1>1, <2>1, <2>3, <2>4, ReachUnchanged
<1>6. QED
  BY <1>2, <1>4, <1>5 DEF ShootdownInv, StaleInv

LEMMA ShootdownInitInv == ShootdownInit => ShootdownInv
<1> SUFFICES ASSUME ShootdownInit PROVE ShootdownInv
  OBVIOUS
<1>1. IndInv
  BY InitInv DEF ShootdownInit
<1>2. ShootdownTypeOK /\ \A c \in CPU : stale[c] = {}
  BY ZeroTypes DEF ShootdownInit, ShootdownTypeOK
<1>3. QED
  BY <1>1, <1>2 DEF ShootdownInv, StaleInv

LEMMA ShootdownNextInv == ShootdownInv /\ [ShootdownNext]_shootdownVars => ShootdownInv'
<1> SUFFICES ASSUME ShootdownInv, [ShootdownNext]_shootdownVars PROVE ShootdownInv'
  OBVIOUS
<1>1. CASE UNCHANGED shootdownVars
  <2>1. /\ UNCHANGED vars
        /\ UNCHANGED <<flush_pc, flush_mm, flush_asid, pte_buffered, raced, stale>>
    BY <1>1 DEF shootdownVars, flushVars
  <2>2. /\ IndInv' /\ UNCHANGED <<tlb, context_id>>
        /\ \A c, e : OutOfReach(c, e)' = OutOfReach(c, e)
    BY <2>1, VarsUnchanged DEF ShootdownInv
  <2>3. ShootdownTypeOK' /\ \A e : AwaitsFlush(e)' = AwaitsFlush(e)
    BY <2>1 DEF ShootdownInv, ShootdownTypeOK, AwaitsFlush
  <2>4. QED
    BY <2>1, <2>2, <2>3 DEF ShootdownInv, StaleInv
<1>2. CASE AllocatorStep /\ StaleCached /\ UNCHANGED flushVars
  BY <1>2, AllocatorKeeps
<1>3. QED
  BY <1>1, <1>2, ClearPteKeeps, DrainStoreKeeps, LoadAsidKeeps, TlbiBroadcastKeeps
     DEF ShootdownNext, AllocatorStep

-----------------------------------------------------------------------------
(* The theorems.                                                           *)

(* ShootdownInv is an invariant of the composition.                        *)
THEOREM ShootdownInvariance == ShootdownSpec => []ShootdownInv
  BY ShootdownInitInv, ShootdownNextInv, PTL DEF ShootdownSpec

(* Type correctness: the unmapping context has an mm exactly while it is   *)
(* busy, and its store waits only while it is busy.                        *)
THEOREM ShootdownTypeCorrect == ShootdownSpec => []ShootdownTypeOK
<1>1. ShootdownInv => ShootdownTypeOK
  BY DEF ShootdownInv
<1>2. QED
  BY <1>1, ShootdownInvariance, PTL

(* Invalidations from outside leave the promise of the allocator intact.   *)
THEOREM TlbIsolatedUnderShootdown == ShootdownSpec => []TlbIsolation
<1>1. ShootdownInv => TlbIsolation
  BY DEF ShootdownInv, IndInv, TlbInv, CpuTlb, TlbIsolation
<1>2. QED
  BY <1>1, ShootdownInvariance, PTL

(* A CPU that translates with the tables of a process hits a translation   *)
(* from before a change of them only while the change is under way, or if  *)
(* the process got another ASID between the load of the old one and the    *)
(* barrier of the flush.                                                   *)
THEOREM StaleOnlyInWindow == ShootdownSpec => []StaleHitsOnlyIfRaced
<1>1. ASSUME ShootdownInv PROVE StaleHitsOnlyIfRaced
  <2> SUFFICES ASSUME NEW c \in CPU, Translates(c), NEW e \in StaleHits(c)
               PROVE  ttbr0[c][2] \in raced \cup {flush_mm}
    BY DEF StaleHitsOnlyIfRaced
  <2>1. /\ IndInv /\ CpuControl(c) /\ CpuTlb(c) /\ pc[c] \in Label
        /\ ttbr0[c][2] \in MM /\ pc[c] # "set_reserved"
    BY <1>1, CpuInv DEF ShootdownInv, IndInv, TypeOK, Translates
  <2>2. NoTables[2] \notin MM /\ <<0, Idmap>>[2] \notin MM
    BY MmAssumption, SMT DEF NoTables
  <2>3. /\ pc[c] = "run" \/ Switching(c)
        /\ pc[c] \notin Install
    BY <2>1, <2>2 DEF CpuControl, Label, Switching, Install, Idmapped, Fast, Locked
  <2>4. /\ ttbr0[c] = <<asid2idx(context_id[active_mm[c]]), active_mm[c]>>
        /\ Committed(c) = active_mm[c]
    BY <2>1, <2>2, <2>3 DEF CpuControl, Committed
  <2>5. /\ e \in stale[c] /\ e \in Hits(c) /\ e[2] = ttbr0[c][2]
    BY <2>1 DEF StaleHits, CpuTlb
  <2>6. e[1] = ttbr0[c][1]
    BY <2>1, <2>5, MmAssumption DEF Hits
  <2>7. e[2] = Committed(c) /\ e[1] = asid2idx(context_id[e[2]])
    BY <2>4, <2>5, <2>6, SMT
  <2>8. AwaitsFlush(e)
    BY <1>1, <2>5, <2>7 DEF ShootdownInv, StaleInv, OutOfReach
  <2>9. QED
    BY <2>5, <2>8 DEF AwaitsFlush
<1>2. QED
  BY <1>1, ShootdownInvariance, PTL
=============================================================================
