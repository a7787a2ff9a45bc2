--------------------------- MODULE AsidInvariant ---------------------------
(***************************************************************************)
(* Why the ASID allocator is right: an inductive invariant of              *)
(* AsidAllocator, stated for each CPU where it can be.  TLC checks it on   *)
(* small instances, AsidAllocatorProofs proves it for all values of the    *)
(* constants.                                                              *)
(***************************************************************************)
EXTENDS AsidAllocator

(* flush_context is at work: the generation was advanced, no id of the new *)
(* generation exists yet, and the CPUs below scan have been visited.       *)
Scanning == lock \in CPU /\ pc[lock] = "flush_context"

(* The latest generation in which ids were issued.                         *)
IssueGen == IF Scanning THEN asid_generation - 1 ELSE asid_generation

(* The mm whose id the allocator has on record for c: the one it runs,     *)
(* until a switch publishes the id of the next.                            *)
Committed(c) == IF pc[c] \in Install THEN next[c] ELSE active_mm[c]

Switching(c) == pc[c] \in {"lock"} \cup Fast \cup Locked

-----------------------------------------------------------------------------
(* Where c may be: a switch has a target other than the mm it leaves, and  *)
(* what TTBR0 holds follows from the label.                                *)
CpuControl(c) ==
  /\ Switching(c) => next[c] \in MM /\ next[c] # active_mm[c]
  /\ pc[c] \in Install => next[c] \in MM
  /\ pc[c] \in {"run"} \cup Idmapped => next[c] = InitMm
  /\ pc[c] = "run" \/ Switching(c) =>
       ttbr0[c] = IF active_mm[c] \in MM
                  THEN <<asid2idx(context_id[active_mm[c]]), active_mm[c]>>
                  ELSE NoTables
  /\ pc[c] \in {"write_ttbr0", "idmap_flush", "uninstall_flush"} => ttbr0[c] = NoTables
  /\ pc[c] = "idmap" => ttbr0[c] = <<0, Idmap>>
  /\ pc[c] = "set_reserved" =>
       \/ ttbr0[c] = NoTables
       \/ /\ ttbr0[c][2] = active_mm[c]
          /\ active_mm[c] \in MM /\ active_mm[c] # next[c]
          /\ ttbr0[c][1] # 0
          /\ ttbr0[c][1] # asid2idx(context_id[next[c]])

(* The lock is held by exactly the CPU inside the locked region.           *)
LockInv ==
  /\ \A c \in CPU : pc[c] \in Locked <=> lock = c
  /\ ~ Scanning => scan = 0

ControlInv == LockInv /\ \A c \in CPU : CpuControl(c)

(* What the ids say: none is from the future, no two processes share one,  *)
(* an id of this generation has its bit set.                               *)
IdInv ==
  /\ IssueGen \in Nat \ {0}
  /\ \A m \in MM : context_id[m] # NoAsid =>
       /\ Generation(context_id[m]) \in 1 .. IssueGen
       /\ asid2idx(context_id[m]) # 0
       /\ Generation(context_id[m]) = asid_generation => asid2idx(context_id[m]) \in asid_map
  /\ \A m, n \in MM : context_id[m] = context_id[n] /\ context_id[m] # NoAsid => m = n

(* An active id is of the latest generation, and a rollover that has       *)
(* visited c has taken it away.                                            *)
ActiveId(c) ==
  active_asids[c] # NoAsid =>
    /\ Generation(active_asids[c]) = IssueGen
    /\ asid2idx(active_asids[c]) # 0
    /\ Scanning => c >= scan
    /\ ~ Scanning => asid2idx(active_asids[c]) \in asid_map
    /\ c \notin tlb_flush_pending

(* Nobody has an id of the latest generation with index k.                 *)
Unissued(k) ==
  /\ \A m \in MM : context_id[m] # <<IssueGen, k>>
  /\ \A d \in CPU : active_asids[d] # <<IssueGen, k>>

(* A reserved id keeps its bit, and one that was not carried into the      *)
(* latest generation keeps everybody else off its index.                   *)
ReservedId(c) ==
  reserved_asids[c] # NoAsid =>
    /\ Generation(reserved_asids[c]) \in 1 .. IssueGen
    /\ asid2idx(reserved_asids[c]) # 0
    /\ ~ Scanning => asid2idx(reserved_asids[c]) \in asid_map
    /\ Generation(reserved_asids[c]) < IssueGen => Unissued(asid2idx(reserved_asids[c]))

(* One index is reserved under one id only.                                *)
ReservedOnce ==
  \A c, d \in CPU :
    /\ reserved_asids[c] # NoAsid /\ reserved_asids[d] # NoAsid
    /\ asid2idx(reserved_asids[c]) = asid2idx(reserved_asids[d])
    => reserved_asids[c] = reserved_asids[d]

(* While flush_context runs, the map holds what it has reserved so far.    *)
MapInv == Scanning => asid_map = {asid2idx(reserved_asids[i]) : i \in 0 .. scan - 1}

(* What the per-CPU ids say.                                               *)
HeldInv ==
  /\ \A c \in CPU : ActiveId(c) /\ ReservedId(c)
  /\ ReservedOnce
  /\ MapInv

(* What c knows in the middle of a call: its locals are true enough, the   *)
(* process a rollover is for has no id that a CPU is running under, and    *)
(* the id on record for c is that of its committed mm.                     *)
CpuCall(c) ==
  /\ pc[c] \in Fast => \/ asid[c] = context_id[next[c]]
                       \/ Generation(asid[c]) < asid_generation
  /\ pc[c] \in {"read_generation", "cmpxchg"} =>
       /\ old_active_asid[c] # NoAsid
       /\ active_asids[c] \in {NoAsid, old_active_asid[c]}
  /\ pc[c] = "cmpxchg" /\ active_asids[c] # NoAsid =>
       /\ asid[c] = context_id[next[c]]
       /\ Generation(asid[c]) = IssueGen
  /\ pc[c] = "flush_context" =>
       /\ Generation(context_id[next[c]]) # IssueGen
       /\ context_id[next[c]] # NoAsid => ~ ReservedHit(context_id[next[c]])
  /\ pc[c] = "activate" =>
       /\ asid[c] = context_id[next[c]]
       /\ Generation(asid[c]) = asid_generation
  /\ pc[c] = "write_ttbr0" => asid2idx(asid[c]) = asid2idx(context_id[next[c]])
  /\ Committed(c) \in MM => /\ Held(c) = context_id[Committed(c)]
                            /\ Held(c) # NoAsid

CallInv == \A c \in CPU : CpuCall(c)

(* The translations c holds or is about to cache.                          *)
Cached(c) == tlb[c] \cup {ttbr0[c]}

(* Process m may come to run under index k without a rollover.             *)
MayRunUnder(m, k) ==
  /\ context_id[m] # NoAsid
  /\ asid2idx(context_id[m]) = k
  /\ \/ Generation(context_id[m]) = IssueGen
     \/ \E d \in CPU : reserved_asids[d] = context_id[m]

(* An entry keeps its index from everyone but its owner.                   *)
Exclusive(e) ==
  /\ ~ Scanning => e[1] \in asid_map
  /\ \A m \in MM : MayRunUnder(m, e[1]) => m = e[2]

(* What the TLB of c holds.  If no flush is queued its entries are         *)
(* exclusive; in any case the index of the committed mm is clean, and that *)
(* of the tables in use (TlbIsolation).                                    *)
CpuTlb(c) ==
  /\ \A e \in tlb[c] :
       /\ e[2] # InitMm
       /\ (e[1] = 0) <=> (e[2] = Idmap)
       /\ e[2] = Idmap => pc[c] \in {"idmap", "uninstall_flush"}
  /\ c \notin tlb_flush_pending => \A e \in Cached(c) : e[1] # 0 => Exclusive(e)
  /\ Committed(c) \in MM =>
       \A e \in tlb[c] : e[1] = asid2idx(context_id[Committed(c)]) => e[2] = Committed(c)
  /\ ttbr0[c][2] \in MM => \A e \in Hits(c) : e[2] = ttbr0[c][2]

TlbInv == \A c \in CPU : CpuTlb(c)

IndInv ==
  /\ TypeOK
  /\ ControlInv
  /\ IdInv
  /\ HeldInv
  /\ CallInv
  /\ TlbInv
=============================================================================
