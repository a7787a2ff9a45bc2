-------------------------- MODULE AsidSwitchProofs --------------------------
(***************************************************************************)
(* Facts about the constants and operators of AsidAllocator, about steps   *)
(* that leave parts of the state alone, and consequences of IndInv that    *)
(* several actions need.                                                   *)
(*                                                                         *)
(* With them, the steps outside the allocator keep IndInv.  First those of *)
(* a switch: the reads of the fast path of check_and_switch_context, the   *)
(* writes of TTBR0 in cpu_switch_mm, and the two places where an id is     *)
(* published in active_asids, the exchange of the fast path and the store  *)
(* under the lock.  Then those that change what a TLB holds or may come to *)
(* hold: the identity map, the table walker, and the reuse of an           *)
(* mm_struct.                                                              *)
(***************************************************************************)
EXTENDS AsidInvariant, TLAPS

USE ZenonT(20)

-----------------------------------------------------------------------------
(* Facts about the constants and the operators.                            *)

(* The lock's free value is no CPU.                                        *)
LEMMA CpuFacts == NoCpu \notin CPU /\ CPU \subseteq Nat
  BY CpuAssumption, SMT DEF NoCpu, CPU

(* Index 0 and the id 0 are in their types.                                *)
LEMMA ZeroTypes ==
  /\ 0 \in Index /\ 1 \in Index /\ Index \subseteq Nat
  /\ NoAsid \in ContextId
  /\ NoTables \in Translation
  /\ <<0, Idmap>> \in Translation
  BY AsidAssumption, CpuAssumption, SMT DEF Index, ContextId, NoAsid, NoTables, Translation

(* An id is made of a generation and an index, and is determined by them.  *)
LEMMA IdParts ==
  ASSUME NEW a \in ContextId
  PROVE  /\ Generation(a) \in Nat
         /\ asid2idx(a) \in Index
         /\ \A g, k : a = <<g, k>> <=> Generation(a) = g /\ asid2idx(a) = k
         /\ \A b \in ContextId :
              Generation(a) = Generation(b) /\ asid2idx(a) = asid2idx(b) => a = b
         /\ asid2idx(a) # 0 => a # NoAsid
  BY SMT DEF ContextId, Generation, asid2idx, NoAsid

-----------------------------------------------------------------------------
(* Consequences of the invariant used in several actions.                  *)

(* What the invariant says of each CPU.                                    *)
LEMMA CpuInv ==
  ASSUME IndInv, NEW c \in CPU
  PROVE  /\ CpuControl(c) /\ CpuCall(c) /\ CpuTlb(c)
         /\ ActiveId(c) /\ ReservedId(c)
  BY DEF IndInv, ControlInv, CallInv, TlbInv, HeldInv

(* A step that leaves the allocator alone and starts or ends no rollover   *)
(* keeps what the invariant says of ids.                                   *)
LEMMA AllocFrame ==
  ASSUME IndInv, UNCHANGED allocVars, Scanning' = Scanning
  PROVE  /\ IssueGen' = IssueGen /\ IdInv' /\ HeldInv'
         /\ \A d \in CPU : Held(d)' = Held(d)
         /\ \A m, k : MayRunUnder(m, k)' = MayRunUnder(m, k)
         /\ \A e : Exclusive(e)' = Exclusive(e)
         /\ \A id : ReservedHit(id)' = ReservedHit(id)
<1>1. /\ UNCHANGED <<asid_generation, asid_map, active_asids, reserved_asids>>
      /\ UNCHANGED <<tlb_flush_pending, context_id, scan>>
  BY DEF allocVars
<1>2. IssueGen' = IssueGen
  BY <1>1 DEF IssueGen
<1>3. IdInv'
  BY <1>1, <1>2 DEF IndInv, IdInv
<1>4. HeldInv'
  <2>1. HeldInv
    BY DEF IndInv
  <2>2. \A k : Unissued(k)' = Unissued(k)
    BY <1>1, <1>2 DEF Unissued
  <2>3. \A c \in CPU : ActiveId(c)' /\ ReservedId(c)'
    BY <1>1, <1>2, <2>1, <2>2 DEF HeldInv, ActiveId, ReservedId
  <2>4. ReservedOnce' /\ MapInv'
    BY <1>1, <2>1 DEF HeldInv, ReservedOnce, MapInv
  <2>5. QED
    BY <2>3, <2>4 DEF HeldInv
<1>5. /\ \A d \in CPU : Held(d)' = Held(d)
      /\ \A id : ReservedHit(id)' = ReservedHit(id)
  BY <1>1 DEF Held, ReservedHit
<1>6. \A m, k : MayRunUnder(m, k)' = MayRunUnder(m, k)
  BY <1>1, <1>2 DEF MayRunUnder
<1>7. \A e : Exclusive(e)' = Exclusive(e)
  BY <1>1, <1>6 DEF Exclusive
<1>8. QED
  BY <1>2, <1>3, <1>4, <1>5, <1>6, <1>7

(* A step of c outside the locked region starts and ends no rollover.      *)
LEMMA LocalFrame ==
  ASSUME IndInv, NEW c \in CPU, NEW l,
         UNCHANGED allocVars,
         pc' = [pc EXCEPT ![c] = l], pc[c] \notin Locked, l \notin Locked
  PROVE  /\ Scanning' = Scanning /\ LockInv'
         /\ IssueGen' = IssueGen /\ IdInv' /\ HeldInv'
         /\ \A d \in CPU : Held(d)' = Held(d)
         /\ \A m, k : MayRunUnder(m, k)' = MayRunUnder(m, k)
         /\ \A e : Exclusive(e)' = Exclusive(e)
         /\ \A id : ReservedHit(id)' = ReservedHit(id)
<1>1. UNCHANGED <<lock, scan>> /\ LockInv /\ pc \in [CPU -> Label]
  BY DEF allocVars, IndInv, ControlInv, TypeOK
<1>2. Scanning' = Scanning
  BY <1>1 DEF Scanning, Locked
<1>3. LockInv'
  BY <1>1, <1>2 DEF LockInv
<1>4. QED
  BY <1>2, <1>3, AllocFrame

(* What a step of c leaves alone of every other CPU.                       *)
OthersUnchanged(c) ==
  \A d \in CPU : d # c =>
    /\ pc'[d] = pc[d] /\ active_mm'[d] = active_mm[d] /\ next'[d] = next[d]
    /\ asid'[d] = asid[d] /\ old_active_asid'[d] = old_active_asid[d]
    /\ ttbr0'[d] = ttbr0[d] /\ tlb'[d] = tlb[d]

(* A step of c that leaves the allocator alone keeps the invariant if it   *)
(* keeps what is said of c itself.                                         *)
LEMMA CpuStep ==
  ASSUME IndInv, NEW c \in CPU,
         UNCHANGED allocVars, Scanning' = Scanning, LockInv',
         OthersUnchanged(c),
         TypeOK', CpuControl(c)', CpuCall(c)', CpuTlb(c)'
  PROVE  IndInv'
<1>1. /\ IssueGen' = IssueGen /\ IdInv' /\ HeldInv'
      /\ \A d \in CPU : Held(d)' = Held(d)
      /\ \A m, k : MayRunUnder(m, k)' = MayRunUnder(m, k)
      /\ \A e : Exclusive(e)' = Exclusive(e)
      /\ \A id : ReservedHit(id)' = ReservedHit(id)
  BY AllocFrame
<1>2. /\ asid_generation' = asid_generation /\ active_asids' = active_asids
      /\ context_id' = context_id /\ tlb_flush_pending' = tlb_flush_pending
  BY DEF allocVars
<1>3. ASSUME NEW d \in CPU, d # c
      PROVE  CpuControl(d)' /\ CpuCall(d)' /\ CpuTlb(d)'
  <2>1. /\ pc'[d] = pc[d] /\ active_mm'[d] = active_mm[d] /\ next'[d] = next[d]
        /\ asid'[d] = asid[d] /\ old_active_asid'[d] = old_active_asid[d]
        /\ ttbr0'[d] = ttbr0[d] /\ tlb'[d] = tlb[d]
    BY <1>3 DEF OthersUnchanged
  <2>2. /\ Switching(d)' = Switching(d) /\ Committed(d)' = Committed(d)
        /\ Cached(d)' = Cached(d) /\ Hits(d)' = Hits(d)
    BY <2>1 DEF Switching, Committed, Cached, Hits
  <2>3. CpuControl(d) /\ CpuCall(d) /\ CpuTlb(d)
    BY CpuInv
  <2>4. CpuControl(d)'
    BY <1>2, <2>1, <2>2, <2>3 DEF CpuControl
  <2>5. CpuCall(d)'
    BY <1>1, <1>2, <2>1, <2>2, <2>3 DEF CpuCall
  <2>6. CpuTlb(d)'
    BY <1>1, <1>2, <2>1, <2>2, <2>3 DEF CpuTlb
  <2>7. QED
    BY <2>4, <2>5, <2>6
<1>4. ControlInv' /\ CallInv' /\ TlbInv'
  BY <1>3 DEF ControlInv, CallInv, TlbInv
<1>5. QED
  BY <1>1, <1>4 DEF IndInv

(* So does a step outside the locked region.                               *)
LEMMA LocalStep ==
  ASSUME IndInv, NEW c \in CPU, NEW l,
         UNCHANGED allocVars,
         pc' = [pc EXCEPT ![c] = l], pc[c] \notin Locked, l \notin Locked,
         OthersUnchanged(c),
         TypeOK', CpuControl(c)', CpuCall(c)', CpuTlb(c)'
  PROVE  IndInv'
<1>1. Scanning' = Scanning /\ LockInv'
  BY LocalFrame
<1>2. QED
  BY <1>1, CpuStep

(* Two ids of one generation and one index are one id.                     *)
LEMMA SameId ==
  ASSUME NEW a \in ContextId, NEW b \in ContextId,
         Generation(a) = Generation(b), asid2idx(a) = asid2idx(b)
  PROVE  a = b
  BY IdParts

(* The id of a process, and the ids of a CPU, are ids.                     *)
LEMMA IdTypes ==
  ASSUME IndInv
  PROVE  /\ \A m \in MM : context_id[m] \in ContextId
         /\ \A c \in CPU : active_asids[c] \in ContextId /\ reserved_asids[c] \in ContextId
         /\ \A c \in CPU : Held(c) \in ContextId
         /\ asid_generation \in Nat \ {0} /\ IssueGen \in Nat \ {0}
  BY DEF IndInv, IdInv, TypeOK, Held

(* An id of the latest generation and a reserved id with its index are one *)
(* id: a reserved id that was not carried over would keep the index free.  *)
LEMMA LatestIsReserved ==
  ASSUME IndInv, NEW d \in CPU, reserved_asids[d] # NoAsid,
         NEW id \in ContextId, Generation(id) = IssueGen,
         \/ \E m \in MM : context_id[m] = id
         \/ \E i \in CPU : active_asids[i] = id,
         asid2idx(id) = asid2idx(reserved_asids[d])
  PROVE  id = reserved_asids[d]
<1> DEFINE r == reserved_asids[d]
<1>1. ReservedId(d) /\ r \in ContextId /\ IssueGen \in Nat
  BY CpuInv, IdTypes
<1>2. id = <<IssueGen, asid2idx(r)>>
  BY IdParts
<1>3. ~ Unissued(asid2idx(r))
  BY <1>2 DEF Unissued
<1>4. Generation(r) \in 1 .. IssueGen /\ ~ (Generation(r) < IssueGen)
  BY <1>1, <1>3 DEF ReservedId
<1>5. Generation(r) = IssueGen
  BY <1>1, <1>4, SMT
<1>6. QED
  BY <1>1, <1>5, SameId

(* Two CPUs on record under one index are on record under one id.          *)
LEMMA HeldConsistent ==
  ASSUME IndInv, NEW c \in CPU, NEW d \in CPU,
         Held(c) # NoAsid, Held(d) # NoAsid,
         asid2idx(Held(c)) = asid2idx(Held(d))
  PROVE  Held(c) = Held(d)
<1>1. \A i \in CPU : active_asids[i] # NoAsid => Generation(active_asids[i]) = IssueGen
  BY CpuInv DEF ActiveId
<1>2. \A i \in CPU : active_asids[i] \in ContextId /\ reserved_asids[i] \in ContextId
  BY IdTypes
<1>3. CASE active_asids[c] # NoAsid /\ active_asids[d] # NoAsid
  BY <1>1, <1>2, <1>3, SameId DEF Held
<1>4. CASE active_asids[c] # NoAsid /\ active_asids[d] = NoAsid
  <2>1. Held(c) = active_asids[c] /\ Held(d) = reserved_asids[d]
    BY <1>4 DEF Held
  <2>2. QED
    BY <1>1, <1>2, <1>4, <2>1, LatestIsReserved
<1>5. CASE active_asids[c] = NoAsid /\ active_asids[d] # NoAsid
  <2>1. Held(c) = reserved_asids[c] /\ Held(d) = active_asids[d]
    BY <1>5 DEF Held
  <2>2. QED
    BY <1>1, <1>2, <1>5, <2>1, LatestIsReserved
<1>6. CASE active_asids[c] = NoAsid /\ active_asids[d] = NoAsid
  <2>1. ReservedOnce
    BY DEF IndInv, HeldInv
  <2>2. QED
    BY <1>6, <2>1 DEF Held, ReservedOnce
<1>7. QED
  BY <1>3, <1>4, <1>5, <1>6

(* The mm a CPU is committed to owns its index: nobody else can come to    *)
(* run under it before the next rollover.                                  *)
LEMMA CommittedOwnsIndex ==
  ASSUME IndInv, NEW c \in CPU, Committed(c) \in MM
  PROVE  LET k == asid2idx(context_id[Committed(c)])
         IN  /\ k # 0 /\ k \in Index
             /\ ~ Scanning => k \in asid_map
             /\ \A m \in MM : MayRunUnder(m, k) => m = Committed(c)
<1> DEFINE n  == Committed(c)
           id == context_id[n]
           k  == asid2idx(id)
<1>1. /\ Held(c) = id /\ id # NoAsid /\ id \in ContextId
      /\ ActiveId(c) /\ ReservedId(c)
  <2>1. CpuCall(c) /\ ActiveId(c) /\ ReservedId(c)
    BY CpuInv
  <2>2. QED
    BY <2>1, IdTypes DEF CpuCall
<1>2. IdInv /\ ReservedOnce
  BY DEF IndInv, HeldInv
<1>3. k # 0 /\ k \in Index
  BY <1>1, <1>2, IdParts DEF IdInv
<1>4. ~ Scanning => k \in asid_map
  BY <1>1 DEF Held, ActiveId, ReservedId
<1>5. ASSUME NEW m \in MM, MayRunUnder(m, k)
      PROVE  m = n
  <2>1. /\ context_id[m] # NoAsid /\ asid2idx(context_id[m]) = k
        /\ context_id[m] \in ContextId
    BY <1>5, IdTypes DEF MayRunUnder
  <2>2. SUFFICES context_id[m] = id
    BY <1>2, <2>1 DEF IdInv
  <2>3. CASE active_asids[c] # NoAsid
    <3>1. active_asids[c] = id /\ Generation(id) = IssueGen
      BY <1>1, <2>3 DEF Held, ActiveId
    <3>2. CASE Generation(context_id[m]) = IssueGen
      BY <1>1, <2>1, <3>1, <3>2, SameId
    <3>3. CASE \E d \in CPU : reserved_asids[d] = context_id[m]
      <4>1. PICK d \in CPU : reserved_asids[d] = context_id[m]
        BY <3>3
      <4>2. QED
        BY <1>1, <2>1, <3>1, <4>1, LatestIsReserved
    <3>4. QED
      BY <1>5, <3>2, <3>3 DEF MayRunUnder
  <2>4. CASE active_asids[c] = NoAsid
    <3>1. reserved_asids[c] = id
      BY <1>1, <2>4 DEF Held
    <3>2. CASE Generation(context_id[m]) = IssueGen
      BY <1>1, <2>1, <3>1, <3>2, LatestIsReserved
    <3>3. CASE \E d \in CPU : reserved_asids[d] = context_id[m]
      BY <1>1, <1>2, <2>1, <3>1, <3>3 DEF ReservedOnce
    <3>4. QED
      BY <1>5, <3>2, <3>3 DEF MayRunUnder
  <2>5. QED
    BY <2>3, <2>4
<1>6. QED
  BY <1>3, <1>4, <1>5

(* A step that leaves the page tables of c, or keeps it away from them,    *)
(* and keeps its committed mm or drops it: the TLB has nothing to fear.    *)
LEMMA LeaveTablesStep ==
  ASSUME IndInv, NEW c \in CPU, NEW l,
         pc' = [pc EXCEPT ![c] = l], pc[c] \notin Locked, l \notin Locked, l \notin Fast,
         UNCHANGED allocVars, TypeOK', OthersUnchanged(c), CpuControl(c)',
         l = "write_ttbr0" => asid'[c] = context_id[next'[c]],
         ttbr0'[c] \in {NoTables, <<0, Idmap>>},
         \/ tlb'[c] = {}
         \/ /\ tlb'[c] = tlb[c]
            /\ pc[c] \in {"idmap", "uninstall_flush"} => l \in {"idmap", "uninstall_flush"},
         Committed(c)' \in {Committed(c), InitMm}
  PROVE  IndInv'
<1>1. /\ Scanning' = Scanning /\ IssueGen' = IssueGen
      /\ \A d \in CPU : Held(d)' = Held(d)
      /\ \A e : Exclusive(e)' = Exclusive(e)
  BY LocalFrame
<1>2. pc'[c] = l /\ UNCHANGED <<context_id, tlb_flush_pending>>
  BY DEF IndInv, TypeOK, allocVars
<1>3. CpuCall(c) /\ CpuTlb(c)
  BY CpuInv
<1>4. CpuCall(c)'
  <2>1. /\ l \notin {"read_generation", "cmpxchg"}
        /\ l # "flush_context" /\ l # "activate"
    BY DEF Fast, Locked
  <2>2. Committed(c)' \in MM => Committed(c)' = Committed(c)
    BY MmAssumption
  <2>3. QED
    BY <1>1, <1>2, <1>3, <2>1, <2>2 DEF CpuCall
<1>5. CpuTlb(c)'
  <2>1. ttbr0'[c][1] = 0 /\ ttbr0'[c][2] \notin MM
    BY MmAssumption, SMT DEF NoTables
  <2>2. tlb'[c] \subseteq tlb[c]
    OBVIOUS
  <2>3. \A e \in tlb'[c] : e[2] = Idmap => pc'[c] \in {"idmap", "uninstall_flush"}
    BY <1>2, <1>3 DEF CpuTlb
  <2>4. \A e \in Cached(c)' : e[1] # 0 => e \in Cached(c)
    BY <2>1, <2>2 DEF Cached
  <2>5. Committed(c)' \in MM => Committed(c)' = Committed(c)
    BY MmAssumption
  <2>6. QED
    BY <1>1, <1>2, <1>3, <2>1, <2>2, <2>3, <2>4, <2>5 DEF CpuTlb
<1>6. QED
  BY <1>4, <1>5, LocalStep

-----------------------------------------------------------------------------
(* What the steps inside the locked region have in common.                 *)

(* What a step of the allocator leaves to CPU d: the index of the mm it is *)
(* committed to, an id on record for it, and, if no flush is queued for d, *)
(* nobody else to run under the index of an entry it holds.                *)
KeepsClaim(d) ==
  /\ Committed(d) \in MM =>
       /\ asid2idx(context_id'[Committed(d)]) = asid2idx(context_id[Committed(d)])
       /\ Held(d)' = context_id'[Committed(d)]
       /\ Held(d)' # NoAsid
  /\ d \notin tlb_flush_pending' =>
       /\ d \notin tlb_flush_pending
       /\ \A e \in Cached(d) : e[1] # 0 /\ Exclusive(e) => Exclusive(e)'

(* The ids a step may change: none that a fast path would find current.    *)
KeepsCurrent(d) ==
  /\ asid_generation' \in Nat /\ asid_generation <= asid_generation'
  /\ \A m \in MM : \/ context_id'[m] = context_id[m]
                   \/ Generation(context_id[m]) < asid_generation'
  /\ active_asids'[d] # NoAsid =>
       /\ active_asids'[d] = active_asids[d]
       /\ IssueGen' = IssueGen
       /\ \A m \in MM : Generation(context_id[m]) = IssueGen => context_id'[m] = context_id[m]

(* A CPU that stays in the same regime keeps what is said of its registers *)
(* and its TLB.                                                            *)
LEMMA SameTables ==
  ASSUME IndInv, NEW d \in CPU, KeepsClaim(d),
         active_mm'[d] = active_mm[d], next'[d] = next[d],
         ttbr0'[d] = ttbr0[d], tlb'[d] = tlb[d],
         pc'[d] = pc[d] \/ (Switching(d) /\ Switching(d)')
  PROVE  Committed(d)' = Committed(d) /\ CpuControl(d)' /\ CpuTlb(d)'
<1>1. CpuControl(d) /\ CpuTlb(d)
  BY CpuInv
<1>2. /\ Switching(d) => pc[d] \notin Install \cup Idmapped \cup {"run"}
      /\ Switching(d)' => pc'[d] \notin Install \cup Idmapped \cup {"run"}
  BY DEF Switching, Fast, Locked, Install, Idmapped
<1>3. /\ Switching(d)' = Switching(d) /\ Committed(d)' = Committed(d)
      /\ Cached(d)' = Cached(d) /\ Hits(d)' = Hits(d)
  BY <1>2 DEF Switching, Committed, Cached, Hits
<1>4. /\ pc'[d] \in Install <=> pc[d] \in Install
      /\ pc'[d] \in {"run"} \cup Idmapped <=> pc[d] \in {"run"} \cup Idmapped
      /\ pc'[d] \in Install \cup Idmapped \cup {"run"} => pc'[d] = pc[d]
  BY <1>2, <1>3
<1>5. CpuControl(d)'
  <2>1. /\ "run" \in Install \cup Idmapped \cup {"run"}
        /\ \A l \in {"write_ttbr0", "idmap_flush", "uninstall_flush", "idmap",
                     "set_reserved"} :
             l \in Install \cup Idmapped \cup {"run"}
        /\ "set_reserved" \in Install /\ "run" \notin Install
    BY DEF Install, Idmapped
  <2>2. ASSUME pc[d] = "run" \/ Switching(d), active_mm[d] \in MM
        PROVE  asid2idx(context_id'[active_mm[d]]) = asid2idx(context_id[active_mm[d]])
    BY <1>2, <2>1, <2>2 DEF Committed, KeepsClaim
  <2>3. ASSUME pc[d] = "set_reserved"
        PROVE  asid2idx(context_id'[next[d]]) = asid2idx(context_id[next[d]])
    BY <1>1, <2>1, <2>3 DEF Committed, KeepsClaim, CpuControl
  <2>4. QED
    BY <1>1, <1>3, <1>4, <2>1, <2>2, <2>3 DEF CpuControl
<1>6. CpuTlb(d)'
  <2>1. pc[d] \in {"idmap", "uninstall_flush"} => pc'[d] = pc[d]
    BY <1>4 DEF Idmapped
  <2>2. QED
    BY <1>1, <1>3, <2>1, SMT DEF CpuTlb, KeepsClaim
<1>7. QED
  BY <1>3, <1>5, <1>6

(* A step of another CPU in the allocator.                                 *)
LEMMA Bystander ==
  ASSUME IndInv, NEW c \in CPU, NEW d \in CPU, d # c, OthersUnchanged(c),
         pc[d] \notin Locked, KeepsClaim(d), KeepsCurrent(d)
  PROVE  CpuControl(d)' /\ CpuCall(d)' /\ CpuTlb(d)'
<1>1. /\ pc'[d] = pc[d] /\ active_mm'[d] = active_mm[d] /\ next'[d] = next[d]
      /\ asid'[d] = asid[d] /\ old_active_asid'[d] = old_active_asid[d]
      /\ ttbr0'[d] = ttbr0[d] /\ tlb'[d] = tlb[d]
  BY DEF OthersUnchanged
<1>2. Committed(d)' = Committed(d) /\ CpuControl(d)' /\ CpuTlb(d)'
  BY <1>1, SameTables
<1>3. CpuCall(d) /\ CpuControl(d)
  BY CpuInv
<1>4. asid_generation \in Nat /\ Generation(asid[d]) \in Nat
  BY IdParts DEF IndInv, TypeOK
<1>5. pc[d] \in Fast \cup Install => next[d] \in MM
  BY <1>3 DEF CpuControl, Switching
<1>6. ASSUME pc[d] \in Fast
      PROVE  \/ asid[d] = context_id'[next[d]]
             \/ Generation(asid[d]) < asid_generation'
  <2>1. next[d] \in MM
    BY <1>5, <1>6
  <2>2. CASE asid[d] = context_id[next[d]]
    BY <2>1, <2>2 DEF KeepsCurrent
  <2>3. CASE Generation(asid[d]) < asid_generation
    BY <1>4, <2>3, SMT DEF KeepsCurrent
  <2>4. QED
    BY <1>3, <1>6, <2>2, <2>3 DEF CpuCall
<1>7. ASSUME pc[d] = "cmpxchg", active_asids'[d] # NoAsid
      PROVE  asid[d] = context_id'[next[d]] /\ Generation(asid[d]) = IssueGen'
  <2>1. next[d] \in MM
    BY <1>5, <1>7 DEF Fast
  <2>2. /\ active_asids'[d] = active_asids[d] /\ IssueGen' = IssueGen
        /\ \A m \in MM : Generation(context_id[m]) = IssueGen => context_id'[m] = context_id[m]
    BY <1>7 DEF KeepsCurrent
  <2>3. asid[d] = context_id[next[d]] /\ Generation(asid[d]) = IssueGen
    BY <1>3, <1>7, <2>2 DEF CpuCall
  <2>4. QED
    BY <2>1, <2>2, <2>3
<1>8. ASSUME pc[d] = "write_ttbr0"
      PROVE  asid2idx(asid[d]) = asid2idx(context_id'[next[d]])
  <2>1. Committed(d) = next[d] /\ next[d] \in MM
    BY <1>5, <1>8 DEF Committed, Install
  <2>2. QED
    BY <1>3, <1>8, <2>1 DEF CpuCall, KeepsClaim
<1>9. /\ active_asids'[d] \in {NoAsid, active_asids[d]}
      /\ pc[d] # "flush_context" /\ pc[d] # "activate"
      /\ Committed(d) \in MM => Held(d)' = context_id'[Committed(d)] /\ Held(d)' # NoAsid
  BY DEF KeepsCurrent, KeepsClaim, Locked
<1>10. CpuCall(d)'
  BY <1>1, <1>2, <1>3, <1>6, <1>7, <1>8, <1>9 DEF CpuCall
<1>11. QED
  BY <1>2, <1>10

(* A step of c inside the locked region keeps the invariant if it keeps    *)
(* the claims of all, and what c itself will rely on.                      *)
LEMMA LockedStep ==
  ASSUME IndInv, NEW c \in CPU, Switching(c), pc'[c] \in Locked, OthersUnchanged(c),
         active_mm'[c] = active_mm[c], next'[c] = next[c],
         ttbr0'[c] = ttbr0[c], tlb'[c] = tlb[c],
         \A d \in CPU : d # c => pc[d] \notin Locked,
         \A d \in CPU : KeepsClaim(d) /\ KeepsCurrent(d),
         pc'[c] = "flush_context" =>
            /\ Generation(context_id'[next[c]]) # IssueGen'
            /\ context_id'[next[c]] # NoAsid => ~ ReservedHit(context_id[next[c]])',
         pc'[c] = "activate" =>
            /\ asid'[c] = context_id'[next[c]]
            /\ Generation(asid'[c]) = asid_generation',
         TypeOK', LockInv', IdInv', HeldInv'
  PROVE  IndInv'
<1>1. ASSUME NEW d \in CPU, d # c
      PROVE  CpuControl(d)' /\ CpuCall(d)' /\ CpuTlb(d)'
  BY <1>1, Bystander
<1>2. Switching(c)' /\ KeepsClaim(c)
  BY DEF Switching
<1>3. Committed(c)' = Committed(c) /\ CpuControl(c)' /\ CpuTlb(c)'
  BY <1>2, SameTables
<1>4. CpuCall(c)'
  <2>1. /\ pc'[c] \notin Fast /\ pc'[c] \notin {"read_generation", "cmpxchg"}
        /\ pc'[c] # "write_ttbr0"
    BY DEF Fast, Locked
  <2>2. pc'[c] = "flush_context" => context_id'[next'[c]] = context_id'[next[c]]
    OBVIOUS
  <2>3. Committed(c) \in MM => Held(c)' = context_id'[Committed(c)] /\ Held(c)' # NoAsid
    BY <1>2 DEF KeepsClaim
  <2>4. QED
    BY <1>3, <2>1, <2>2, <2>3 DEF CpuCall, ReservedHit
<1>5. ControlInv' /\ CallInv' /\ TlbInv'
  BY <1>1, <1>3, <1>4 DEF ControlInv, CallInv, TlbInv
<1>6. QED
  BY <1>5 DEF IndInv

-----------------------------------------------------------------------------
(* The steps of a switch.                                                  *)

(* Which labels are where.                                                 *)
LEMMA Labels ==
  /\ \A l \in {"run", "lock"} \cup Fast \cup Install \cup Idmapped :
       l \in Label /\ l \notin Locked
  /\ Locked \subseteq Label
  BY DEF Label, Fast, Locked, Install, Idmapped

(* A switch starts by reading the id of the mm.                            *)
LEMMA SwitchMmInv ==
  ASSUME IndInv, NEW c \in CPU, NEW m \in Affinity[c], SwitchMm(c, m)
  PROVE  IndInv'
<1>1. m \in MM
  BY BoundAssumption
<1>2. /\ pc[c] = "run" /\ pc' = [pc EXCEPT ![c] = "read_active"] /\ active_mm[c] # m
      /\ next' = [next EXCEPT ![c] = m]
      /\ asid' = [asid EXCEPT ![c] = context_id[m]]
      /\ UNCHANGED <<allocVars, active_mm, old_active_asid, ttbr0, tlb>>
  BY DEF SwitchMm, Goto, mmuVars
<1>3. "read_active" \in Label /\ "read_active" \notin Locked /\ pc[c] \notin Locked
  BY <1>2, Labels DEF Fast
<1>4. TypeOK'
  BY <1>1, <1>2, <1>3 DEF IndInv, TypeOK, allocVars
<1>5. /\ pc'[c] = "read_active" /\ next'[c] = m /\ asid'[c] = context_id[m]
      /\ OthersUnchanged(c)
  BY <1>2 DEF IndInv, TypeOK, OthersUnchanged
<1>6. CpuControl(c) /\ CpuCall(c) /\ CpuTlb(c)
  BY CpuInv
<1>7. CpuControl(c)'
  BY <1>1, <1>2, <1>5, <1>6 DEF CpuControl, Switching, Fast, Install, Idmapped, allocVars
<1>8. Committed(c)' = Committed(c)
  BY <1>2, <1>5 DEF Committed, Install
<1>9. /\ Scanning' = Scanning /\ IssueGen' = IssueGen
      /\ \A d \in CPU : Held(d)' = Held(d)
      /\ \A e : Exclusive(e)' = Exclusive(e)
      /\ \A id : ReservedHit(id)' = ReservedHit(id)
  BY <1>2, <1>3, LocalFrame
<1>10. CpuCall(c)'
  BY <1>2, <1>5, <1>6, <1>8, <1>9 DEF CpuCall, allocVars
<1>11. CpuTlb(c)'
  BY <1>2, <1>5, <1>6, <1>8, <1>9 DEF CpuTlb, Cached, Hits, allocVars
<1>12. QED
  BY <1>2, <1>3, <1>4, <1>5, <1>7, <1>10, <1>11, LocalStep

(* A step inside the fast path, or out of it to the lock, that only moves  *)
(* between labels and drops or fills locals: it keeps everything but what  *)
(* CpuCall says of the new label.                                          *)
LEMMA FastPathStep ==
  ASSUME IndInv, NEW c \in CPU, NEW l \in {"lock"} \cup Fast,
         pc[c] \in Fast, pc' = [pc EXCEPT ![c] = l],
         UNCHANGED <<allocVars, active_mm, next, ttbr0, tlb>>,
         NEW a \in ContextId, asid' = [asid EXCEPT ![c] = a],
         NEW o \in ContextId, old_active_asid' = [old_active_asid EXCEPT ![c] = o],
         CpuCall(c)'
  PROVE  IndInv'
<1>1. l \in Label /\ l \notin Locked /\ pc[c] \notin Locked
  BY Labels
<1>2. TypeOK'
  BY <1>1 DEF IndInv, TypeOK, allocVars
<1>3. pc'[c] = l /\ OthersUnchanged(c)
  BY DEF IndInv, TypeOK, OthersUnchanged
<1>4. CpuControl(c) /\ CpuTlb(c)
  BY CpuInv
<1>5. /\ Switching(c) /\ Switching(c)' /\ pc[c] \notin Install /\ l \notin Install
      /\ pc[c] \notin Idmapped /\ l \notin {"run"} \cup Idmapped /\ l # "set_reserved"
      /\ l \notin {"write_ttbr0", "idmap_flush", "uninstall_flush", "idmap"}
      /\ pc[c] \notin {"idmap", "uninstall_flush"}
  BY <1>3 DEF Switching, Fast, Install, Idmapped
<1>6. CpuControl(c)'
  BY <1>3, <1>4, <1>5 DEF CpuControl, allocVars
<1>7. Committed(c)' = Committed(c)
  BY <1>3, <1>5 DEF Committed
<1>8. /\ Scanning' = Scanning /\ IssueGen' = IssueGen
      /\ \A e : Exclusive(e)' = Exclusive(e)
  BY <1>1, LocalFrame
<1>9. CpuTlb(c)'
  BY <1>3, <1>4, <1>5, <1>7, <1>8 DEF CpuTlb, Cached, Hits, allocVars
<1>10. QED
  BY <1>1, <1>2, <1>3, <1>6, <1>9, LocalStep

(* At the lock nothing is known of the locals.                             *)
LEMMA ToLock ==
  ASSUME IndInv, NEW c \in CPU, pc[c] \in Fast, pc' = [pc EXCEPT ![c] = "lock"],
         UNCHANGED <<allocVars, active_mm, next, ttbr0, tlb>>, DropLocals(c)
  PROVE  IndInv'
<1>1. "lock" \notin Locked /\ pc[c] \notin Locked /\ pc[c] \notin Install
  BY Labels DEF Fast, Install
<1>2. pc'[c] = "lock"
  BY DEF IndInv, TypeOK
<1>3. Committed(c)' = Committed(c)
  BY <1>1, <1>2 DEF Committed, Install
<1>4. \A d \in CPU : Held(d)' = Held(d)
  BY <1>1, LocalFrame
<1>5. CpuCall(c)'
  BY <1>2, <1>3, <1>4 DEF IndInv, CallInv, CpuCall, Fast, allocVars
<1>6. "lock" \in {"lock"} \cup Fast /\ NoAsid \in ContextId
  BY ZeroTypes
<1>7. /\ asid' = [asid EXCEPT ![c] = NoAsid]
      /\ old_active_asid' = [old_active_asid EXCEPT ![c] = NoAsid]
  BY DEF DropLocals
<1>8. QED
  BY <1>5, <1>6, <1>7, FastPathStep

(* The CPU reads its own active id.                                        *)
LEMMA ReadActiveInv ==
  ASSUME IndInv, NEW c \in CPU, ReadActive(c)
  PROVE  IndInv'
<1>1. pc[c] = "read_active" /\ UNCHANGED <<allocVars, active_mm, ttbr0, tlb>>
  BY DEF ReadActive, mmuVars
<1>2. CASE active_asids[c] = NoAsid
  <2>1. pc' = [pc EXCEPT ![c] = "lock"] /\ DropLocals(c)
    BY <1>2 DEF ReadActive, Goto
  <2>2. pc[c] \in Fast /\ UNCHANGED <<allocVars, active_mm, next, ttbr0, tlb>>
    BY <1>1, <2>1 DEF Fast, DropLocals
  <2>3. QED
    BY <2>1, <2>2, ToLock
<1>3. CASE active_asids[c] # NoAsid
  <2>1. /\ pc' = [pc EXCEPT ![c] = "read_generation"] /\ UNCHANGED <<next, asid>>
        /\ old_active_asid' = [old_active_asid EXCEPT ![c] = active_asids[c]]
    BY <1>3 DEF ReadActive, Goto
  <2>2. /\ pc'[c] = "read_generation" /\ old_active_asid'[c] = active_asids[c]
        /\ active_asids[c] \in ContextId /\ asid[c] \in ContextId
        /\ asid' = [asid EXCEPT ![c] = asid[c]]
    BY <2>1 DEF IndInv, TypeOK
  <2>3. Committed(c)' = Committed(c)
    BY <1>1, <2>1, <2>2 DEF Committed, Install
  <2>4. "read_generation" \notin Locked /\ pc[c] \notin Locked
    BY <1>1, Labels DEF Fast
  <2>5. /\ IssueGen' = IssueGen
        /\ \A d \in CPU : Held(d)' = Held(d)
    BY <1>1, <2>1, <2>4, LocalFrame
  <2>6. CpuCall(c) /\ pc[c] \in Fast /\ "read_generation" \in {"lock"} \cup Fast
    BY <1>1 DEF IndInv, CallInv, Fast
  <2>7. CpuCall(c)'
    BY <1>1, <1>3, <2>1, <2>2, <2>3, <2>5, <2>6 DEF CpuCall, allocVars
  <2>8. UNCHANGED <<allocVars, active_mm, next, ttbr0, tlb>>
    BY <1>1, <2>1
  <2>9. QED
    BY <2>1, <2>2, <2>6, <2>7, <2>8, FastPathStep
<1>4. QED
  BY <1>2, <1>3

(* The id it read is compared with the generation: if it is current, it is *)
(* the id of the mm, and of the generation ids are issued in.              *)
LEMMA ReadGenerationInv ==
  ASSUME IndInv, NEW c \in CPU, ReadGeneration(c)
  PROVE  IndInv'
<1>1. pc[c] = "read_generation" /\ UNCHANGED <<allocVars, active_mm, ttbr0, tlb>>
  BY DEF ReadGeneration, mmuVars
<1>2. CASE Generation(asid[c]) # asid_generation
  <2>1. pc' = [pc EXCEPT ![c] = "lock"] /\ DropLocals(c)
    BY <1>2 DEF ReadGeneration, Goto
  <2>2. pc[c] \in Fast /\ UNCHANGED <<allocVars, active_mm, next, ttbr0, tlb>>
    BY <1>1, <2>1 DEF Fast, DropLocals
  <2>3. QED
    BY <2>1, <2>2, ToLock
<1>3. CASE Generation(asid[c]) = asid_generation
  <2>1. pc' = [pc EXCEPT ![c] = "cmpxchg"] /\ UNCHANGED <<next, asid, old_active_asid>>
    BY <1>3 DEF ReadGeneration, Goto, localVars
  <2>2. /\ pc'[c] = "cmpxchg" /\ asid[c] \in ContextId /\ old_active_asid[c] \in ContextId
        /\ asid' = [asid EXCEPT ![c] = asid[c]]
        /\ old_active_asid' = [old_active_asid EXCEPT ![c] = old_active_asid[c]]
    BY <2>1 DEF IndInv, TypeOK
  <2>3. CpuCall(c) /\ CpuControl(c) /\ pc[c] \in Fast /\ "cmpxchg" \in {"lock"} \cup Fast
    BY <1>1 DEF IndInv, CallInv, ControlInv, Fast
  <2>4. asid[c] = context_id[next[c]]
    <3>1. ~ (Generation(asid[c]) < asid_generation)
      BY <1>3, SMT DEF IndInv, TypeOK
    <3>2. QED
      BY <1>1, <2>3, <3>1 DEF CpuCall, Fast
  <2>5. Generation(asid[c]) = IssueGen
    <3>1. asid[c] # NoAsid
      BY <1>3, SMT DEF IndInv, TypeOK, NoAsid, Generation
    <3>2. Generation(asid[c]) \in 1 .. IssueGen
      <4>1. next[c] \in MM
        BY <2>3 DEF CpuControl, Switching
      <4>2. QED
        BY <2>4, <3>1, <4>1 DEF IndInv, IdInv
    <3>3. QED
      BY <1>3, <3>2, SMT DEF IssueGen, IndInv, TypeOK
  <2>6. Committed(c)' = Committed(c)
    BY <1>1, <2>1, <2>2 DEF Committed, Install
  <2>7. "cmpxchg" \notin Locked /\ pc[c] \notin Locked
    BY <1>1, Labels DEF Fast
  <2>8. /\ IssueGen' = IssueGen
        /\ \A d \in CPU : Held(d)' = Held(d)
    BY <1>1, <2>1, <2>7, LocalFrame
  <2>9. CpuCall(c)'
    BY <1>1, <2>1, <2>2, <2>3, <2>4, <2>5, <2>6, <2>8 DEF CpuCall, allocVars
  <2>10. UNCHANGED <<allocVars, active_mm, next, ttbr0, tlb>>
    BY <1>1, <2>1
  <2>11. QED
    BY <2>1, <2>2, <2>3, <2>9, <2>10, FastPathStep
<1>4. QED
  BY <1>2, <1>3

(* TTBR0 leaves the old tables; the id is read again.                      *)
LEMMA SetReservedTtbr0Inv ==
  ASSUME IndInv, NEW c \in CPU, SetReservedTtbr0(c)
  PROVE  IndInv'
<1>1. /\ pc[c] = "set_reserved" /\ pc' = [pc EXCEPT ![c] = "write_ttbr0"]
      /\ ttbr0' = [ttbr0 EXCEPT ![c] = NoTables]
      /\ asid' = [asid EXCEPT ![c] = context_id[next[c]]]
      /\ UNCHANGED <<allocVars, active_mm, next, old_active_asid, tlb>>
  BY DEF SetReservedTtbr0, Goto
<1>2. /\ "write_ttbr0" \in Label /\ "write_ttbr0" \notin Locked /\ "write_ttbr0" \notin Fast
      /\ pc[c] \notin Locked /\ pc[c] \in Install /\ "write_ttbr0" \in Install
  BY <1>1 DEF Label, Locked, Fast, Install
<1>3. next[c] \in MM
  <2>1. CpuControl(c)
    BY CpuInv
  <2>2. QED
    BY <1>2, <2>1 DEF CpuControl
<1>4. TypeOK'
  BY <1>1, <1>2, <1>3, ZeroTypes DEF IndInv, TypeOK, allocVars
<1>5. /\ pc'[c] = "write_ttbr0" /\ ttbr0'[c] = NoTables /\ asid'[c] = context_id[next[c]]
      /\ OthersUnchanged(c)
  BY <1>1 DEF IndInv, TypeOK, OthersUnchanged
<1>6. CpuControl(c)'
  BY <1>1, <1>3, <1>5 DEF CpuControl, Switching, Fast, Locked, Idmapped
<1>7. Committed(c)' = Committed(c)
  BY <1>1, <1>2, <1>5 DEF Committed
<1>8. /\ asid'[c] = context_id[next'[c]]
      /\ ttbr0'[c] \in {NoTables, <<0, Idmap>>} /\ tlb'[c] = tlb[c]
      /\ pc[c] \notin {"idmap", "uninstall_flush"}
      /\ Committed(c)' \in {Committed(c), InitMm} /\ UNCHANGED allocVars
  BY <1>1, <1>5, <1>7
<1>9. QED
  BY <1>1, <1>2, <1>4, <1>5, <1>6, <1>8, LeaveTablesStep

(* TTBR0 gets the new tables, under the index read again: it is the index  *)
(* of the committed mm, so it is clean.                                    *)
LEMMA WriteTtbr0Inv ==
  ASSUME IndInv, NEW c \in CPU, WriteTtbr0(c)
  PROVE  IndInv'
<1> DEFINE n == next[c]
           k == asid2idx(context_id[n])
<1>1. /\ pc[c] = "write_ttbr0" /\ pc' = [pc EXCEPT ![c] = "run"]
      /\ ttbr0' = [ttbr0 EXCEPT ![c] = <<asid2idx(asid[c]), n>>]
      /\ active_mm' = [active_mm EXCEPT ![c] = n]
      /\ next' = [next EXCEPT ![c] = InitMm]
      /\ asid' = [asid EXCEPT ![c] = NoAsid]
      /\ UNCHANGED <<allocVars, old_active_asid, tlb>>
  BY DEF WriteTtbr0, Goto
<1>2. /\ "run" \in Label /\ "run" \notin Locked /\ pc[c] \notin Locked
      /\ pc[c] \in Install /\ "run" \notin Install
  BY <1>1 DEF Label, Locked, Install
<1>3. CpuControl(c) /\ CpuCall(c) /\ CpuTlb(c)
  BY CpuInv
<1>4. n \in MM /\ Committed(c) = n /\ asid2idx(asid[c]) = k
  BY <1>1, <1>2, <1>3 DEF CpuControl, CpuCall, Committed
<1>5. /\ k # 0 /\ k \in Index /\ (~ Scanning => k \in asid_map)
      /\ \A m \in MM : MayRunUnder(m, k) => m = n
  BY <1>4, CommittedOwnsIndex
<1>6. <<k, n>> \in Translation
  BY <1>4, <1>5 DEF Translation
<1>7. TypeOK'
  BY <1>1, <1>2, <1>4, <1>6, ZeroTypes DEF IndInv, TypeOK, allocVars
<1>8. /\ pc'[c] = "run" /\ ttbr0'[c] = <<k, n>> /\ active_mm'[c] = n /\ next'[c] = InitMm
      /\ OthersUnchanged(c)
  BY <1>1, <1>4 DEF IndInv, TypeOK, OthersUnchanged
<1>9. Committed(c)' = Committed(c)
  BY <1>2, <1>4, <1>8 DEF Committed
<1>10. /\ Scanning' = Scanning /\ IssueGen' = IssueGen
       /\ \A d \in CPU : Held(d)' = Held(d)
       /\ \A e : Exclusive(e)' = Exclusive(e)
  BY <1>1, <1>2, LocalFrame
<1>11. CpuControl(c)'
  BY <1>1, <1>4, <1>8 DEF CpuControl, Switching, Fast, Locked, Install, allocVars
<1>12. CpuCall(c)'
  BY <1>1, <1>3, <1>8, <1>9, <1>10 DEF CpuCall, Fast, allocVars
<1>13. CpuTlb(c)'
  <2>1. \A e \in tlb[c] : e[2] # InitMm /\ e[2] # Idmap /\ e[1] # 0
    BY <1>1, <1>3 DEF CpuTlb
  <2>2. Exclusive(<<k, n>>)
    BY <1>5 DEF Exclusive
  <2>3. \A e \in Cached(c)' : e \in Cached(c) \/ e = <<k, n>>
    BY <1>1, <1>8 DEF Cached
  <2>4. c \notin tlb_flush_pending => \A e \in Cached(c)' : e[1] # 0 => Exclusive(e)
    BY <1>3, <2>2, <2>3 DEF CpuTlb
  <2>5. \A e \in tlb[c] : e[1] = k => e[2] = n
    BY <1>3, <1>4 DEF CpuTlb
  <2>6. \A e \in Hits(c)' : e[2] = n
    BY <1>1, <1>8, <2>1, <2>5, SMT DEF Hits
  <2>7. QED
    BY <1>1, <1>4, <1>8, <1>9, <1>10, <2>1, <2>4, <2>5, <2>6, SMT DEF CpuTlb, allocVars
<1>14. QED
  BY <1>1, <1>2, <1>7, <1>8, <1>11, <1>12, <1>13, LocalStep

(* A CPU goes to init_mm.                                                  *)
LEMMA SwitchToInitMmInv ==
  ASSUME IndInv, NEW c \in CPU, SwitchToInitMm(c)
  PROVE  IndInv'
<1>1. /\ pc[c] = "run" /\ UNCHANGED <<allocVars, pc, next, asid, old_active_asid, tlb>>
      /\ ttbr0' = [ttbr0 EXCEPT ![c] = NoTables]
      /\ active_mm' = [active_mm EXCEPT ![c] = InitMm]
  BY DEF SwitchToInitMm, localVars
<1>2. "run" \notin Locked /\ "run" \notin Fast /\ "run" \notin Install
  BY DEF Locked, Fast, Install
<1>3. TypeOK'
  BY <1>1, ZeroTypes DEF IndInv, TypeOK, allocVars
<1>4. /\ pc' = [pc EXCEPT ![c] = "run"] /\ pc'[c] = "run"
      /\ ttbr0'[c] = NoTables /\ active_mm'[c] = InitMm
      /\ OthersUnchanged(c)
  BY <1>1 DEF IndInv, TypeOK, OthersUnchanged
<1>5. next[c] = InitMm
  <2>1. CpuControl(c)
    BY CpuInv
  <2>2. QED
    BY <1>1, <2>1 DEF CpuControl
<1>6. CpuControl(c)'
  BY <1>1, <1>4, <1>5, MmAssumption DEF CpuControl, Switching, Fast, Locked, Install
<1>7. /\ Committed(c)' \in {Committed(c), InitMm}
      /\ ttbr0'[c] \in {NoTables, <<0, Idmap>>} /\ UNCHANGED allocVars
      /\ pc[c] \notin {"idmap", "uninstall_flush"} /\ pc[c] \notin Locked
      /\ "run" # "write_ttbr0" /\ tlb'[c] = tlb[c]
  BY <1>1, <1>2, <1>4 DEF Committed
<1>8. QED
  BY <1>2, <1>3, <1>4, <1>6, <1>7, LeaveTablesStep

-----------------------------------------------------------------------------
(* c makes the id of the mm it switches to its active one, with a flush    *)
(* first if one is queued: from here on it is committed to that mm.        *)
LEMMA PublishStep ==
  ASSUME IndInv, NEW c \in CPU, pc[c] \in {"cmpxchg", "activate"},
         pc' = [pc EXCEPT ![c] = "set_reserved"],
         active_asids' = [active_asids EXCEPT ![c] = context_id[next[c]]],
         Generation(context_id[next[c]]) = IssueGen,
         Scanning' = Scanning, Scanning => c >= scan,
         DropLocals(c),
         UNCHANGED <<asid_generation, asid_map, cur_idx, reserved_asids, context_id, scan>>,
         UNCHANGED <<active_mm, ttbr0>>,
         tlb_flush_pending' = tlb_flush_pending \ {c},
         tlb' = IF c \in tlb_flush_pending THEN [tlb EXCEPT ![c] = {}] ELSE tlb,
         lock' \in CPU \cup {NoCpu}, LockInv'
  PROVE  IndInv'
<1> DEFINE n  == next[c]
           id == context_id[n]
<1>1. CpuControl(c) /\ CpuCall(c) /\ CpuTlb(c)
  BY CpuInv
<1>2. Switching(c) /\ n \in MM /\ n # active_mm[c] /\ Committed(c) = active_mm[c]
  BY <1>1 DEF CpuControl, Switching, Committed, Fast, Locked, Install
<1>3. /\ \A d \in CPU : d # c => pc'[d] = pc[d] /\ active_asids'[d] = active_asids[d]
      /\ \A d \in CPU : d # c => tlb'[d] = tlb[d]
      /\ \A d \in CPU : d # c => asid'[d] = asid[d] /\ old_active_asid'[d] = old_active_asid[d]
      /\ pc'[c] = "set_reserved" /\ active_asids'[c] = id
      /\ tlb'[c] = IF c \in tlb_flush_pending THEN {} ELSE tlb[c]
      /\ next' = next
  BY DEF IndInv, TypeOK, DropLocals
<1>4. OthersUnchanged(c)
  BY <1>3 DEF OthersUnchanged
<1>5. IssueGen' = IssueGen /\ IssueGen \in Nat \ {0} /\ IdInv /\ HeldInv
  BY DEF IssueGen, IndInv, IdInv
<1>6. /\ id # NoAsid /\ id \in ContextId /\ asid2idx(id) # 0
      /\ ~ Scanning => asid2idx(id) \in asid_map
      /\ MayRunUnder(n, asid2idx(id))
  <2>1. id # NoAsid
    BY <1>5, SMT DEF NoAsid, Generation
  <2>2. id \in ContextId
    BY <1>2, IdTypes
  <2>3. ~ Scanning => IssueGen = asid_generation
    BY DEF IssueGen
  <2>4. QED
    BY <1>2, <1>5, <2>1, <2>2, <2>3 DEF IdInv, MayRunUnder
<1>7. TypeOK'
  <2>1. "set_reserved" \in Label /\ TypeOK
    BY DEF IndInv, Label, Install
  <2>2. tlb' \in [CPU -> SUBSET Translation]
    BY <2>1 DEF TypeOK
  <2>3. QED
    BY <1>6, <2>1, <2>2, ZeroTypes DEF TypeOK, DropLocals
<1>8. IdInv'
  BY <1>5 DEF IdInv
<1>9. HeldInv'
  <2>1. ActiveId(c)'
    BY <1>3, <1>5, <1>6, SMT DEF ActiveId
  <2>2. ASSUME NEW d \in CPU, d # c
        PROVE  ActiveId(d)'
    BY <1>3, <1>5, <2>2, SMT DEF HeldInv, ActiveId
  <2>3. ASSUME NEW k, Unissued(k)
        PROVE  Unissued(k)'
    <3>1. \A d \in CPU : active_asids'[d] = active_asids[d] \/ active_asids'[d] = id
      BY <1>3
    <3>2. QED
      BY <1>2, <1>5, <2>3, <3>1 DEF Unissued
  <2>4. \A d \in CPU : ReservedId(d)'
    BY <1>5, <2>3 DEF HeldInv, ReservedId
  <2>5. ReservedOnce' /\ MapInv'
    BY <1>5 DEF HeldInv, ReservedOnce, MapInv
  <2>6. QED
    BY <2>1, <2>2, <2>4, <2>5 DEF HeldInv
<1>10. /\ \A m, k : MayRunUnder(m, k)' = MayRunUnder(m, k)
       /\ \A e : Exclusive(e)' = Exclusive(e)
  <2>1. \A m, k : MayRunUnder(m, k)' = MayRunUnder(m, k)
    BY <1>5 DEF MayRunUnder
  <2>2. QED
    BY <2>1 DEF Exclusive
<1>11. active_mm[c] \in MM =>
         /\ ttbr0[c] = <<asid2idx(context_id[active_mm[c]]), active_mm[c]>>
         /\ asid2idx(context_id[active_mm[c]]) # 0
         /\ asid2idx(context_id[active_mm[c]]) # asid2idx(id)
         /\ Exclusive(ttbr0[c])
  <2> SUFFICES ASSUME active_mm[c] \in MM
               PROVE  /\ ttbr0[c] = <<asid2idx(context_id[active_mm[c]]), active_mm[c]>>
                      /\ asid2idx(context_id[active_mm[c]]) # 0
                      /\ asid2idx(context_id[active_mm[c]]) # asid2idx(id)
                      /\ Exclusive(ttbr0[c])
    OBVIOUS
  <2>1. ttbr0[c] = <<asid2idx(context_id[active_mm[c]]), active_mm[c]>>
    BY <1>1, <1>2 DEF CpuControl
  <2>2. LET k == asid2idx(context_id[active_mm[c]])
        IN  /\ k # 0 /\ (~ Scanning => k \in asid_map)
            /\ \A m \in MM : MayRunUnder(m, k) => m = active_mm[c]
    BY <1>2, CommittedOwnsIndex
  <2>3. QED
    BY <1>2, <1>6, <2>1, <2>2, SMT DEF Exclusive
<1>12. active_mm[c] \notin MM => ttbr0[c] = NoTables
  BY <1>1, <1>2 DEF CpuControl
<1>13. CpuControl(c)'
  <2>1. active_mm[c] \in MM =>
          /\ ttbr0[c][2] = active_mm[c] /\ ttbr0[c][1] # 0
          /\ ttbr0[c][1] # asid2idx(id)
    BY <1>11, SMT
  <2>2. QED
    BY <1>2, <1>3, <1>12, <2>1 DEF CpuControl, Switching, Fast, Locked, Idmapped
<1>14. Committed(c)' = n
  BY <1>3 DEF Committed, Install
<1>15. CpuCall(c)'
  <2>1. Held(c)' = id
    BY <1>3, <1>6 DEF Held
  <2>2. QED
    BY <1>3, <1>6, <1>14, <2>1 DEF CpuCall, Fast
<1>16. CpuTlb(c)'
  <2>1. tlb'[c] \subseteq tlb[c] /\ Hits(c)' \subseteq Hits(c)
    BY <1>3, SMT DEF Hits
  <2>2. pc[c] \notin {"idmap", "uninstall_flush"}
    OBVIOUS
  <2>3. \A e \in tlb'[c] : e[2] # InitMm /\ e[2] # Idmap /\ e[1] # 0
    BY <1>1, <2>1, <2>2 DEF CpuTlb
  <2>4. ASSUME NEW e \in Cached(c)', e[1] # 0
        PROVE  Exclusive(e)
    <3>1. CASE c \notin tlb_flush_pending
      <4>1. e \in Cached(c)
        BY <2>1, <2>4 DEF Cached
      <4>2. QED
        BY <1>1, <2>4, <3>1, <4>1 DEF CpuTlb
    <3>2. CASE c \in tlb_flush_pending
      <4>1. e = ttbr0[c]
        BY <1>3, <2>4, <3>2, SMT DEF Cached
      <4>2. active_mm[c] \in MM
        BY <1>12, <2>4, <4>1, SMT DEF NoTables
      <4>3. QED
        BY <1>11, <4>1, <4>2
    <3>3. QED
      BY <3>1, <3>2
  <2>5. ASSUME NEW e \in tlb'[c], e[1] = asid2idx(id)
        PROVE  e[2] = n
    <3>1. Exclusive(e)
      BY <1>6, <2>4, <2>5 DEF Cached
    <3>2. QED
      BY <1>2, <1>6, <2>5, <3>1 DEF Exclusive
  <2>6. QED
    BY <1>1, <1>3, <1>10, <1>14, <2>1, <2>3, <2>4, <2>5 DEF CpuTlb
<1>17. ASSUME NEW d \in CPU, d # c
       PROVE  CpuControl(d)' /\ CpuCall(d)' /\ CpuTlb(d)'
  <2>1. /\ pc'[d] = pc[d] /\ active_mm'[d] = active_mm[d] /\ next'[d] = next[d]
        /\ asid'[d] = asid[d] /\ old_active_asid'[d] = old_active_asid[d]
        /\ ttbr0'[d] = ttbr0[d] /\ tlb'[d] = tlb[d]
    BY <1>4, <1>17 DEF OthersUnchanged
  <2>2. /\ active_asids'[d] = active_asids[d] /\ Held(d)' = Held(d)
        /\ d \in tlb_flush_pending' <=> d \in tlb_flush_pending
        /\ \A x : ReservedHit(x)' = ReservedHit(x)
    BY <1>3, <1>17, SMT DEF Held, ReservedHit
  <2>3. /\ Switching(d)' = Switching(d) /\ Committed(d)' = Committed(d)
        /\ Cached(d)' = Cached(d) /\ Hits(d)' = Hits(d)
    BY <2>1 DEF Switching, Committed, Cached, Hits
  <2>4. CpuControl(d) /\ CpuCall(d) /\ CpuTlb(d)
    BY CpuInv
  <2>5. context_id' = context_id /\ asid_generation' = asid_generation
    OBVIOUS
  <2>6. CpuControl(d)'
    BY <2>1, <2>3, <2>4, <2>5 DEF CpuControl
  <2>7. CpuCall(d)'
    BY <1>5, <2>1, <2>2, <2>3, <2>4, <2>5 DEF CpuCall
  <2>8. CpuTlb(d)'
    BY <1>10, <2>1, <2>2, <2>3, <2>4, <2>5 DEF CpuTlb
  <2>9. QED
    BY <2>6, <2>7, <2>8
<1>18. ControlInv' /\ CallInv' /\ TlbInv'
  BY <1>13, <1>15, <1>16, <1>17 DEF ControlInv, CallInv, TlbInv
<1>19. QED
  BY <1>7, <1>8, <1>9, <1>18 DEF IndInv

(* The exchange on active_asids: it publishes the new id if no rollover    *)
(* came in between, and changes nothing otherwise.                         *)
LEMMA CmpxchgActiveInv ==
  ASSUME IndInv, NEW c \in CPU, CmpxchgActive(c)
  PROVE  IndInv'
<1>1. CpuCall(c) /\ ActiveId(c)
  BY CpuInv
<1>2. /\ pc[c] = "cmpxchg" /\ DropLocals(c)
      /\ active_asids' = [active_asids EXCEPT
                            ![c] = IF @ = old_active_asid[c] THEN asid[c] ELSE @]
      /\ UNCHANGED <<asid_generation, asid_map, cur_idx, reserved_asids, tlb_flush_pending>>
      /\ UNCHANGED <<context_id, lock, scan, active_mm, ttbr0, tlb>>
  BY DEF CmpxchgActive, Goto, mmuVars
<1>3. /\ old_active_asid[c] # NoAsid /\ active_asids[c] \in {NoAsid, old_active_asid[c]}
      /\ active_asids[c] # NoAsid =>
           asid[c] = context_id[next[c]] /\ Generation(asid[c]) = IssueGen
  BY <1>1, <1>2 DEF CpuCall
<1>4. CASE active_asids[c] = NoAsid
  <2>1. active_asids' = active_asids
    BY <1>2, <1>3, <1>4 DEF IndInv, TypeOK
  <2>2. pc' = [pc EXCEPT ![c] = "lock"]
    BY <1>4 DEF CmpxchgActive, Goto
  <2>3. pc[c] \in Fast /\ UNCHANGED <<allocVars, active_mm, next, ttbr0, tlb>>
    BY <1>2, <2>1 DEF Fast, allocVars, DropLocals
  <2>4. QED
    BY <1>2, <2>2, <2>3, ToLock
<1>5. CASE active_asids[c] # NoAsid
  <2>1. /\ pc' = [pc EXCEPT ![c] = "set_reserved"]
        /\ active_asids' = [active_asids EXCEPT ![c] = context_id[next[c]]]
    <3>1. active_asids[c] = old_active_asid[c] /\ asid[c] = context_id[next[c]]
      BY <1>3, <1>5
    <3>2. active_asids' = [active_asids EXCEPT ![c] = asid[c]]
      BY <1>2, <3>1
    <3>3. QED
      BY <1>5, <3>1, <3>2 DEF CmpxchgActive, Goto
  <2>2. c \notin tlb_flush_pending /\ (Scanning => c >= scan)
    BY <1>1, <1>5 DEF ActiveId
  <2>3. "set_reserved" \notin Locked /\ pc[c] \notin Locked /\ LockInv /\ pc \in [CPU -> Label]
    BY <1>2 DEF Locked, IndInv, ControlInv, TypeOK
  <2>4. Scanning' = Scanning
    BY <1>2, <2>1, <2>3 DEF Scanning, Locked
  <2>5. LockInv' /\ lock' \in CPU \cup {NoCpu}
    BY <1>2, <2>1, <2>3, <2>4 DEF LockInv, IndInv, TypeOK
  <2>6. /\ tlb_flush_pending' = tlb_flush_pending \ {c}
        /\ tlb' = IF c \in tlb_flush_pending THEN [tlb EXCEPT ![c] = {}] ELSE tlb
        /\ pc[c] \in {"cmpxchg", "activate"}
        /\ Generation(context_id[next[c]]) = IssueGen
    BY <1>2, <1>3, <1>5, <2>2
  <2>7. /\ UNCHANGED <<asid_generation, asid_map, cur_idx, reserved_asids, context_id, scan>>
        /\ UNCHANGED <<active_mm, ttbr0>>
    BY <1>2
  <2>8. QED
    BY <1>2, <2>1, <2>2, <2>4, <2>5, <2>6, <2>7, PublishStep
<1>6. QED
  BY <1>4, <1>5

(* The store to active_asids under the lock, after the flush of this CPU   *)
(* if one was queued; the lock is released.                                *)
LEMMA ActivateInv ==
  ASSUME IndInv, NEW c \in CPU, Activate(c)
  PROVE  IndInv'
<1>1. CpuCall(c) /\ LockInv
  BY CpuInv DEF IndInv, ControlInv
<1>2. /\ pc[c] = "activate" /\ pc' = [pc EXCEPT ![c] = "set_reserved"]
      /\ active_asids' = [active_asids EXCEPT ![c] = asid[c]]
      /\ tlb_flush_pending' = tlb_flush_pending \ {c}
      /\ tlb' = IF c \in tlb_flush_pending THEN [tlb EXCEPT ![c] = {}] ELSE tlb
      /\ lock' = NoCpu /\ DropLocals(c)
      /\ UNCHANGED <<asid_generation, asid_map, cur_idx, reserved_asids, context_id, scan>>
      /\ UNCHANGED <<active_mm, ttbr0>>
  BY DEF Activate, Goto
<1>3. asid[c] = context_id[next[c]] /\ Generation(asid[c]) = asid_generation
  BY <1>1, <1>2 DEF CpuCall
<1>4. lock = c /\ \A d \in CPU : d # c => pc[d] \notin Locked
  BY <1>1, <1>2 DEF LockInv, Locked
<1>5. ~ Scanning /\ ~ Scanning' /\ IssueGen = asid_generation
  BY <1>2, <1>4, CpuFacts DEF Scanning, IssueGen
<1>6. LockInv'
  <2>1. \A d \in CPU : pc'[d] \notin Locked
    BY <1>2, <1>4 DEF IndInv, TypeOK, Locked
  <2>2. QED
    BY <1>1, <1>2, <1>5, <2>1, CpuFacts DEF LockInv
<1>7. /\ pc[c] \in {"cmpxchg", "activate"} /\ Scanning' = Scanning /\ (Scanning => c >= scan)
      /\ active_asids' = [active_asids EXCEPT ![c] = context_id[next[c]]]
      /\ Generation(context_id[next[c]]) = IssueGen
      /\ lock' \in CPU \cup {NoCpu}
  BY <1>2, <1>3, <1>5 DEF Scanning
<1>8. QED
  BY <1>2, <1>6, <1>7, PublishStep

-----------------------------------------------------------------------------
(* The tables and the TLB.                                                 *)

(* The identity map is about to be installed.                              *)
LEMMA InstallIdmapInv ==
  ASSUME IndInv, NEW c \in CPU, InstallIdmap(c)
  PROVE  IndInv'
<1>1. /\ pc[c] = "run" /\ pc' = [pc EXCEPT ![c] = "idmap_flush"]
      /\ ttbr0' = [ttbr0 EXCEPT ![c] = NoTables]
      /\ UNCHANGED <<allocVars, active_mm, next, asid, old_active_asid, tlb>>
  BY DEF InstallIdmap, Goto, localVars
<1>2. /\ "idmap_flush" \in Label /\ "idmap_flush" \notin Locked /\ "idmap_flush" \notin Fast
      /\ pc[c] \notin Locked /\ pc[c] \notin Install /\ "idmap_flush" \notin Install
  BY <1>1 DEF Label, Locked, Fast, Install, Idmapped
<1>3. TypeOK'
  BY <1>1, <1>2, ZeroTypes DEF IndInv, TypeOK, allocVars
<1>4. /\ pc'[c] = "idmap_flush" /\ ttbr0'[c] = NoTables /\ tlb'[c] = tlb[c]
      /\ OthersUnchanged(c)
  BY <1>1 DEF IndInv, TypeOK, OthersUnchanged
<1>5. next[c] = InitMm
  <2>1. CpuControl(c)
    BY CpuInv
  <2>2. QED
    BY <1>1, <2>1 DEF CpuControl, Idmapped
<1>6. CpuControl(c)'
  BY <1>1, <1>4, <1>5 DEF CpuControl, Switching, Fast, Locked, Install
<1>7. /\ Committed(c)' \in {Committed(c), InitMm}
      /\ ttbr0'[c] \in {NoTables, <<0, Idmap>>} /\ UNCHANGED allocVars
      /\ pc[c] \notin {"idmap", "uninstall_flush"}
      /\ "idmap_flush" # "write_ttbr0"
  BY <1>1, <1>2, <1>4 DEF Committed
<1>8. QED
  BY <1>1, <1>2, <1>3, <1>4, <1>6, <1>7, LeaveTablesStep

(* The identity map is installed on a clean TLB.                           *)
LEMMA InstallIdmapFlushInv ==
  ASSUME IndInv, NEW c \in CPU, InstallIdmapFlush(c)
  PROVE  IndInv'
<1>1. /\ pc[c] = "idmap_flush" /\ pc' = [pc EXCEPT ![c] = "idmap"]
      /\ ttbr0' = [ttbr0 EXCEPT ![c] = <<0, Idmap>>]
      /\ tlb' = [tlb EXCEPT ![c] = {}]
      /\ UNCHANGED <<allocVars, active_mm, next, asid, old_active_asid>>
  BY DEF InstallIdmapFlush, Goto, localVars
<1>2. /\ "idmap" \in Label /\ "idmap" \notin Locked /\ "idmap" \notin Fast
      /\ pc[c] \notin Locked /\ pc[c] \notin Install /\ "idmap" \notin Install
  BY <1>1 DEF Label, Locked, Fast, Install, Idmapped
<1>3. TypeOK'
  BY <1>1, <1>2, ZeroTypes DEF IndInv, TypeOK, allocVars
<1>4. /\ pc'[c] = "idmap" /\ ttbr0'[c] = <<0, Idmap>> /\ tlb'[c] = {}
      /\ OthersUnchanged(c)
  BY <1>1 DEF IndInv, TypeOK, OthersUnchanged
<1>5. next[c] = InitMm
  <2>1. CpuControl(c)
    BY CpuInv
  <2>2. QED
    BY <1>1, <2>1 DEF CpuControl, Idmapped
<1>6. CpuControl(c)'
  BY <1>1, <1>4, <1>5 DEF CpuControl, Switching, Fast, Locked, Install
<1>7. /\ Committed(c)' \in {Committed(c), InitMm}
      /\ ttbr0'[c] \in {NoTables, <<0, Idmap>>} /\ UNCHANGED allocVars
      /\ "idmap" # "write_ttbr0"
  BY <1>1, <1>2, <1>4 DEF Committed
<1>8. QED
  BY <1>1, <1>2, <1>3, <1>4, <1>6, <1>7, LeaveTablesStep

(* A CPU restarts on the identity map.                                     *)
LEMMA CpuResumeInv ==
  ASSUME IndInv, NEW c \in CPU, CpuResume(c)
  PROVE  IndInv'
<1>1. /\ pc[c] = "run" /\ pc' = [pc EXCEPT ![c] = "idmap"]
      /\ ttbr0' = [ttbr0 EXCEPT ![c] = <<0, Idmap>>]
      /\ tlb' = [tlb EXCEPT ![c] = {}]
      /\ UNCHANGED <<allocVars, active_mm, next, asid, old_active_asid>>
  BY DEF CpuResume, Goto, localVars
<1>2. /\ "idmap" \in Label /\ "idmap" \notin Locked /\ "idmap" \notin Fast
      /\ pc[c] \notin Locked /\ pc[c] \notin Install /\ "idmap" \notin Install
  BY <1>1 DEF Label, Locked, Fast, Install, Idmapped
<1>3. TypeOK'
  BY <1>1, <1>2, ZeroTypes DEF IndInv, TypeOK, allocVars
<1>4. /\ pc'[c] = "idmap" /\ ttbr0'[c] = <<0, Idmap>> /\ tlb'[c] = {}
      /\ OthersUnchanged(c)
  BY <1>1 DEF IndInv, TypeOK, OthersUnchanged
<1>5. next[c] = InitMm
  <2>1. CpuControl(c)
    BY CpuInv
  <2>2. QED
    BY <1>1, <2>1 DEF CpuControl, Idmapped
<1>6. CpuControl(c)'
  BY <1>1, <1>4, <1>5 DEF CpuControl, Switching, Fast, Locked, Install
<1>7. /\ Committed(c)' \in {Committed(c), InitMm}
      /\ ttbr0'[c] \in {NoTables, <<0, Idmap>>} /\ UNCHANGED allocVars
      /\ "idmap" # "write_ttbr0"
  BY <1>1, <1>2, <1>4 DEF Committed
<1>8. QED
  BY <1>1, <1>2, <1>3, <1>4, <1>6, <1>7, LeaveTablesStep

(* TTBR0 leaves the identity map.                                          *)
LEMMA UninstallIdmapInv ==
  ASSUME IndInv, NEW c \in CPU, UninstallIdmap(c)
  PROVE  IndInv'
<1>1. /\ pc[c] = "idmap" /\ pc' = [pc EXCEPT ![c] = "uninstall_flush"]
      /\ ttbr0' = [ttbr0 EXCEPT ![c] = NoTables]
      /\ UNCHANGED <<allocVars, active_mm, next, asid, old_active_asid, tlb>>
  BY DEF UninstallIdmap, Goto, localVars
<1>2. /\ "uninstall_flush" \in Label /\ "uninstall_flush" \notin Locked
      /\ "uninstall_flush" \notin Fast
      /\ pc[c] \notin Locked /\ pc[c] \notin Install /\ "uninstall_flush" \notin Install
  BY <1>1 DEF Label, Locked, Fast, Install, Idmapped
<1>3. TypeOK'
  BY <1>1, <1>2, ZeroTypes DEF IndInv, TypeOK, allocVars
<1>4. /\ pc'[c] = "uninstall_flush" /\ ttbr0'[c] = NoTables /\ tlb'[c] = tlb[c]
      /\ OthersUnchanged(c)
  BY <1>1 DEF IndInv, TypeOK, OthersUnchanged
<1>5. next[c] = InitMm
  <2>1. CpuControl(c)
    BY CpuInv
  <2>2. QED
    BY <1>1, <2>1 DEF CpuControl, Idmapped
<1>6. CpuControl(c)'
  BY <1>1, <1>4, <1>5 DEF CpuControl, Switching, Fast, Locked, Install
<1>7. /\ Committed(c)' \in {Committed(c), InitMm}
      /\ ttbr0'[c] \in {NoTables, <<0, Idmap>>} /\ UNCHANGED allocVars
      /\ "uninstall_flush" \in {"idmap", "uninstall_flush"}
      /\ "uninstall_flush" # "write_ttbr0"
  BY <1>1, <1>2, <1>4 DEF Committed
<1>8. QED
  BY <1>1, <1>2, <1>3, <1>4, <1>6, <1>7, LeaveTablesStep

(* The global entries of the identity map are flushed, and the CPU goes    *)
(* back to its process, if it has one, by way of cpu_switch_mm.            *)
LEMMA UninstallIdmapFlushInv ==
  ASSUME IndInv, NEW c \in CPU, UninstallIdmapFlush(c)
  PROVE  IndInv'
<1> DEFINE l == IF active_mm[c] = InitMm THEN "run" ELSE "set_reserved"
<1>1. /\ pc[c] = "uninstall_flush" /\ pc' = [pc EXCEPT ![c] = l]
      /\ tlb' = [tlb EXCEPT ![c] = {}]
      /\ next' = [next EXCEPT ![c] = active_mm[c]]
      /\ UNCHANGED <<allocVars, active_mm, asid, old_active_asid, ttbr0>>
  BY DEF UninstallIdmapFlush, Goto
<1>2. \/ l = "run" /\ active_mm[c] = InitMm
      \/ l = "set_reserved" /\ active_mm[c] # InitMm
  OBVIOUS
<1> HIDE DEF l
<1>3. /\ l \in Label /\ l \notin Locked /\ l \notin Fast /\ pc[c] \notin Locked
      /\ pc[c] \notin Install /\ l # "write_ttbr0"
  BY <1>1, <1>2 DEF Label, Locked, Fast, Install
<1>4. TypeOK'
  BY <1>1, <1>3 DEF IndInv, TypeOK, allocVars
<1>5. /\ pc'[c] = l /\ tlb'[c] = {} /\ next'[c] = active_mm[c]
      /\ OthersUnchanged(c)
  BY <1>1 DEF IndInv, TypeOK, OthersUnchanged
<1>6. ttbr0[c] = NoTables /\ active_mm[c] \in MM \cup {InitMm}
  <2>1. CpuControl(c) /\ active_mm[c] \in MM \cup {InitMm}
    BY DEF IndInv, ControlInv, TypeOK
  <2>2. QED
    BY <1>1, <2>1 DEF CpuControl
<1>7. CpuControl(c)'
  <2>1. CASE l = "run" /\ active_mm[c] = InitMm
    BY <1>1, <1>5, <1>6, <2>1, MmAssumption DEF CpuControl, Switching, Fast, Locked, Install
  <2>2. CASE l = "set_reserved" /\ active_mm[c] # InitMm
    BY <1>1, <1>5, <1>6, <2>2 DEF CpuControl, Switching, Fast, Locked, Idmapped
  <2>3. QED
    BY <1>2, <2>1, <2>2
<1>8. /\ Committed(c)' \in {Committed(c), InitMm}
      /\ ttbr0'[c] \in {NoTables, <<0, Idmap>>} /\ UNCHANGED allocVars
  BY <1>1, <1>2, <1>3, <1>5, <1>6 DEF Committed
<1>9. QED
  BY <1>1, <1>3, <1>4, <1>5, <1>7, <1>8, LeaveTablesStep

(* What TTBR0 holds when it holds tables: never those of init_mm, under    *)
(* index 0 only the identity map, under the index of the committed mm only *)
(* its own.                                                                *)
LEMMA TablesInUse ==
  ASSUME IndInv, NEW c \in CPU, ttbr0[c] # NoTables
  PROVE  /\ ttbr0[c][2] # InitMm
         /\ ttbr0[c][1] = 0 <=> ttbr0[c][2] = Idmap
         /\ ttbr0[c][2] = Idmap => pc[c] = "idmap"
         /\ Committed(c) \in MM /\ ttbr0[c][1] = asid2idx(context_id[Committed(c)])
              => ttbr0[c][2] = Committed(c)
<1>1. CpuControl(c)
  BY CpuInv
<1>2. Committed(c) \in MM => asid2idx(context_id[Committed(c)]) # 0
  BY CommittedOwnsIndex
<1>3. CASE pc[c] = "idmap"
  <2>1. ttbr0[c] = <<0, Idmap>>
    BY <1>1, <1>3 DEF CpuControl
  <2>2. ttbr0[c][1] = 0 /\ ttbr0[c][2] = Idmap
    BY <2>1, SMT
  <2>3. QED
    BY <1>2, <1>3, <2>2, MmAssumption
<1>4. CASE pc[c] = "set_reserved"
  <2>1. /\ ttbr0[c][2] = active_mm[c] /\ active_mm[c] \in MM
        /\ ttbr0[c][1] # 0 /\ ttbr0[c][1] # asid2idx(context_id[next[c]])
    BY <1>1, <1>4 DEF CpuControl
  <2>2. Committed(c) = next[c]
    BY <1>4 DEF Committed, Install
  <2>3. QED
    BY <2>1, <2>2, MmAssumption
<1>5. CASE pc[c] = "run" \/ Switching(c)
  <2>1. active_mm[c] \in MM /\ ttbr0[c] = <<asid2idx(context_id[active_mm[c]]), active_mm[c]>>
    BY <1>1, <1>5 DEF CpuControl
  <2>2. Committed(c) = active_mm[c]
    BY <1>5 DEF Committed, Switching, Install, Fast, Locked
  <2>3. /\ ttbr0[c][1] = asid2idx(context_id[active_mm[c]])
        /\ ttbr0[c][2] = active_mm[c]
    BY <2>1, SMT
  <2>4. QED
    BY <1>2, <2>1, <2>2, <2>3, MmAssumption
<1>6. pc[c] \notin {"write_ttbr0", "idmap_flush", "uninstall_flush"}
  BY <1>1 DEF CpuControl
<1>7. pc[c] \in Label
  BY DEF IndInv, TypeOK
<1>8. QED
  BY <1>3, <1>4, <1>5, <1>6, <1>7 DEF Label, Switching, Fast, Locked, Install, Idmapped

(* A walk caches the translation in use.                                   *)
LEMMA TableWalkInv ==
  ASSUME IndInv, NEW c \in CPU, TableWalk(c)
  PROVE  IndInv'
<1>1. /\ UNCHANGED <<allocVars, pc, active_mm, next, asid, old_active_asid, ttbr0>>
      /\ tlb' = [tlb EXCEPT ![c] = @ \cup {ttbr0[c]}] /\ ttbr0[c] # NoTables
  BY DEF TableWalk, localVars
<1>2. UNCHANGED allocVars /\ UNCHANGED <<lock, scan, context_id, tlb_flush_pending>>
  BY <1>1 DEF allocVars
<1>3. Scanning' = Scanning
  BY <1>1, <1>2 DEF Scanning
<1>4. LockInv'
  <2>1. LockInv
    BY DEF IndInv, ControlInv
  <2>2. QED
    BY <1>1, <1>2, <1>3, <2>1 DEF LockInv
<1>5. /\ IssueGen' = IssueGen
      /\ \A d \in CPU : Held(d)' = Held(d)
      /\ \A e : Exclusive(e)' = Exclusive(e)
      /\ \A id : ReservedHit(id)' = ReservedHit(id)
  BY <1>2, <1>3, AllocFrame
<1>6. TypeOK'
  BY <1>1 DEF IndInv, TypeOK, allocVars
<1>7. tlb'[c] = tlb[c] \cup {ttbr0[c]} /\ OthersUnchanged(c)
  BY <1>1 DEF IndInv, TypeOK, OthersUnchanged
<1>8. CpuControl(c) /\ CpuCall(c) /\ CpuTlb(c)
  BY CpuInv
<1>9. Committed(c)' = Committed(c) /\ Switching(c)' = Switching(c)
  BY <1>1 DEF Committed, Switching
<1>10. CpuControl(c)'
  BY <1>1, <1>2, <1>8, <1>9 DEF CpuControl
<1>11. CpuCall(c)'
  <2>1. UNCHANGED <<asid_generation, active_asids>>
    BY <1>2 DEF allocVars
  <2>2. QED
    BY <1>1, <1>2, <1>5, <1>8, <1>9, <2>1 DEF CpuCall
<1>12. CpuTlb(c)'
  <2> DEFINE t == ttbr0[c]
  <2>1. /\ t[2] # InitMm
        /\ t[1] = 0 <=> t[2] = Idmap
        /\ t[2] = Idmap => pc[c] = "idmap"
        /\ Committed(c) \in MM /\ t[1] = asid2idx(context_id[Committed(c)])
             => t[2] = Committed(c)
    BY <1>1, TablesInUse
  <2>2. Cached(c)' = Cached(c) /\ ttbr0'[c] = t /\ pc'[c] = pc[c]
    BY <1>1, <1>7 DEF Cached
  <2>3. \A e \in Hits(c)' : e \in Hits(c) \/ e = t
    BY <1>1, <1>7 DEF Hits
  <2>4. \A e \in tlb'[c] : e \in tlb[c] \/ e = t
    BY <1>7
  <2> HIDE DEF t
  <2>5. \A e \in tlb'[c] :
           /\ e[2] # InitMm
           /\ (e[1] = 0) <=> (e[2] = Idmap)
           /\ e[2] = Idmap => pc'[c] \in {"idmap", "uninstall_flush"}
    BY <1>8, <2>1, <2>2, <2>4 DEF CpuTlb
  <2>6. c \notin tlb_flush_pending' => \A e \in Cached(c)' : e[1] # 0 => Exclusive(e)'
    BY <1>2, <1>5, <1>8, <2>2 DEF CpuTlb
  <2>7. Committed(c)' \in MM =>
          \A e \in tlb'[c] :
             e[1] = asid2idx(context_id'[Committed(c)']) => e[2] = Committed(c)'
    BY <1>2, <1>8, <1>9, <2>1, <2>4 DEF CpuTlb
  <2>8. ttbr0'[c][2] \in MM => \A e \in Hits(c)' : e[2] = ttbr0'[c][2]
    BY <1>8, <2>2, <2>3 DEF CpuTlb, t
  <2>9. QED
    BY <2>5, <2>6, <2>7, <2>8 DEF CpuTlb
<1>13. QED
  BY <1>2, <1>3, <1>4, <1>6, <1>7, <1>10, <1>11, <1>12, CpuStep

(* A process exits and its mm_struct is used again: what was cached from   *)
(* its tables belongs to nobody, and nobody may come to run under its      *)
(* index.                                                                  *)
LEMMA RecycleMmInv ==
  ASSUME IndInv, NEW m \in Mortal, RecycleMm(m)
  PROVE  IndInv'
<1>0. m \in MM
  BY BoundAssumption
<1>1. /\ UNCHANGED <<asid_generation, asid_map, cur_idx, active_asids, reserved_asids>>
      /\ UNCHANGED <<tlb_flush_pending, lock, scan, pc, active_mm, next, asid>>
      /\ UNCHANGED <<old_active_asid, ttbr0>>
      /\ context_id' = [context_id EXCEPT ![m] = NoAsid]
      /\ tlb' = [c \in CPU |-> Disown(tlb[c], m)]
      /\ \A c \in CPU : active_mm[c] # m /\ next[c] # m
  BY DEF RecycleMm, localVars
<1>2. Scanning' = Scanning /\ IssueGen' = IssueGen
  BY <1>1 DEF Scanning, IssueGen
<1>3. /\ \A n \in MM : n # m => context_id'[n] = context_id[n]
      /\ context_id'[m] = NoAsid
  BY <1>0, <1>1 DEF IndInv, TypeOK
<1>4. /\ \A c \in CPU : Committed(c)' = Committed(c) /\ Committed(c) # m
      /\ \A c \in CPU : Held(c)' = Held(c) /\ Switching(c)' = Switching(c)
      /\ \A id : ReservedHit(id)' = ReservedHit(id)
  BY <1>1 DEF Committed, Held, Switching, ReservedHit
<1>5. TypeOK'
  <2>1. TypeOK
    BY DEF IndInv
  <2>2. \A c \in CPU : Disown(tlb[c], m) \in SUBSET Translation
    BY <2>1, SMT DEF TypeOK, Disown, Translation
  <2>3. context_id' \in [MM -> ContextId] /\ tlb' \in [CPU -> SUBSET Translation]
    BY <1>0, <1>1, <2>1, <2>2, ZeroTypes DEF TypeOK
  <2>4. QED
    BY <1>1, <2>1, <2>3 DEF TypeOK
<1>6. IdInv'
  <2>1. IdInv
    BY DEF IndInv
  <2>2. QED
    BY <1>1, <1>2, <1>3, <2>1, SMT DEF IdInv
<1>7. HeldInv'
  <2>1. HeldInv /\ IssueGen \in Nat \ {0}
    BY DEF IndInv, IdInv
  <2>2. \A k : NoAsid # <<IssueGen, k>>
    BY <2>1 DEF NoAsid
  <2>3. ASSUME NEW k, Unissued(k)
        PROVE  Unissued(k)'
    <3>1. ASSUME NEW n \in MM
          PROVE  context_id'[n] # <<IssueGen, k>>
      <4>1. context_id[n] # <<IssueGen, k>> /\ NoAsid # <<IssueGen, k>>
        BY <2>2, <2>3 DEF Unissued
      <4>2. context_id'[n] = context_id[n] \/ context_id'[n] = NoAsid
        BY <1>3
      <4>3. QED
        BY <4>1, <4>2
    <3>2. QED
      BY <1>1, <1>2, <2>3, <3>1 DEF Unissued
  <2>4. \A c \in CPU : ActiveId(c)'
    BY <1>1, <1>2, <2>1 DEF HeldInv, ActiveId
  <2>5. \A c \in CPU : ReservedId(c)'
    BY <1>1, <1>2, <2>1, <2>3 DEF HeldInv, ReservedId
  <2>6. ReservedOnce' /\ MapInv'
    BY <1>1, <1>2, <2>1 DEF HeldInv, ReservedOnce, MapInv
  <2>7. QED
    BY <2>4, <2>5, <2>6 DEF HeldInv
<1>8. LockInv'
  <2>1. LockInv
    BY DEF IndInv, ControlInv
  <2>2. QED
    BY <1>1, <1>2, <2>1 DEF LockInv
<1>9. ASSUME NEW c \in CPU
      PROVE  CpuControl(c)'
  <2>1. CpuControl(c)
    BY CpuInv
  <2>2. /\ active_mm[c] \in MM => context_id'[active_mm[c]] = context_id[active_mm[c]]
        /\ next[c] \in MM => context_id'[next[c]] = context_id[next[c]]
    BY <1>1, <1>3
  <2>3. pc[c] = "set_reserved" => next[c] \in MM
    BY <2>1 DEF CpuControl, Install
  <2>4. QED
    BY <1>1, <1>4, <2>1, <2>2, <2>3 DEF CpuControl
<1>10. ASSUME NEW c \in CPU
       PROVE  CpuCall(c)'
  <2>1. CpuCall(c) /\ CpuControl(c)
    BY CpuInv
  <2>2. pc[c] \in Fast \cup Locked \cup Install => next[c] \in MM
    BY <2>1 DEF CpuControl, Switching
  <2>3. pc[c] \in Fast \cup Locked \cup Install => context_id'[next[c]] = context_id[next[c]]
    BY <1>1, <1>3, <2>2
  <2>4. Committed(c) \in MM => context_id'[Committed(c)] = context_id[Committed(c)]
    BY <1>3, <1>4
  <2>5. QED
    BY <1>1, <1>2, <1>4, <2>1, <2>3, <2>4 DEF CpuCall, Fast, Locked, Install
<1>11. ASSUME NEW c \in CPU
       PROVE  CpuTlb(c)'
  <2>1. CpuTlb(c) /\ CpuControl(c) /\ tlb[c] \subseteq Translation
    <3>1. tlb[c] \subseteq Translation
      BY DEF IndInv, TypeOK
    <3>2. QED
      BY <3>1, CpuInv
  <2>2. \A e \in tlb'[c] : \/ e \in tlb[c] /\ e[2] # m
                           \/ <<e[1], m>> \in tlb[c] /\ e[2] = Gone
    <3> SUFFICES ASSUME NEW e \in Disown(tlb[c], m)
                 PROVE  \/ e \in tlb[c] /\ e[2] # m
                        \/ <<e[1], m>> \in tlb[c] /\ e[2] = Gone
      BY <1>1
    <3>1. PICK x \in tlb[c] : e = IF x[2] = m THEN <<x[1], Gone>> ELSE x
      BY DEF Disown
    <3>2. x = <<x[1], x[2]>>
      BY <2>1, SMT DEF Translation
    <3>3. CASE x[2] = m
      BY <3>1, <3>2, <3>3
    <3>4. CASE x[2] # m
      BY <3>1, <3>4
    <3>5. QED
      BY <3>3, <3>4
  <2>3. \A n \in MM : \A k : MayRunUnder(n, k)' => MayRunUnder(n, k) /\ n # m
    BY <1>1, <1>2, <1>3 DEF MayRunUnder
  <2>4. \A e \in tlb'[c] :
          /\ e[2] # InitMm
          /\ (e[1] = 0) <=> (e[2] = Idmap)
          /\ e[2] = Idmap => pc'[c] \in {"idmap", "uninstall_flush"}
    <3> SUFFICES ASSUME NEW e \in tlb'[c]
                 PROVE  /\ e[2] # InitMm
                        /\ (e[1] = 0) <=> (e[2] = Idmap)
                        /\ e[2] = Idmap => pc[c] \in {"idmap", "uninstall_flush"}
      BY <1>1
    <3>1. CASE e \in tlb[c]
      BY <2>1, <3>1 DEF CpuTlb
    <3>2. CASE <<e[1], m>> \in tlb[c] /\ e[2] = Gone
      <4>1. <<e[1], m>>[1] = 0 <=> <<e[1], m>>[2] = Idmap
        BY <2>1, <3>2 DEF CpuTlb
      <4>2. QED
        BY <1>0, <3>2, <4>1, MmAssumption
    <3>3. QED
      BY <2>2, <3>1, <3>2
  <2>5. ASSUME c \notin tlb_flush_pending', NEW e \in Cached(c)', e[1] # 0
        PROVE  Exclusive(e)'
    <3>1. CASE e \in Cached(c)
      <4>1. Exclusive(e)
        BY <1>1, <2>1, <2>5, <3>1 DEF CpuTlb
      <4>2. QED
        BY <1>1, <1>2, <2>3, <4>1 DEF Exclusive
    <3>2. CASE <<e[1], m>> \in tlb[c]
      <4>1. Exclusive(<<e[1], m>>)
        <5>1. <<e[1], m>> \in Cached(c) /\ <<e[1], m>>[1] # 0
          BY <2>5, <3>2 DEF Cached
        <5>2. QED
          BY <1>1, <2>1, <2>5, <5>1 DEF CpuTlb
      <4>2. QED
        BY <1>1, <1>2, <2>3, <4>1 DEF Exclusive
    <3>3. QED
      BY <1>1, <2>2, <2>5, <3>1, <3>2 DEF Cached
  <2>6. ASSUME Committed(c)' \in MM, NEW e \in tlb'[c],
               e[1] = asid2idx(context_id'[Committed(c)'])
        PROVE  e[2] = Committed(c)'
    <3>1. /\ Committed(c) \in MM /\ Committed(c)' = Committed(c) /\ Committed(c) # m
          /\ e[1] = asid2idx(context_id[Committed(c)])
      BY <1>3, <1>4, <2>6
    <3>2. CASE e \in tlb[c]
      BY <2>1, <3>1, <3>2 DEF CpuTlb
    <3>3. CASE <<e[1], m>> \in tlb[c]
      <4>1. <<e[1], m>>[1] = e[1] /\ <<e[1], m>>[2] = m
        OBVIOUS
      <4>2. QED
        BY <2>1, <3>1, <3>3, <4>1 DEF CpuTlb
    <3>4. QED
      BY <2>2, <2>6, <3>2, <3>3
  <2>7. ASSUME ttbr0'[c][2] \in MM, NEW e \in Hits(c)'
        PROVE  e[2] = ttbr0'[c][2]
    <3>1. /\ e \in tlb'[c] /\ (e[1] = ttbr0[c][1] \/ e[2] = Idmap)
          /\ ttbr0'[c] = ttbr0[c] /\ ttbr0[c][2] \in MM
      BY <1>1, <2>7 DEF Hits
    <3>2. ttbr0[c][2] # m
      <4>1. ttbr0[c] # NoTables /\ ttbr0[c] # <<0, Idmap>>
        BY <3>1, MmAssumption, SMT DEF NoTables
      <4>2. ttbr0[c][2] = active_mm[c]
        <5>1. pc[c] \in Label
          BY DEF IndInv, TypeOK
        <5>2. pc[c] = "run" \/ Switching(c) \/ pc[c] = "set_reserved"
          BY <2>1, <4>1, <5>1 DEF CpuControl, Label, Switching, Fast, Locked, Install, Idmapped
        <5>3. QED
          BY <2>1, <4>1, <5>2, SMT DEF CpuControl
      <4>3. QED
        BY <1>1, <4>2
    <3>3. CASE e \in tlb[c]
      BY <2>1, <3>1, <3>3 DEF CpuTlb, Hits
    <3>4. CASE <<e[1], m>> \in tlb[c] /\ e[2] = Gone
      <4>1. <<e[1], m>>[1] = e[1] /\ <<e[1], m>>[2] = m /\ e[1] = ttbr0[c][1]
        BY <3>1, <3>4, MmAssumption
      <4>2. <<e[1], m>> \in Hits(c)
        BY <3>4, <4>1 DEF Hits
      <4>3. QED
        BY <2>1, <3>1, <3>2, <4>1, <4>2 DEF CpuTlb
    <3>5. QED
      BY <2>2, <3>1, <3>3, <3>4
  <2>8. QED
    BY <2>4, <2>5, <2>6, <2>7 DEF CpuTlb
<1>12. QED
  BY <1>5, <1>6, <1>7, <1>8, <1>9, <1>10, <1>11 DEF IndInv, ControlInv, CallInv, TlbInv
=============================================================================
