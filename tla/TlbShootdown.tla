---------------------------- MODULE TlbShootdown ----------------------------
(***************************************************************************)
(* Unmapping a page (asm/tlbflush.h, ASID() of asm/mmu.h) composed with    *)
(* the ASID allocator.  One context, say reclaim, clears a page table      *)
(* entry of some mm and invalidates what the TLBs cached from it, while    *)
(* the CPUs switch between processes and may give that mm a new ASID.      *)
(*                                                                         *)
(* flush_tlb_mm, flush_tlb_page and __flush_tlb_range load the ASID        *)
(* before their first barrier.  The architecture lets that load complete   *)
(* before the earlier store to the page table is visible to other CPUs'    *)
(* table walkers, so the store waits in a buffer until the barrier.        *)
(***************************************************************************)
EXTENDS AsidAllocator

CONSTANTS
  Unmapped        \* bound: the mms whose page tables are changed

ASSUME UnmappedAssumption == Unmapped \subseteq MM

VARIABLES
  flush_pc,       \* where the unmapping context is
  flush_mm,       \* the mm it unmaps from
  flush_asid,     \* the index it loaded with ASID(mm)
  pte_buffered,   \* its store to the page table is not yet visible
  stale,          \* the entries each TLB has cached from before that store
  raced           \* history: the mms that got another ASID after a flush had
                  \* loaded theirs and before the store became visible

flushVars == <<flush_pc, flush_mm, flush_asid, pte_buffered, raced>>
shootdownVars == <<vars, flushVars, stale>>

Idle == flush_pc = "idle"

ShootdownInit ==
  /\ Init
  /\ flush_pc     = "idle"
  /\ flush_mm     = InitMm
  /\ flush_asid   = 0
  /\ pte_buffered = FALSE
  /\ stale        = [c \in CPU |-> {}]
  /\ raced        = {}

(* From now on a walk of m's tables finds the new entry: what the TLBs     *)
(* have cached from them is stale.                                         *)
PteVisible(m) == stale' = [c \in CPU |-> stale[c] \cup {e \in tlb[c] : e[2] = m}]

(* What a TLB drops is not stale any more.                                 *)
StaleCached == stale' = [c \in CPU |-> stale[c] \cap tlb'[c]]

AllButTlb == <<allocVars, pc, active_mm, localVars, ttbr0>>

ClearPte(m) ==
  /\ Idle
  /\ flush_pc' = "load_asid"
  /\ flush_mm' = m
  /\ pte_buffered' = TRUE
  /\ UNCHANGED <<vars, flush_asid, stale, raced>>

DrainStore ==
  /\ pte_buffered
  /\ pte_buffered' = FALSE
  /\ PteVisible(flush_mm)
  /\ raced' = IF flush_pc = "barrier" /\ flush_asid # asid2idx(context_id[flush_mm])
              THEN raced \cup {flush_mm} ELSE raced
  /\ UNCHANGED <<vars, flush_pc, flush_mm, flush_asid>>

(* asid = __TLBI_VADDR(0, ASID(mm)): a plain load, ordered by nothing.     *)
LoadAsid ==
  /\ flush_pc = "load_asid"
  /\ flush_pc' = "barrier"
  /\ flush_asid' = asid2idx(context_id[flush_mm])
  /\ UNCHANGED <<vars, flush_mm, pte_buffered, stale, raced>>

(* Mutant: no barrier before the invalidation.                             *)
TlbiNoBarrier ==
  /\ flush_pc = "barrier"
  /\ flush_pc' = "idle"
  /\ flush_mm' = InitMm
  /\ flush_asid' = 0
  /\ tlb' = [c \in CPU |-> {e \in tlb[c] : e[1] # flush_asid \/ e[2] = Idmap}]
  /\ StaleCached
  /\ UNCHANGED <<AllButTlb, pte_buffered, raced>>

(* Mutant: the invalidation is not broadcast.                              *)
TlbiLocal ==
  /\ flush_pc = "barrier"
  /\ ~ pte_buffered
  /\ flush_pc' = "idle"
  /\ flush_mm' = InitMm
  /\ flush_asid' = 0
  /\ tlb' = [tlb EXCEPT ![0] = {e \in @ : e[1] # flush_asid \/ e[2] = Idmap}]
  /\ StaleCached
  /\ UNCHANGED <<AllButTlb, pte_buffered, raced>>

(* dsb(ishst) waits for the store; __tlbi(...is) and dsb(ish) remove the   *)
(* entries with that ASID from the TLBs of all CPUs.                       *)
TlbiBroadcast ==
  /\ flush_pc = "barrier"
  /\ ~ pte_buffered
  /\ flush_pc' = "idle"
  /\ flush_mm' = InitMm
  /\ flush_asid' = 0
  /\ tlb' = [c \in CPU |-> {e \in tlb[c] : e[1] # flush_asid \/ e[2] = Idmap}]
  /\ StaleCached
  /\ UNCHANGED <<AllButTlb, pte_buffered, raced>>

(* The unmapping context holds a reference: its mm is not recycled.        *)
ShootdownNext ==
  \/ /\ \/ \E c \in CPU : Start(c) \/ Continue(c) \/ TableWalk(c)
        \/ \E m \in Mortal \ {flush_mm} : RecycleMm(m)
     /\ StaleCached
     /\ UNCHANGED flushVars
  \/ \E m \in Unmapped : ClearPte(m)
  \/ DrainStore
  \/ LoadAsid
  \/ TlbiBroadcast

ShootdownSpec == ShootdownInit /\ [][ShootdownNext]_shootdownVars

-----------------------------------------------------------------------------
(* The unmapping context is at one of its three labels, with an mm exactly *)
(* while it is busy, and the store waits only while it is busy.            *)
ShootdownTypeOK ==
  /\ flush_pc \in {"idle", "load_asid", "barrier"}
  /\ flush_mm \in MM \cup {InitMm}
  /\ flush_asid \in Index
  /\ pte_buffered \in BOOLEAN
  /\ (flush_mm = InitMm) = (flush_pc = "idle")
  /\ pte_buffered => flush_pc # "idle"
  /\ stale \in [CPU -> SUBSET (Index \X MM)]
  /\ raced \in SUBSET MM

(* c translates with the tables of a process.  A CPU that has published    *)
(* the id of the next process and not yet written the reserved TTBR0 does  *)
(* not count: it makes no access to user memory.                           *)
Translates(c) == ttbr0[c][2] \in MM /\ pc[c] # "set_reserved"

(* The stale entries that answer on c.                                     *)
StaleHits(c) == stale[c] \cap Hits(c)

(* "flush_tlb_mm(mm): Invalidate all TLB entries in a particular address   *)
(* space": once the invalidation has returned, no CPU that runs the        *)
(* process, under whatever ASID it has by then, can hit a translation from *)
(* before the page table was changed.                                      *)
NoStaleHit ==
  \A c \in CPU : Translates(c) /\ StaleHits(c) # {} => ttbr0[c][2] = flush_mm

(* The only way to a stale hit is the window between the load of the ASID  *)
(* and the barrier: if the mm did not get another ASID in it, the flush    *)
(* reaches every entry, through rollovers on other CPUs, ids carried over  *)
(* and processes that exit.                                                *)
StaleHitsOnlyIfRaced ==
  \A c \in CPU :
    Translates(c) /\ StaleHits(c) # {} => ttbr0[c][2] \in raced \cup {flush_mm}
=============================================================================
